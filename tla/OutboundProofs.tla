---------------------------- MODULE OutboundProofs ----------------------------
(***************************************************************************)
(* What the way of a request through Outbound keeps: the configuration is  *)
(* the declared one, nothing the routing headers declare is lost, the      *)
(* search finds what is there, the most specific rule for a name wins,     *)
(* one credential crosses, what is sent goes where it is meant to, and the *)
(* header of the reply fits what follows it.                               *)
(***************************************************************************)
EXTENDS Outbound, SequenceTheorems, FiniteSetTheorems, WellFoundedInduction, TLAPS

----------------------------------------------------------------------------
(* The least and the greatest of a set of positions                        *)

LEMMA LeastNumber ==
    ASSUME NEW T \in SUBSET Nat, T # {}
    PROVE  Min(T) \in T /\ \A y \in T : Min(T) <= y
<1>1. PICK x \in T : \A y \in T : ~(<<y, x>> \in OpToRel(<, Nat))
  BY NatLessThanWellFounded, WFMin
<1>2. \A y \in T : x <= y
  <2> SUFFICES ASSUME NEW y \in T PROVE x <= y
    OBVIOUS
  <2>1. x \in Nat /\ y \in Nat
    OBVIOUS
  <2>2. ~(y < x)
    BY <1>1, <2>1 DEF OpToRel
  <2> QED
    BY <2>1, <2>2
<1>3. \E m \in T : \A y \in T : m <= y
  BY <1>2
<1> QED
  BY <1>3 DEF Min

LEMMA GreatestNumber ==
    ASSUME NEW N \in Nat, NEW T \in SUBSET (0 .. N), T # {}
    PROVE  Max(T) \in T /\ \A y \in T : Max(T) >= y
<1> DEFINE U == {N - y : y \in T}
<1>0. \A y \in T : N - y \in Nat
  <2> SUFFICES ASSUME NEW y \in T PROVE N - y \in Nat
    OBVIOUS
  <2>1. y \in 0 .. N
    OBVIOUS
  <2> QED
    BY <2>1
<1>1. U \in SUBSET Nat /\ U # {}
  BY <1>0
<1> HIDE DEF U
<1>2. Min(U) \in U /\ \A u \in U : Min(U) <= u
  BY <1>1, LeastNumber
<1>3. PICK x \in T : Min(U) = N - x
  BY <1>2 DEF U
<1>4. \A y \in T : x >= y
  <2> SUFFICES ASSUME NEW y \in T PROVE x >= y
    OBVIOUS
  <2>1. N - y \in U
    BY DEF U
  <2>2. N - x <= N - y
    BY <1>2, <1>3, <2>1
  <2>3. x \in 0 .. N /\ y \in 0 .. N
    OBVIOUS
  <2> QED
    BY <2>2, <2>3
<1>5. \E m \in T : \A y \in T : m >= y
  BY <1>4
<1> QED
  BY <1>5 DEF Max

LEMMA LeastIs ==
    ASSUME NEW T \in SUBSET Nat, NEW m \in T, \A y \in T : m <= y
    PROVE  Min(T) = m
<1>1. Min(T) \in T /\ \A y \in T : Min(T) <= y
  BY LeastNumber
<1>2. Min(T) <= m /\ m <= Min(T)
  BY <1>1
<1>3. Min(T) \in Nat /\ m \in Nat
  BY <1>1
<1> QED
  BY <1>2, <1>3

----------------------------------------------------------------------------
(* Blanks                                                                  *)

Solid(s) == {k \in DOMAIN s : s[k] # " "}

LEMMA SolidEnds ==
    ASSUME NEW S, NEW s \in Seq(S), Solid(s) # {}
    PROVE  /\ Min(Solid(s)) \in Solid(s) /\ Max(Solid(s)) \in Solid(s)
           /\ \A k \in Solid(s) : Min(Solid(s)) <= k /\ k <= Max(Solid(s))
           /\ Min(Solid(s)) \in 1 .. Len(s) /\ Max(Solid(s)) \in 1 .. Len(s)
           /\ Min(Solid(s)) <= Max(Solid(s))
<1> DEFINE T == Solid(s)
<1>1. DOMAIN s = 1 .. Len(s) /\ Len(s) \in Nat
  BY LenProperties
<1>2. T \in SUBSET (1 .. Len(s))
  BY <1>1 DEF Solid
<1> HIDE DEF T
<1>3. T \in SUBSET Nat /\ T \in SUBSET (0 .. Len(s))
  BY <1>1, <1>2
<1>4. T # {}
  BY DEF T
<1>5. Min(T) \in T /\ \A y \in T : Min(T) <= y
  BY <1>3, <1>4, LeastNumber
<1>6. Max(T) \in T /\ \A y \in T : Max(T) >= y
  BY <1>1, <1>3, <1>4, GreatestNumber
<1>7. Min(T) \in 1 .. Len(s) /\ Max(T) \in 1 .. Len(s)
  BY <1>2, <1>5, <1>6
<1>8. \A k \in T : k <= Max(T)
  BY <1>2, <1>6, <1>7
<1>9. T = Solid(s)
  BY DEF T
<1> QED
  BY <1>5, <1>6, <1>7, <1>8, <1>9

\* strings.TrimSpace leaves nothing, or a text without blanks at its ends.
LEMMA TrimShape ==
    ASSUME NEW S, NEW s \in Seq(S)
    PROVE  /\ Trim(s) \in Seq(S)
           /\ Trim(s) # <<>> =>
                 /\ Len(Trim(s)) >= 1
                 /\ 1 \in Solid(Trim(s)) /\ Len(Trim(s)) \in Solid(Trim(s))
<1>1. CASE Solid(s) = {}
  <2>1. Trim(s) = <<>>
    BY <1>1 DEF Trim, Solid
  <2> QED
    BY <2>1, EmptySeq
<1>2. CASE Solid(s) # {}
  <2> DEFINE lo == Min(Solid(s))
             hi == Max(Solid(s))
             t == SubSeq(s, lo, hi)
  <2>1. /\ lo \in Solid(s) /\ hi \in Solid(s) /\ lo \in 1 .. Len(s) /\ hi \in 1 .. Len(s)
        /\ lo <= hi
    BY <1>2, SolidEnds
  <2>2. Trim(s) = t
    BY <1>2 DEF Trim, Solid
  <2>4. Len(s) \in Nat /\ \A i \in 1 .. Len(s) : s[i] \in S
    BY LenProperties, ElementOfSeq
  <2> HIDE DEF lo, hi
  <2>5. lo \in Int /\ hi \in Int /\ \A i \in lo .. hi : s[i] \in S
    BY <2>1, <2>4
  <2>6. /\ t \in Seq(S) /\ Len(t) = hi - lo + 1
        /\ \A i \in 1 .. hi - lo + 1 : t[i] = s[lo + i - 1]
    BY <2>1, <2>5, SubSeqProperties
  <2> HIDE DEF t
  <2>7. /\ 1 \in 1 .. hi - lo + 1 /\ hi - lo + 1 \in 1 .. hi - lo + 1
        /\ lo + 1 - 1 = lo /\ lo + (hi - lo + 1) - 1 = hi
    BY <2>1
  <2>8. t[1] = s[lo] /\ t[hi - lo + 1] = s[hi]
    BY <2>6, <2>7
  <2>9. DOMAIN t = 1 .. hi - lo + 1
    BY <2>6, LenProperties
  <2>10. 1 \in Solid(t) /\ hi - lo + 1 \in Solid(t)
    BY <2>1, <2>7, <2>8, <2>9 DEF Solid
  <2>11. hi - lo + 1 >= 1
    BY <2>7
  <2> QED
    BY <2>2, <2>6, <2>10, <2>11
<1> QED
  BY <1>1, <1>2

\* A blank in front makes no difference to it.
LEMMA TrimPastBlank ==
    ASSUME NEW S, NEW s \in Seq(S), s # <<>>, 1 \notin Solid(s)
    PROVE  Trim(s) = Trim(Tail(s))
<1> DEFINE t == Tail(s)
<1>1. /\ t \in Seq(S) /\ Len(t) = Len(s) - 1
      /\ \A k \in 1 .. Len(t) : t[k] = s[k + 1]
      /\ \A k \in 1 .. Len(s) : s[k] \in S
      /\ \A k \in 1 .. Len(t) : t[k] \in S
  BY HeadTailProperties, ElementOfSeq
<1>2. /\ Len(s) \in Nat /\ DOMAIN s = 1 .. Len(s) /\ DOMAIN t = 1 .. Len(t)
      /\ Len(t) \in Nat
  BY <1>1, LenProperties
<1>t. t = Tail(s)
  OBVIOUS
<1> HIDE DEF t
<1>3. \A k \in Solid(t) : k + 1 \in Solid(s)
  <2> SUFFICES ASSUME NEW k \in Solid(t) PROVE k + 1 \in Solid(s)
    OBVIOUS
  <2>1. k \in 1 .. Len(t)
    BY <1>2 DEF Solid
  <2>2. k + 1 \in 1 .. Len(s) /\ s[k + 1] = t[k]
    BY <1>1, <1>2, <2>1
  <2> QED
    BY <1>2, <2>2 DEF Solid
<1>4. \A k \in Solid(s) : k - 1 \in Solid(t)
  <2> SUFFICES ASSUME NEW k \in Solid(s) PROVE k - 1 \in Solid(t)
    OBVIOUS
  <2>1. k \in 1 .. Len(s)
    BY <1>2 DEF Solid
  <2>2. k # 1
    OBVIOUS
  <2>3. k - 1 \in 1 .. Len(t) /\ (k - 1) + 1 = k
    BY <1>1, <1>2, <2>1, <2>2
  <2>4. t[k - 1] = s[k]
    BY <1>1, <2>3
  <2> QED
    BY <1>2, <2>3, <2>4 DEF Solid
<1>5. CASE Solid(s) = {}
  <2>1. Solid(t) = {}
    BY <1>3, <1>5
  <2> QED
    BY <1>5, <2>1, <1>t DEF Trim, Solid
<1>6. CASE Solid(s) # {}
  <2>1. Solid(t) # {}
    BY <1>4, <1>6
  <2> DEFINE lo == Min(Solid(t))
             hi == Max(Solid(t))
             lo1 == Min(Solid(s))
             hi1 == Max(Solid(s))
  <2>2. /\ lo \in Solid(t) /\ hi \in Solid(t) /\ \A k \in Solid(t) : lo <= k /\ k <= hi
        /\ lo \in 1 .. Len(t) /\ hi \in 1 .. Len(t) /\ lo <= hi
    BY <1>1, <2>1, SolidEnds
  <2>3. /\ lo1 \in Solid(s) /\ hi1 \in Solid(s)
        /\ \A k \in Solid(s) : lo1 <= k /\ k <= hi1
        /\ lo1 \in 1 .. Len(s) /\ hi1 \in 1 .. Len(s)
    BY <1>6, SolidEnds
  <2>4. Trim(t) = SubSeq(t, lo, hi) /\ Trim(s) = SubSeq(s, lo1, hi1)
    BY <1>6, <2>1 DEF Trim, Solid
  <2> HIDE DEF lo, hi, lo1, hi1
  <2>5. /\ lo + 1 \in Solid(s) /\ hi + 1 \in Solid(s)
        /\ lo1 - 1 \in Solid(t) /\ hi1 - 1 \in Solid(t)
    BY <1>3, <1>4, <2>2, <2>3
  <2>6. lo1 <= lo + 1 /\ hi + 1 <= hi1 /\ lo <= lo1 - 1 /\ hi1 - 1 <= hi
    BY <2>2, <2>3, <2>5
  <2>7. lo \in Int /\ hi \in Int /\ lo1 \in Int /\ hi1 \in Int
    BY <1>2, <2>2, <2>3
  <2>8. lo1 = lo + 1 /\ hi1 = hi + 1
    BY <2>6, <2>7
  <2> DEFINE a == SubSeq(t, lo, hi)
             b == SubSeq(s, lo1, hi1)
  <2>9. /\ a \in Seq(S) /\ Len(a) = hi - lo + 1
        /\ \A j \in 1 .. hi - lo + 1 : a[j] = t[lo + j - 1]
    <3>1. \A i \in lo .. hi : t[i] \in S
      BY <1>1, <1>2, <2>2
    <3> QED
      BY <2>2, <2>7, <3>1, SubSeqProperties
  <2>10. /\ b \in Seq(S) /\ Len(b) = hi1 - lo1 + 1
         /\ \A j \in 1 .. hi1 - lo1 + 1 : b[j] = s[lo1 + j - 1]
    <3>1. \A i \in lo1 .. hi1 : s[i] \in S
      BY <1>1, <1>2, <2>3
    <3>2. lo1 <= hi1
      BY <2>2, <2>7, <2>8
    <3> QED
      BY <2>7, <3>1, <3>2, SubSeqProperties
  <2> HIDE DEF a, b
  <2>11. hi1 - lo1 + 1 = hi - lo + 1
    BY <2>7, <2>8
  <2>12. \A j \in 1 .. hi - lo + 1 : a[j] = b[j]
    <3> SUFFICES ASSUME NEW j \in 1 .. hi - lo + 1 PROVE a[j] = b[j]
      OBVIOUS
    <3>1. lo + j - 1 \in 1 .. Len(t) /\ (lo + j - 1) + 1 = lo1 + j - 1
      BY <1>2, <2>2, <2>7, <2>8
    <3>2. t[lo + j - 1] = s[lo1 + j - 1]
      BY <1>1, <3>1
    <3>3. a[j] = t[lo + j - 1]
      BY <2>9
    <3>4. b[j] = s[lo1 + j - 1]
      BY <2>10, <2>11
    <3> QED
      BY <3>2, <3>3, <3>4
  <2>13. a = b
    BY <2>9, <2>10, <2>11, <2>12, SeqEqual
  <2> QED
    BY <1>t, <2>4, <2>13 DEF a, b
<1> QED
  BY <1>5, <1>6

----------------------------------------------------------------------------
(* Credentials                                                             *)

LEMMA PairOf ==
    ASSUME NEW S, NEW x \in S, NEW y \in S
    PROVE  <<x, y>> \in Seq(S)
OBVIOUS

LEMMA BearerPrefix ==
    ASSUME NEW v \in Seq(STRING)
    PROVE  IsPrefix(<<"Bearer", " ">>, v) <=> Len(v) >= 2 /\ v[1] = "Bearer" /\ v[2] = " "
<1> DEFINE p == <<"Bearer", " ">>
           a == SubSeq(p, 1, 2)
           b == SubSeq(v, 1, 2)
           S == STRING \cup {"Bearer", " "}
<1>1. p \in Seq(S) /\ Len(p) = 2 /\ p[1] = "Bearer" /\ p[2] = " "
  <2>1. "Bearer" \in S /\ " " \in S
    OBVIOUS
  <2>2. p \in Seq(S)
    <3> HIDE DEF S
    <3> QED
      BY <2>1, PairOf
  <2>3. Len(p) = 2
    OBVIOUS
  <2>4. p[1] = "Bearer"
    OBVIOUS
  <2>5. p[2] = " "
    OBVIOUS
  <2> QED
    BY <2>2, <2>3, <2>4, <2>5
<1>2. Len(v) \in Nat /\ \A i \in 1 .. Len(v) : v[i] \in S
  BY LenProperties, ElementOfSeq
<1> HIDE DEF S
<1>3. a = p
  BY <1>1, SubSeqFull
<1>4. CASE Len(v) >= 2
  <2>1. \A i \in 1 .. 2 : v[i] \in S
    BY <1>2, <1>4
  <2>2. b \in Seq(S) /\ Len(b) = 2 /\ \A i \in 1 .. 2 : b[i] = v[1 + i - 1]
    BY <2>1, SubSeqProperties
  <2> HIDE DEF b
  <2>3. b[1] = v[1] /\ b[2] = v[2]
    BY <2>2
  <2>4. b = p => v[1] = "Bearer" /\ v[2] = " "
    BY <1>1, <2>3
  <2>5. v[1] = "Bearer" /\ v[2] = " " => \A i \in 1 .. 2 : b[i] = p[i]
    <3> HIDE DEF p
    <3>1. \A i \in 1 .. 2 : i = 1 \/ i = 2
      OBVIOUS
    <3> QED
      BY <1>1, <2>3, <3>1
  <2>6. (\A i \in 1 .. 2 : b[i] = p[i]) => b = p
    <3> HIDE DEF p
    <3> QED
      BY <1>1, <2>2, SeqEqual
  <2>7. IsPrefix(p, v) <=> b = p
    BY <1>1, <1>3, <1>4 DEF IsPrefix, b
  <2> QED
    BY <1>4, <2>4, <2>5, <2>6, <2>7
<1>5. CASE ~(Len(v) >= 2)
  <2>1. ~IsPrefix(p, v)
    BY <1>1, <1>2, <1>5 DEF IsPrefix
  <2> QED
    BY <1>5, <2>1
<1> QED
  BY <1>4, <1>5

LEMMA BehindTwo ==
    ASSUME NEW S, NEW v \in Seq(S), Len(v) >= 3
    PROVE  /\ Tail(Tail(v)) = From(v, 3) /\ From(v, 3) \in Seq(S)
           /\ Len(From(v, 3)) = Len(v) - 2
           /\ Tail(v) # <<>> /\ Tail(v) \in Seq(S) /\ Tail(v)[1] = v[2]
           /\ From(v, 3)[Len(v) - 2] = v[Len(v)]
<1> DEFINE t == Tail(v)
           u == Tail(t)
           w == SubSeq(v, 3, Len(v))
<1>1. Len(v) \in Nat /\ \A i \in 1 .. Len(v) : v[i] \in S
  BY LenProperties, ElementOfSeq
<1>2. v # <<>>
  BY <1>1
<1>3. /\ t \in Seq(S) /\ Len(t) = Len(v) - 1 /\ \A i \in 1 .. Len(t) : t[i] = v[i + 1]
  BY <1>2, HeadTailProperties
<1>4. t # <<>>
  <2>1. Len(t) # 0
    BY <1>1, <1>3
  <2>2. Len(<<>>) = 0
    OBVIOUS
  <2> HIDE DEF t
  <2> QED
    BY <2>1, <2>2
<1>5. /\ u \in Seq(S) /\ Len(u) = Len(t) - 1 /\ \A i \in 1 .. Len(u) : u[i] = t[i + 1]
  BY <1>3, <1>4, HeadTailProperties
<1>6. /\ w \in Seq(S) /\ Len(w) = Len(v) - 2
      /\ \A i \in 1 .. Len(v) - 2 : w[i] = v[3 + i - 1]
  <2>1. \A i \in 3 .. Len(v) : v[i] \in S
    BY <1>1
  <2>2. /\ w \in Seq(S) /\ Len(w) = Len(v) - 3 + 1
        /\ \A i \in 1 .. Len(v) - 3 + 1 : w[i] = v[3 + i - 1]
    BY <1>1, <2>1, SubSeqProperties
  <2>3. Len(v) - 3 + 1 = Len(v) - 2
    BY <1>1
  <2> QED
    BY <2>2, <2>3
<1> HIDE DEF t, u, w
<1>7. \A i \in 1 .. Len(u) : u[i] = w[i]
  <2> SUFFICES ASSUME NEW i \in 1 .. Len(u) PROVE u[i] = w[i]
    OBVIOUS
  <2>1. /\ i + 1 \in 1 .. Len(t) /\ i \in 1 .. Len(v) - 2 /\ (i + 1) + 1 = 3 + i - 1
    BY <1>1, <1>3, <1>5
  <2>2. t[i + 1] = v[(i + 1) + 1]
    BY <1>3, <2>1
  <2>3. w[i] = v[3 + i - 1]
    BY <1>6, <2>1
  <2> QED
    BY <1>5, <2>1, <2>2, <2>3
<1>8. Len(u) = Len(w)
  BY <1>1, <1>3, <1>5, <1>6
<1>9. u = w
  BY <1>5, <1>6, <1>7, <1>8, SeqEqual
<1>10. w[Len(v) - 2] = v[Len(v)]
  <2>1. Len(v) - 2 \in 1 .. Len(v) - 2 /\ 3 + (Len(v) - 2) - 1 = Len(v)
    BY <1>1
  <2> QED
    BY <1>6, <2>1
<1>11. t[1] = v[2]
  <2>1. 1 \in 1 .. Len(t) /\ 1 + 1 = 2
    BY <1>1, <1>3
  <2> QED
    BY <1>3, <2>1
<1> QED
  BY <1>3, <1>4, <1>6, <1>9, <1>10, <1>11 DEF From, t, u, w

\* credential.go:41-49: a field offers a key if it has more than the scheme, and
\* the key is what stands behind it.
LEMMA OfferedKey ==
    ASSUME NEW h, NEW f, Get(h, f) \in Seq(STRING)
    PROVE  LET v == Trim(Get(h, f))
           IN  /\ (KeyIn(h, f) # <<>>) <=> (v \notin {<<>>, <<"Bearer">>})
               /\ v \notin {<<>>, <<"Bearer">>} =>
                     KeyIn(h, f) = IF IsPrefix(<<"Bearer", " ">>, v) THEN Trim(From(v, 3))
                                   ELSE v
<1> DEFINE v == Trim(Get(h, f))
<1>1. /\ v \in Seq(STRING)
      /\ v # <<>> => Len(v) >= 1 /\ 1 \in Solid(v) /\ Len(v) \in Solid(v)
  BY TrimShape
<1>2. KeyIn(h, f) = IF v = <<>> THEN <<>>
                    ELSE IF BearerKey(v) # {} THEN CHOOSE k \in BearerKey(v) : TRUE
                    ELSE v
  BY DEF KeyIn
<1> HIDE DEF v
<1>3. IsPrefix(<<"Bearer", " ">>, v) <=> Len(v) >= 2 /\ v[1] = "Bearer" /\ v[2] = " "
  BY <1>1, BearerPrefix
<1>4. Len(v) \in Nat /\ DOMAIN v = 1 .. Len(v)
  BY <1>1, LenProperties
<1>s. Len(<<"Bearer">>) = 1 /\ <<"Bearer">>[1] = "Bearer"
  OBVIOUS
<1>5. CASE v = <<>>
  BY <1>2, <1>5 DEF v
<1>6. CASE v # <<>> /\ v[1] = "Bearer" /\ Len(v) = 1
  <2>1. v = <<"Bearer">>
    BY <1>1, <1>6
  <2>2. Tail(v) = <<>>
    BY <2>1
  <2>3. Trim(<<>>) = <<>>
    BY DEF Trim
  <2>4. BearerKey(v) = {<<>>}
    BY <1>6, <2>2, <2>3 DEF BearerKey
  <2>5. KeyIn(h, f) = <<>>
    BY <1>2, <1>6, <2>4
  <2> QED
    BY <2>1, <2>5 DEF v
<1>7. CASE v # <<>> /\ v[1] = "Bearer" /\ Len(v) # 1 /\ v[2] = " "
  <2>1. Len(v) # 2
    BY <1>1, <1>7 DEF Solid
  <2>2. Len(v) >= 3
    <3>1. Len(v) >= 1
      BY <1>1, <1>7
    <3>2. Len(v) # 1
      BY <1>7
    <3> QED
      BY <1>4, <2>1, <3>1, <3>2
  <2> DEFINE t == Tail(v)
             u == From(v, 3)
  <2>3. /\ Tail(t) = u /\ u \in Seq(STRING) /\ Len(u) = Len(v) - 2
        /\ t # <<>> /\ t \in Seq(STRING) /\ t[1] = v[2] /\ u[Len(v) - 2] = v[Len(v)]
    BY <1>1, <2>2, BehindTwo
  <2>t. t = Tail(v) /\ u = From(v, 3)
    OBVIOUS
  <2> HIDE DEF t, u
  <2>4. 1 \notin Solid(t)
    BY <1>7, <2>3 DEF Solid
  <2>5. Trim(t) = Trim(u)
    BY <2>3, <2>4, TrimPastBlank
  <2>6. Len(v) - 2 \in Solid(u)
    <3>1. DOMAIN u = 1 .. Len(u)
      BY <2>3, LenProperties
    <3>2. Len(v) - 2 \in 1 .. Len(v) - 2
      BY <1>4, <2>2
    <3>3. v[Len(v)] # " "
      BY <1>1, <1>7 DEF Solid
    <3>4. Len(v) - 2 \in DOMAIN u
      BY <2>3, <3>1, <3>2
    <3> QED
      BY <2>3, <3>3, <3>4 DEF Solid
  <2>7. Trim(u) # <<>>
    <3>1. Solid(u) # {}
      BY <2>6
    <3>2. /\ Min(Solid(u)) \in 1 .. Len(u) /\ Max(Solid(u)) \in 1 .. Len(u)
          /\ Min(Solid(u)) <= Max(Solid(u))
      BY <2>3, <3>1, SolidEnds
    <3>3. Trim(u) = SubSeq(u, Min(Solid(u)), Max(Solid(u)))
      BY <3>1 DEF Trim, Solid
    <3> DEFINE lo == Min(Solid(u))
               hi == Max(Solid(u))
    <3> HIDE DEF lo, hi
    <3>4. lo \in Int /\ hi \in Int /\ lo <= hi /\ \A i \in lo .. hi : u[i] \in STRING
      <4>1. Len(u) \in Nat /\ \A i \in 1 .. Len(u) : u[i] \in STRING
        BY <2>3, LenProperties, ElementOfSeq
      <4>2. lo \in 1 .. Len(u) /\ hi \in 1 .. Len(u) /\ lo <= hi
        BY <3>2 DEF lo, hi
      <4> QED
        BY <4>1, <4>2
    <3>5. Len(SubSeq(u, lo, hi)) = hi - lo + 1
      BY <3>4, SubSeqProperties
    <3>6. Len(SubSeq(u, lo, hi)) # 0
      BY <3>4, <3>5
    <3>7. SubSeq(u, lo, hi) # <<>>
      <4>1. Len(<<>>) = 0
        OBVIOUS
      <4> QED
        BY <3>6, <4>1
    <3> QED
      BY <3>3, <3>7 DEF lo, hi
  <2>8. BearerKey(v) = {Trim(u)}
    BY <1>7, <2>5, <2>t DEF BearerKey
  <2>9. KeyIn(h, f) = Trim(u)
    BY <1>2, <1>7, <2>8
  <2>10. v # <<"Bearer">>
    BY <1>7, <1>s
  <2>11. IsPrefix(<<"Bearer", " ">>, v)
    <3>1. Len(v) >= 2
      BY <1>4, <2>2
    <3> QED
      BY <1>3, <1>7, <3>1
  <2> QED
    BY <1>7, <2>7, <2>9, <2>10, <2>11, <2>t DEF v
<1>8. CASE v # <<>> /\ ~(v[1] = "Bearer" /\ (Len(v) = 1 \/ v[2] = " "))
  <2>1. BearerKey(v) = {}
    BY <1>8 DEF BearerKey
  <2>2. KeyIn(h, f) = v
    BY <1>2, <1>8, <2>1
  <2>3. ~IsPrefix(<<"Bearer", " ">>, v)
    BY <1>3, <1>8
  <2>4. v # <<"Bearer">>
    BY <1>8, <1>s
  <2> QED
    BY <1>8, <2>2, <2>3, <2>4 DEF v
<1> QED
  BY <1>5, <1>6, <1>7, <1>8

\* The key a request names: that of the first of the fields that offers one.
KeyNamed(h, c) ==
    LET Usable(f) == Trim(Get(h, f)) \notin {<<>>, <<"Bearer">>}
        Offered(f) == LET v == Trim(Get(h, f))
                      IN  IF IsPrefix(<<"Bearer", " ">>, v) THEN Trim(From(v, 3)) ELSE v
    IN  IF Usable("Authorization") THEN Offered("Authorization")
        ELSE IF Usable("X-Api-Key") THEN Offered("X-Api-Key")
        ELSE IF Usable("Api-Key") THEN Offered("Api-Key")
        ELSE c.key

CredentialFields == {"Authorization", "X-Api-Key", "Api-Key"}

LEMMA TheCredentials ==
    /\ DOMAIN Credentials = 1 .. 3 /\ ToSet(Credentials) = CredentialFields
    /\ Credentials[1] = "Authorization" /\ Credentials[2] = "X-Api-Key"
    /\ Credentials[3] = "Api-Key"
<1>1. DOMAIN Credentials = 1 .. 3
  BY DEF Credentials
<1>2. Credentials[1] = "Authorization"
  BY DEF Credentials
<1>3. Credentials[2] = "X-Api-Key"
  BY DEF Credentials
<1>4. Credentials[3] = "Api-Key"
  BY DEF Credentials
<1>5. 1 .. 3 = {1, 2, 3}
  OBVIOUS
<1>6. ToSet(Credentials) = {Credentials[1], Credentials[2], Credentials[3]}
  <2>1. ToSet(Credentials) = {Credentials[i] : i \in {1, 2, 3}}
    BY <1>1, <1>5 DEF ToSet
  <2> QED
    BY <2>1
<1> QED
  BY <1>1, <1>2, <1>3, <1>4, <1>6 DEF CredentialFields

LEMMA CredentialIsNamed ==
    ASSUME NEW h, NEW c, \A f \in CredentialFields : Get(h, f) \in Seq(STRING)
    PROVE  Credential(h, c) = KeyNamed(h, c)
<1> DEFINE Usable(f) == Trim(Get(h, f)) \notin {<<>>, <<"Bearer">>}
           Offered(f) == LET v == Trim(Get(h, f))
                         IN  IF IsPrefix(<<"Bearer", " ">>, v) THEN Trim(From(v, 3)) ELSE v
           offers == {j \in DOMAIN Credentials : KeyIn(h, Credentials[j]) # <<>>}
<1>1. \A f \in CredentialFields :
          /\ (KeyIn(h, f) # <<>>) <=> Usable(f)
          /\ Usable(f) => KeyIn(h, f) = Offered(f)
  <2> SUFFICES ASSUME NEW f \in CredentialFields
               PROVE  /\ (KeyIn(h, f) # <<>>) <=> Usable(f)
                      /\ Usable(f) => KeyIn(h, f) = Offered(f)
    OBVIOUS
  <2>1. Get(h, f) \in Seq(STRING)
    OBVIOUS
  <2> QED
    BY <2>1, OfferedKey
<1>2. KeyNamed(h, c) = IF Usable("Authorization") THEN Offered("Authorization")
                       ELSE IF Usable("X-Api-Key") THEN Offered("X-Api-Key")
                       ELSE IF Usable("Api-Key") THEN Offered("Api-Key")
                       ELSE c.key
  BY DEF KeyNamed
<1>3. Credential(h, c) = IF offers = {} THEN c.key ELSE KeyIn(h, Credentials[Min(offers)])
  BY DEF Credential
<1>4. offers \in SUBSET Nat /\ \A j \in offers : j \in 1 .. 3
  BY TheCredentials
<1>5. /\ 1 \in offers <=> Usable("Authorization")
      /\ 2 \in offers <=> Usable("X-Api-Key")
      /\ 3 \in offers <=> Usable("Api-Key")
  <2>1. /\ "Authorization" \in CredentialFields /\ "X-Api-Key" \in CredentialFields
        /\ "Api-Key" \in CredentialFields
    BY DEF CredentialFields
  <2> HIDE DEF Usable, Offered
  <2>2. 1 \in 1 .. 3 /\ 2 \in 1 .. 3 /\ 3 \in 1 .. 3
    OBVIOUS
  <2> QED
    BY <1>1, <2>1, <2>2, TheCredentials
<1> HIDE DEF Usable, Offered, offers
<1>6. CASE 1 \in offers
  <2>1. \A j \in offers : 1 <= j
    BY <1>4
  <2>2. Min(offers) = 1
    BY <1>4, <1>6, <2>1, LeastIs
  <2>3. Credential(h, c) = KeyIn(h, "Authorization")
    BY <1>3, <1>6, <2>2, TheCredentials
  <2> QED
    BY <1>1, <1>2, <1>5, <1>6, <2>3 DEF CredentialFields
<1>7. CASE 1 \notin offers /\ 2 \in offers
  <2>1. \A j \in offers : 2 <= j
    <3> SUFFICES ASSUME NEW j \in offers PROVE 2 <= j
      OBVIOUS
    <3>1. j \in 1 .. 3 /\ j # 1
      BY <1>4, <1>7
    <3> QED
      BY <3>1
  <2>2. Min(offers) = 2
    BY <1>4, <1>7, <2>1, LeastIs
  <2>3. Credential(h, c) = KeyIn(h, "X-Api-Key")
    BY <1>3, <1>7, <2>2, TheCredentials
  <2> QED
    BY <1>1, <1>2, <1>5, <1>7, <2>3 DEF CredentialFields
<1>8. CASE 1 \notin offers /\ 2 \notin offers /\ 3 \in offers
  <2>1. \A j \in offers : 3 <= j
    <3> SUFFICES ASSUME NEW j \in offers PROVE 3 <= j
      OBVIOUS
    <3>1. j \in 1 .. 3 /\ j # 1 /\ j # 2
      BY <1>4, <1>8
    <3> QED
      BY <3>1
  <2>2. Min(offers) = 3
    BY <1>4, <1>8, <2>1, LeastIs
  <2>3. Credential(h, c) = KeyIn(h, "Api-Key")
    BY <1>3, <1>8, <2>2, TheCredentials
  <2> QED
    BY <1>1, <1>2, <1>5, <1>8, <2>3 DEF CredentialFields
<1>9. CASE 1 \notin offers /\ 2 \notin offers /\ 3 \notin offers
  <2>1. offers = {}
    <3> SUFFICES ASSUME NEW j \in offers PROVE FALSE
      OBVIOUS
    <3>1. j \in 1 .. 3 /\ j # 1 /\ j # 2 /\ j # 3
      BY <1>4, <1>9
    <3> QED
      BY <3>1
  <2> QED
    BY <1>2, <1>3, <1>5, <1>9, <2>1
<1> QED
  BY <1>6, <1>7, <1>8, <1>9

----------------------------------------------------------------------------
(* The request                                                             *)

LEMMA TheSpec ==
    ASSUME NEW p
    PROVE  LET spec == Specs[Protocol(p)]
           IN  /\ spec.auth \in CredentialFields
               /\ DOMAIN spec.required \subseteq {"Anthropic-Version"}
               /\ \A f \in DOMAIN spec.required : spec.required[f] # <<>>
<1>1. Protocol(p) \in {"openai", "responses", "other", "anthropic"}
  BY DEF Protocol
<1>2. CASE Protocol(p) \in {"openai", "responses", "other"}
  <2>1. Specs[Protocol(p)] = Bearer
    BY <1>2 DEF Specs
  <2>2. Bearer.auth = "Authorization" /\ Bearer.required = [f \in {} |-> <<>>]
    BY DEF Bearer
  <2>3. DOMAIN Bearer.required = {}
    BY <2>2
  <2> QED
    BY <2>1, <2>2, <2>3 DEF CredentialFields
<1>3. CASE Protocol(p) = "anthropic"
  <2>1. Specs[Protocol(p)] = [auth |-> "X-Api-Key", scheme |-> <<>>,
            required |-> [f \in {"Anthropic-Version"} |-> <<"2023-06-01">>]]
    BY <1>3 DEF Specs
  <2>2. <<"2023-06-01">> # <<>>
    OBVIOUS
  <2> QED
    BY <2>1, <2>2 DEF CredentialFields
<1> QED
  BY <1>1, <1>2, <1>3

\* What CredentialCrossesOnce says, of any request.
CarriesOne(h, p, q, c) ==
    LET spec == Specs[Protocol(p)]
        key == KeyNamed(h, c)
        carriers == DOMAIN q.fields \cap (ToSet(Credentials) \cup Internal \cup Hop)
        plain == DOMAIN h \ (ToSet(Credentials) \cup Internal \cup Hop
                             \cup {"Host", "Accept-Encoding"})
    IN  /\ carriers = IF key = <<>> THEN {} ELSE {spec.auth}
        /\ key # <<>> => q.fields[spec.auth] = <<spec.scheme \o key>>
        /\ \A f \in plain : Get(h, f) # <<>> => q.fields[f] = h[f]
        /\ \A f \in DOMAIN spec.required : Get(q.fields, f) # <<>>

\* gateway.go:589-601, 776-786.
LEMMA RequestCarriesOne ==
    ASSUME NEW c, NEW length, \A f \in CredentialFields : Get(client, f) \in Seq(STRING)
    PROVE  CarriesOne(client, path, BuildRequest(c, length), c)
<1> DEFINE h == client
           spec == Specs[Protocol(path)]
           key == KeyNamed(h, c)
           drop == Hop \cup CredentialFields \cup Internal \cup {"Host", "Accept-Encoding"}
           kept == DOMAIN h \ drop
           copied == CopyRequestHeaders(h)
           value == spec.scheme \o key
           keyed == IF key = <<>> THEN copied ELSE Set(copied, spec.auth, value)
           missing == {f \in DOMAIN spec.required : Get(keyed, f) = <<>>}
           fields == [f \in missing \cup DOMAIN keyed |->
                        IF f \in missing THEN <<spec.required[f]>> ELSE keyed[f]]
<1>1. /\ spec.auth \in CredentialFields /\ DOMAIN spec.required \subseteq {"Anthropic-Version"}
      /\ \A f \in DOMAIN spec.required : spec.required[f] # <<>>
  BY TheSpec
<1>2. BuildRequest(c, length).fields = fields
  <2>1. Credential(client, c) = key
    BY CredentialIsNamed
  <2>2. AuthValue(spec, key) = IF key = <<>> THEN {} ELSE {value}
    BY DEF AuthValue
  <2> DEFINE auth == AuthValue(spec, Credential(client, c))
             keyed2 == IF auth = {} THEN copied
                       ELSE Set(copied, spec.auth, CHOOSE v \in auth : TRUE)
  <2>4. auth = IF key = <<>> THEN {} ELSE {value}
    BY <2>1, <2>2
  <2>5. keyed2 = keyed
    <3> HIDE DEF auth, copied, spec, key, value
    <3>1. CASE key = <<>>
      BY <2>4, <3>1
    <3>2. CASE key # <<>>
      <4>1. auth = {value}
        BY <2>4, <3>2
      <4>2. auth # {} /\ (CHOOSE v \in auth : TRUE) = value
        BY <4>1
      <4> DEFINE chosen == CHOOSE v \in auth : TRUE
      <4>3. chosen = value
        BY <4>2
      <4>4. keyed2 = IF auth = {} THEN copied ELSE Set(copied, spec.auth, chosen)
        OBVIOUS
      <4>5. keyed = Set(copied, spec.auth, value)
        BY <3>2
      <4> HIDE DEF chosen, keyed2, keyed
      <4> QED
        BY <4>2, <4>3, <4>4, <4>5
    <3> QED
      BY <3>1, <3>2
  <2>6. BuildRequest(c, length).fields =
          [f \in {x \in DOMAIN spec.required : Get(keyed2, x) = <<>>} \cup DOMAIN keyed2 |->
              IF f \in {x \in DOMAIN spec.required : Get(keyed2, x) = <<>>}
              THEN <<spec.required[f]>> ELSE keyed2[f]]
    BY DEF BuildRequest
  <2> HIDE DEF keyed2, keyed
  <2> QED
    BY <2>5, <2>6
<1>3. /\ DOMAIN copied = kept \cup {"Accept-Encoding"}
      /\ \A f \in kept : copied[f] = h[f]
  <2>1. "Accept-Encoding" \in drop
    OBVIOUS
  <2>2. copied = [f \in kept \cup {"Accept-Encoding"} |->
                    IF f = "Accept-Encoding" THEN <<<<"identity">>>> ELSE h[f]]
    BY TheCredentials DEF CopyRequestHeaders, Set, Restrict
  <2> HIDE DEF copied, drop
  <2> QED
    BY <2>1, <2>2
<1> HIDE DEF copied, spec, key, value
<1>4. /\ DOMAIN keyed = kept \cup {"Accept-Encoding"}
                        \cup (IF key = <<>> THEN {} ELSE {spec.auth})
      /\ \A f \in kept : keyed[f] = h[f]
      /\ key # <<>> => keyed[spec.auth] = <<value>>
  <2>1. spec.auth \notin kept
    BY <1>1
  <2> HIDE DEF drop, kept
  <2>2. CASE key = <<>>
    BY <1>3, <2>2
  <2>3. CASE key # <<>>
    <3>1. keyed = [f \in DOMAIN copied \cup {spec.auth} |->
                      IF f = spec.auth THEN <<value>> ELSE copied[f]]
      BY <2>3 DEF Set
    <3> HIDE DEF keyed
    <3> QED
      BY <1>3, <2>1, <2>3, <3>1
  <2> QED
    BY <2>2, <2>3
<1>5. missing \subseteq {"Anthropic-Version"} /\ missing \subseteq DOMAIN spec.required
  BY <1>1
<1>6. /\ DOMAIN fields = missing \cup DOMAIN keyed
      /\ \A f \in missing : fields[f] = <<spec.required[f]>>
      /\ \A f \in DOMAIN keyed \ missing : fields[f] = keyed[f]
  <2> HIDE DEF missing, keyed
  <2> QED
    OBVIOUS
<1>7. \A f \in DOMAIN spec.required : f \in missing \/ Get(keyed, f) # <<>>
  OBVIOUS
<1>8. \A f \in missing : Get(keyed, f) = <<>>
  OBVIOUS
<1> HIDE DEF missing, keyed, fields
<1> DEFINE q == BuildRequest(c, length)
           special == CredentialFields \cup Internal \cup Hop
<1>q. q.fields = fields
  BY <1>2
<1> HIDE DEF q
<1>9. DOMAIN fields \cap special = IF key = <<>> THEN {} ELSE {spec.auth}
  <2>1. "Anthropic-Version" \notin special /\ "Accept-Encoding" \notin special
    BY DEF CredentialFields, Internal, Hop
  <2>2. special \subseteq drop
    OBVIOUS
  <2>3. spec.auth \in special
    BY <1>1
  <2>4. kept \cap special = {}
    BY <2>2
  <2> HIDE DEF special, kept, drop
  <2> QED
    BY <1>4, <1>5, <1>6, <2>1, <2>3, <2>4
<1>10. key # <<>> => fields[spec.auth] = <<value>>
  <2>1. spec.auth \notin missing
    BY <1>1, <1>5 DEF CredentialFields
  <2> HIDE DEF kept, drop
  <2> QED
    BY <1>4, <1>6, <2>1
<1>11. \A f \in kept : Get(h, f) # <<>> => fields[f] = h[f]
  <2> SUFFICES ASSUME NEW f \in kept, Get(h, f) # <<>> PROVE fields[f] = h[f]
    OBVIOUS
  <2>1. f \in DOMAIN keyed /\ keyed[f] = h[f] /\ f \in DOMAIN h
    BY <1>4
  <2>2. Get(keyed, f) = Get(h, f)
    BY <2>1 DEF Get
  <2>3. f \notin missing
    BY <1>8, <2>2
  <2> QED
    BY <1>6, <2>1, <2>3
<1>12. \A f \in DOMAIN spec.required : Get(fields, f) # <<>>
  <2> SUFFICES ASSUME NEW f \in DOMAIN spec.required PROVE Get(fields, f) # <<>>
    OBVIOUS
  <2>1. CASE f \in missing
    <3>1. Get(fields, f) = Head(<<spec.required[f]>>)
      BY <1>6, <2>1 DEF Get
    <3>2. Head(<<spec.required[f]>>) = spec.required[f]
      OBVIOUS
    <3> QED
      BY <1>1, <3>1, <3>2
  <2>2. CASE f \notin missing
    <3>1. Get(keyed, f) # <<>>
      BY <1>7, <2>2
    <3>2. f \in DOMAIN keyed
      BY <3>1 DEF Get
    <3>3. Get(fields, f) = Get(keyed, f)
      BY <1>6, <2>2, <3>2 DEF Get
    <3> QED
      BY <3>1, <3>3
  <2> QED
    BY <2>1, <2>2
<1>13. ToSet(Credentials) = CredentialFields
  BY TheCredentials
<1>14. CarriesOne(h, path, q, c)
  <2>1. DOMAIN q.fields \cap (ToSet(Credentials) \cup Internal \cup Hop)
          = IF KeyNamed(h, c) = <<>> THEN {} ELSE {Specs[Protocol(path)].auth}
    BY <1>q, <1>9, <1>13 DEF key, spec
  <2>2. KeyNamed(h, c) # <<>> =>
          q.fields[Specs[Protocol(path)].auth]
            = <<Specs[Protocol(path)].scheme \o KeyNamed(h, c)>>
    BY <1>q, <1>10 DEF key, spec, value
  <2>3. \A f \in DOMAIN h \ (ToSet(Credentials) \cup Internal \cup Hop
                             \cup {"Host", "Accept-Encoding"}) :
            Get(h, f) # <<>> => q.fields[f] = h[f]
    BY <1>q, <1>11, <1>13
  <2>4. \A f \in DOMAIN Specs[Protocol(path)].required : Get(q.fields, f) # <<>>
    BY <1>q, <1>12 DEF spec
  <2> QED
    BY <2>1, <2>2, <2>3, <2>4 DEF CarriesOne
<1> QED
  BY <1>14 DEF q

----------------------------------------------------------------------------
(* .env                                                                    *)

\* What line j of a file makes of a variable, as a set of at most one.
TextsOf(f, j, key) == UNION {{a.val} : a \in {x \in ParseLine(f[j]) : x.key = <<key>>}}

Sets(f, j, key) == TextsOf(f, j, key) \notin {{}, {<<>>}}

LEMMA OneAssignment ==
    ASSUME NEW l
    PROVE  ParseLine(l) = {} \/ \E r : ParseLine(l) = {r}
BY DEF ParseLine

LEMMA LineTexts ==
    ASSUME NEW f, NEW j, NEW key
    PROVE  /\ (\E a \in ParseLine(f[j]) : a.key = <<key>>) =>
                 TextsOf(f, j, key) = {(CHOOSE a \in ParseLine(f[j]) : TRUE).val}
           /\ ~(\E a \in ParseLine(f[j]) : a.key = <<key>>) => TextsOf(f, j, key) = {}
<1> DEFINE L == ParseLine(f[j])
<1>1. L = {} \/ \E r : L = {r}
  BY OneAssignment
<1>2. TextsOf(f, j, key) = UNION {{a.val} : a \in {x \in L : x.key = <<key>>}}
  BY DEF TextsOf
<1> HIDE DEF L
<1>3. CASE \E a \in L : a.key = <<key>>
  <2>1. PICK r : L = {r}
    BY <1>1, <1>3
  <2>2. r.key = <<key>>
    BY <1>3, <2>1
  <2>3. {x \in L : x.key = <<key>>} = {r}
    BY <2>1, <2>2
  <2>4. TextsOf(f, j, key) = {r.val}
    BY <1>2, <2>3
  <2>5. (CHOOSE a \in L : TRUE) = r
    BY <2>1
  <2> QED
    BY <1>3, <2>4, <2>5 DEF L
<1>4. CASE ~(\E a \in L : a.key = <<key>>)
  <2>1. {x \in L : x.key = <<key>>} = {}
    BY <1>4
  <2>2. TextsOf(f, j, key) = {}
    BY <1>2, <2>1
  <2> QED
    BY <1>4, <2>2 DEF L
<1> QED
  BY <1>3, <1>4

\* The variable key after the first m lines of f on top of the environment e.
TextAfter(f, e, m, key, text) ==
    /\ e[key] # <<>> => text = e[key]
    /\ e[key] = <<>> /\ (\A j \in 1 .. m : ~Sets(f, j, key)) => text = <<>>
    /\ \A j \in 1 .. m :
          e[key] = <<>> /\ Sets(f, j, key) /\ (\A i \in 1 .. j - 1 : ~Sets(f, i, key))
          => TextsOf(f, j, key) = {text}

LEMMA OneLineMore ==
    ASSUME NEW f, NEW e, NEW m \in Nat, NEW key, NEW text, NEW after,
           TextAfter(f, e, m, key, text),
           after = IF text = <<>> /\ \E a \in ParseLine(f[m + 1]) : a.key = <<key>>
                   THEN (CHOOSE a \in ParseLine(f[m + 1]) : TRUE).val ELSE text
    PROVE  TextAfter(f, e, m + 1, key, after)
<1> DEFINE sets(j) == Sets(f, j, key)
           texts(j) == TextsOf(f, j, key)
           v == (CHOOSE a \in ParseLine(f[m + 1]) : TRUE).val
           hit == \E a \in ParseLine(f[m + 1]) : a.key = <<key>>
<1>1. (hit => texts(m + 1) = {v}) /\ (~hit => texts(m + 1) = {})
  BY LineTexts
<1>2. \A j : sets(j) <=> texts(j) # {} /\ texts(j) # {<<>>}
  BY DEF Sets
<1>3. after = IF text = <<>> /\ hit THEN v ELSE text
  OBVIOUS
<1>4. /\ e[key] # <<>> => text = e[key]
      /\ e[key] = <<>> /\ (\A j \in 1 .. m : ~sets(j)) => text = <<>>
      /\ \A j \in 1 .. m :
            e[key] = <<>> /\ sets(j) /\ (\A i \in 1 .. j - 1 : ~sets(i)) => texts(j) = {text}
  BY DEF TextAfter
<1> HIDE DEF sets, texts, v, hit
<1>5. 1 .. m + 1 = (1 .. m) \cup {m + 1} /\ (m + 1) - 1 = m
  OBVIOUS
<1>6. e[key] # <<>> => after = e[key]
  BY <1>3, <1>4
<1>7. e[key] = <<>> /\ (\A j \in 1 .. m + 1 : ~sets(j)) => after = <<>>
  <2> SUFFICES ASSUME e[key] = <<>>, \A j \in 1 .. m + 1 : ~sets(j) PROVE after = <<>>
    OBVIOUS
  <2>1. ~sets(m + 1) /\ \A j \in 1 .. m : ~sets(j)
    BY <1>5
  <2>2. text = <<>>
    BY <1>4, <2>1
  <2>3. hit => v = <<>>
    BY <1>1, <1>2, <2>1
  <2> QED
    BY <1>3, <2>2, <2>3
<1>8. \A j \in 1 .. m + 1 :
          e[key] = <<>> /\ sets(j) /\ (\A i \in 1 .. j - 1 : ~sets(i)) => texts(j) = {after}
  <2> SUFFICES ASSUME NEW j \in 1 .. m + 1, e[key] = <<>>, sets(j),
                      \A i \in 1 .. j - 1 : ~sets(i)
               PROVE  texts(j) = {after}
    OBVIOUS
  <2>1. CASE j \in 1 .. m
    <3>1. texts(j) = {text}
      BY <1>4, <2>1
    <3>2. text # <<>>
      BY <1>2, <3>1
    <3>3. after = text
      BY <1>3, <3>2
    <3> QED
      BY <3>1, <3>3
  <2>2. CASE j = m + 1
    <3>1. \A i \in 1 .. m : ~sets(i)
      BY <1>5, <2>2
    <3>2. text = <<>>
      BY <1>4, <3>1
    <3>3. sets(m + 1)
      BY <2>2
    <3>4. hit /\ texts(m + 1) = {v}
      BY <1>1, <1>2, <3>3
    <3>5. after = v
      BY <1>3, <3>2, <3>4
    <3> QED
      BY <2>2, <3>4, <3>5
  <2> QED
    BY <1>5, <2>1, <2>2
<1> QED
  BY <1>6, <1>7, <1>8 DEF TextAfter, sets, texts

LEMMA AllLines ==
    ASSUME file \in Seq(Seq(STRING)), NEW key, NEW text,
           TextAfter(file, environ, Len(file), key, text)
    PROVE  Declared(key) = text
<1> DEFINE all == [j \in 1 .. Len(file) |-> TextsOf(file, j, key)]
           set == {j \in DOMAIN all : all[j] \notin {{}, {<<>>}}}
<1>1. Declared(key) = IF environ[key] # <<>> THEN environ[key]
                      ELSE IF set = {} THEN <<>> ELSE CHOOSE v \in all[Min(set)] : TRUE
  BY DEF Declared, TextsOf
<1>2. \A j : j \in set <=> j \in 1 .. Len(file) /\ Sets(file, j, key)
  BY DEF Sets
<1>3. \A j \in 1 .. Len(file) : all[j] = TextsOf(file, j, key)
  OBVIOUS
<1>4. Len(file) \in Nat
  BY LenProperties
<1> HIDE DEF all, set
<1>5. CASE environ[key] # <<>>
  BY <1>1, <1>5 DEF TextAfter
<1>6. CASE environ[key] = <<>> /\ set = {}
  <2>1. \A j \in 1 .. Len(file) : ~Sets(file, j, key)
    BY <1>2, <1>6
  <2> QED
    BY <1>1, <1>6, <2>1 DEF TextAfter
<1>7. CASE environ[key] = <<>> /\ set # {}
  <2> DEFINE m == Min(set)
  <2>1. set \in SUBSET Nat
    BY <1>2, <1>4
  <2>2. m \in set /\ \A y \in set : m <= y
    BY <1>7, <2>1, LeastNumber
  <2> HIDE DEF m
  <2>3. m \in 1 .. Len(file) /\ Sets(file, m, key)
    BY <1>2, <2>2
  <2>4. \A i \in 1 .. m - 1 : ~Sets(file, i, key)
    <3> SUFFICES ASSUME NEW i \in 1 .. m - 1 PROVE ~Sets(file, i, key)
      OBVIOUS
    <3>1. i \in 1 .. Len(file) /\ ~(m <= i)
      BY <1>4, <2>3
    <3>2. i \notin set
      BY <2>2, <3>1
    <3> QED
      BY <1>2, <3>1, <3>2
  <2>5. TextsOf(file, m, key) = {text}
    BY <1>7, <2>3, <2>4 DEF TextAfter
  <2>6. all[m] = {text}
    BY <1>3, <2>3, <2>5
  <2>7. (CHOOSE v \in all[m] : TRUE) = text
    BY <2>6
  <2> QED
    BY <1>1, <1>7, <2>7 DEF m
<1> QED
  BY <1>5, <1>6, <1>7

\* The variables read so far are those the lines so far declare, and what Load has
\* read is what the whole file declares.
EnvInv ==
    /\ ln \in 1 .. Len(file) + 1
    /\ env = [k \in Keys |-> env[k]]
    /\ epc \in {"lines", "ready", "refused"}
    /\ epc = "lines" => \A k \in Keys : TextAfter(file, environ, ln - 1, k, env[k])
    /\ epc = "ready" => config = DeclaredConfig

\* Characters are strings, for what only asks whether two of them are the same.
LEMMA GivenTexts ==
    ASSUME Given
    PROVE  file \in Seq(Seq(STRING)) /\ header \in Seq(STRING)
<1>1. file \in Seq(Seq(Chars)) /\ header \in Seq(Chars) /\ Chars \subseteq STRING
  BY RankAssumption DEF Given
<1>2. header \in Seq(STRING)
  BY <1>1, SeqMonotonic
<1>3. Seq(Chars) \subseteq Seq(STRING)
  <2> SUFFICES ASSUME NEW s \in Seq(Chars) PROVE s \in Seq(STRING)
    OBVIOUS
  <2> QED
    BY <1>1, SeqMonotonic
<1>4. file \in Seq(Seq(STRING))
  BY <1>1, <1>3, SeqMonotonic
<1> QED
  BY <1>2, <1>4

LEMMA EnvStep ==
    ASSUME Given, EnvInv, EnvNext
    PROVE  EnvInv'
<1>0. file \in Seq(Seq(STRING)) /\ Len(file) \in Nat
  BY GivenTexts, LenProperties
<1>1. CASE LoadLine
  <2>1. /\ epc = "lines" /\ ln <= Len(file) /\ ln' = ln + 1
        /\ file' = file /\ environ' = environ /\ epc' = epc /\ config' = config
    BY <1>1 DEF LoadLine
  <2>2. ln \in 1 .. Len(file) /\ ln - 1 \in Nat /\ (ln - 1) + 1 = ln /\ ln' - 1 = (ln - 1) + 1
    BY <1>0, <2>1 DEF EnvInv
  <2>3. env' = [k \in Keys |->
                 IF env[k] = <<>> /\ \E a \in ParseLine(file[ln]) : a.key = <<k>>
                 THEN (CHOOSE a \in ParseLine(file[ln]) : TRUE).val
                 ELSE env[k]]
    BY <1>1 DEF LoadLine
  <2>4. \A k \in Keys : TextAfter(file, environ, (ln - 1) + 1, k, env'[k])
    <3> SUFFICES ASSUME NEW k \in Keys
                 PROVE  TextAfter(file, environ, (ln - 1) + 1, k, env'[k])
      OBVIOUS
    <3>1. TextAfter(file, environ, ln - 1, k, env[k])
      BY <2>1 DEF EnvInv
    <3>2. env'[k] = IF env[k] = <<>> /\ \E a \in ParseLine(file[(ln - 1) + 1]) : a.key = <<k>>
                    THEN (CHOOSE a \in ParseLine(file[(ln - 1) + 1]) : TRUE).val
                    ELSE env[k]
      BY <2>2, <2>3
    <3> QED
      BY <2>2, <3>1, <3>2, OneLineMore
  <2>5. \A k \in Keys : TextAfter(file, environ, ln' - 1, k, env'[k])
    BY <2>2, <2>4
  <2>6. env' = [k \in Keys |-> env'[k]]
    BY <2>3
  <2>7. ln' \in 1 .. Len(file') + 1
    BY <1>0, <2>1, <2>2
  <2> QED
    BY <2>1, <2>5, <2>6, <2>7 DEF EnvInv
<1>2. CASE BadLine
  BY <1>2 DEF BadLine, EnvInv
<1>3. CASE Load
  <2>1. /\ epc = "lines" /\ ln > Len(file) /\ config' = ConfigOf(env)
        /\ file' = file /\ environ' = environ /\ env' = env /\ ln' = ln
        /\ epc' \in {"ready", "refused"}
    BY <1>3 DEF Load
  <2>2. ln - 1 = Len(file)
    BY <1>0, <2>1 DEF EnvInv
  <2>3. \A k \in Keys : Declared(k) = env[k]
    <3> SUFFICES ASSUME NEW k \in Keys PROVE Declared(k) = env[k]
      OBVIOUS
    <3>1. TextAfter(file, environ, Len(file), k, env[k])
      BY <2>1, <2>2 DEF EnvInv
    <3> QED
      BY <1>0, <3>1, AllLines
  <2>4. env = [k \in Keys |-> env[k]]
    BY DEF EnvInv
  <2>5. DeclaredEnv = env
    BY <2>3, <2>4 DEF DeclaredEnv
  <2>6. config' = DeclaredConfig
    BY <2>1, <2>5 DEF DeclaredConfig
  <2>7. DeclaredConfig' = DeclaredConfig
    BY <2>1 DEF DeclaredConfig, DeclaredEnv, Declared
  <2> QED
    BY <2>1, <2>6, <2>7 DEF EnvInv
<1> QED
  BY <1>1, <1>2, <1>3 DEF EnvNext

----------------------------------------------------------------------------
(* The search                                                              *)

\* An object makes use of a kind.
Uses(o, k) ==
    /\ o.depth <= MaxScanDepth
    /\ o.type \in TypeNames[k]
    /\ k = "file" => o.ref

\* The kinds of cm that the body d uses as far as its first m objects show.
UsedBelow(cm, d, m) ==
    {k \in Want(cm) : \/ k = "tools" /\ (d.tools = "some" \/ d.choice = "named")
                      \/ \E j \in 1 .. m : Uses(d.nodes[j], k)}

LEMMA UsedByAll ==
    ASSUME Given
    PROVE  DetectedIsUsed <=> got = UsedBelow(caps, doc, Len(doc.nodes))
<1>1. DOMAIN doc.nodes = 1 .. Len(doc.nodes)
  BY LenProperties DEF Given, IsBody
<1>2. ToSet(doc.nodes) = {doc.nodes[j] : j \in 1 .. Len(doc.nodes)}
  BY <1>1 DEF ToSet
<1>3. \A k : (\E o \in ToSet(doc.nodes) : Uses(o, k))
               <=> (\E j \in 1 .. Len(doc.nodes) : Uses(doc.nodes[j], k))
  BY <1>2
<1>4. DetectedIsUsed <=>
        got = {k \in Want(caps) :
                  \/ k = "tools" /\ (doc.tools = "some" \/ doc.choice = "named")
                  \/ \E o \in ToSet(doc.nodes) : Uses(o, k)}
  BY DEF DetectedIsUsed, Uses, HasTools
<1> QED
  BY <1>3, <1>4 DEF UsedBelow

\* Before the search nothing is found, in it what the objects passed show.
ScanInv ==
    /\ cpc \in {"wait", "parse", "detect", "scan", "done"}
    /\ cpc \in {"wait", "parse", "detect"} => got = {} /\ node = 1
    /\ cpc = "scan" => /\ node \in 1 .. Len(doc.nodes) + 1
                       /\ got = UsedBelow(caps, doc, node - 1)
    /\ cpc = "done" => DetectedIsUsed

\* One object more.
LEMMA ScanFinds ==
    ASSUME Given, node \in 1 .. Len(doc.nodes)
    PROVE  UsedBelow(caps, doc, node) =
              UsedBelow(caps, doc, node - 1)
              \cup (IF doc.nodes[node].depth > MaxScanDepth THEN {} ELSE Found(doc.nodes[node]))
<1> DEFINE o == doc.nodes[node]
           found == IF o.depth > MaxScanDepth THEN {} ELSE Found(o)
<1>1. Len(doc.nodes) \in Nat /\ o \in [depth : Nat, type : STRING, ref : BOOLEAN]
  BY LenProperties, ElementOfSeq DEF Given, IsBody
<1>2. o.depth \in Nat /\ MaxScanDepth \in Nat
  BY <1>1, CapabilityAssumption
<1>3. o.depth <= MaxScanDepth <=> ~(o.depth > MaxScanDepth)
  BY <1>2
<1>4. \A k \in Want(caps) : Uses(o, k) <=> k \in found
  <2> SUFFICES ASSUME NEW k \in Want(caps) PROVE Uses(o, k) <=> k \in found
    OBVIOUS
  <2>1. k \in Kinds
    BY DEF Want
  <2>2. k \in Found(o) <=> o.type \in TypeNames[k] /\ (k = "file" => o.ref)
    BY <2>1 DEF Found, KindOfType
  <2> HIDE DEF o
  <2> QED
    BY <1>3, <2>2 DEF Uses
<1>5. found \subseteq Want(caps)
  BY DEF Found
<1>6. 1 .. node = (1 .. node - 1) \cup {node}
  BY <1>1
<1> HIDE DEF found
<1>7. \A k : (\E j \in 1 .. node : Uses(doc.nodes[j], k))
               <=> (\E j \in 1 .. node - 1 : Uses(doc.nodes[j], k)) \/ Uses(o, k)
  BY <1>6
<1>8. UsedBelow(caps, doc, node) = UsedBelow(caps, doc, node - 1) \cup found
  BY <1>4, <1>5, <1>7 DEF UsedBelow
<1> QED
  BY <1>8 DEF found

\* capability.go:247-256, 337-341.
LEMMA CapStep ==
    ASSUME Given, ScanInv, CapNext
    PROVE  ScanInv'
<1>0. Len(doc.nodes) \in Nat /\ DOMAIN doc.nodes = 1 .. Len(doc.nodes)
  BY LenProperties DEF Given, IsBody
<1>1. CASE ParsePart
  <2>1. cpc = "parse" /\ cpc' = cpc /\ got' = got /\ node' = node
    BY <1>1 DEF ParsePart
  <2> QED
    BY <2>1 DEF ScanInv
<1>2. CASE ResolveCapMap
  <2>1. cpc = "parse" /\ cpc' = "detect" /\ got' = got /\ node' = node
    BY <1>2 DEF ResolveCapMap
  <2> QED
    BY <2>1 DEF ScanInv
<1>3. CASE Detect
  <2>1. /\ cpc = "detect" /\ caps' = caps /\ doc' = doc /\ node' = node /\ got = {} /\ node = 1
    BY <1>3 DEF Detect, ScanInv
  <2>2. CASE Want(caps) = {} \/ ~CoarseMatch
    <3>1. cpc' = "done" /\ got' = {}
      BY <1>3, <2>1, <2>2 DEF Detect
    <3>2. CASE Want(caps) = {}
      <4>1. UsedBelow(caps, doc, Len(doc.nodes)) = {}
        BY <3>2 DEF UsedBelow
      <4>2. DetectedIsUsed
        BY <2>1, <4>1, UsedByAll
      <4>3. DetectedIsUsed'
        BY <2>1, <3>1, <4>2 DEF DetectedIsUsed, HasTools
      <4> QED
        BY <3>1, <4>3 DEF ScanInv
    <3>3. CASE ~CoarseMatch
      <4>1. ~(doc.tools = "some" \/ doc.choice = "named")
        BY <3>3 DEF CoarseMatch
      <4>2. \A j \in 1 .. Len(doc.nodes) : \A k \in Kinds : ~Uses(doc.nodes[j], k)
        <5> SUFFICES ASSUME NEW j \in 1 .. Len(doc.nodes), NEW k \in Kinds
                     PROVE  ~Uses(doc.nodes[j], k)
          OBVIOUS
        <5>1. doc.nodes[j].type = "none"
          BY <1>0, <3>3 DEF CoarseMatch
        <5>2. "none" \notin TypeNames[k]
          BY DEF TypeNames, Kinds
        <5> QED
          BY <5>1, <5>2 DEF Uses
      <4>3. UsedBelow(caps, doc, Len(doc.nodes)) = {}
        BY <4>1, <4>2 DEF UsedBelow, Want
      <4>4. DetectedIsUsed
        BY <2>1, <4>3, UsedByAll
      <4>5. DetectedIsUsed'
        BY <2>1, <3>1, <4>4 DEF DetectedIsUsed, HasTools
      <4> QED
        BY <3>1, <4>5 DEF ScanInv
    <3> QED
      BY <2>2, <3>2, <3>3
  <2>3. CASE ~(Want(caps) = {} \/ ~CoarseMatch)
    <3>1. cpc' = "scan" /\ got' = Want(caps) \cap IF HasTools THEN {"tools"} ELSE {}
      BY <1>3, <2>3 DEF Detect
    <3>2. 1 .. 0 = {}
      OBVIOUS
    <3>3. UsedBelow(caps, doc, 0) =
            {k \in Want(caps) : k = "tools" /\ (doc.tools = "some" \/ doc.choice = "named")}
      BY <3>2 DEF UsedBelow
    <3>4. UsedBelow(caps, doc, 0) = got'
      <4>1. CASE HasTools
        BY <3>1, <3>3, <4>1 DEF HasTools
      <4>2. CASE ~HasTools
        BY <3>1, <3>3, <4>2 DEF HasTools
      <4> QED
        BY <4>1, <4>2
    <3>5. node' \in 1 .. Len(doc'.nodes) + 1 /\ node' - 1 = 0
      BY <1>0, <2>1
    <3>6. UsedBelow(caps', doc', node' - 1) = got'
      BY <2>1, <3>4, <3>5
    <3> QED
      BY <3>1, <3>5, <3>6 DEF ScanInv
  <2> QED
    BY <2>2, <2>3
<1>4. CASE Scan
  <2>1. /\ cpc = "scan" /\ cpc' = cpc /\ caps' = caps /\ doc' = doc /\ node' = node + 1
        /\ node <= Len(doc.nodes)
        /\ got' = IF doc.nodes[node].depth > MaxScanDepth THEN got
                  ELSE got \cup Found(doc.nodes[node])
    BY <1>4 DEF Scan, Scanning
  <2>2. node \in 1 .. Len(doc.nodes) /\ got = UsedBelow(caps, doc, node - 1)
    BY <1>0, <2>1 DEF ScanInv
  <2>3. got' = UsedBelow(caps, doc, node)
    BY <2>1, <2>2, ScanFinds
  <2>4. node' - 1 = node /\ node' \in 1 .. Len(doc.nodes) + 1
    BY <1>0, <2>1, <2>2
  <2> QED
    BY <2>1, <2>3, <2>4 DEF ScanInv
<1>5. CASE EndScan
  <2>1. /\ cpc = "scan" /\ cpc' = "done" /\ caps' = caps /\ doc' = doc /\ got' = got
        /\ node > Len(doc.nodes) \/ Want(caps) \subseteq got
    BY <1>0, <1>5 DEF EndScan, Scanning, ScanInv
  <2>2. node \in 1 .. Len(doc.nodes) + 1 /\ got = UsedBelow(caps, doc, node - 1)
    BY <2>1 DEF ScanInv
  <2>3. got = UsedBelow(caps, doc, Len(doc.nodes))
    <3>1. CASE node > Len(doc.nodes)
      <4>1. node - 1 = Len(doc.nodes)
        BY <1>0, <2>2, <3>1
      <4> QED
        BY <2>2, <4>1
    <3>2. CASE Want(caps) \subseteq got
      <4>1. \A j \in 1 .. node - 1 : j \in 1 .. Len(doc.nodes)
        BY <1>0, <2>2
      <4>2. UsedBelow(caps, doc, node - 1) \subseteq UsedBelow(caps, doc, Len(doc.nodes))
        BY <4>1 DEF UsedBelow
      <4>3. UsedBelow(caps, doc, Len(doc.nodes)) \subseteq Want(caps)
        BY DEF UsedBelow
      <4> QED
        BY <2>2, <3>2, <4>2, <4>3
    <3> QED
      BY <2>1, <3>1, <3>2
  <2>4. DetectedIsUsed
    BY <2>3, UsedByAll
  <2>5. DetectedIsUsed'
    BY <2>1, <2>4 DEF DetectedIsUsed, HasTools
  <2> QED
    BY <2>1, <2>5 DEF ScanInv
<1> QED
  BY <1>1, <1>2, <1>3, <1>4, <1>5 DEF CapNext

----------------------------------------------------------------------------
(* The reply                                                               *)

\* What ReplyHeadersFit says of a header that crosses with the upstream's answer.
LEMMA RelayFits ==
    ASSUME NEW fields, NEW length, NEW bytes, Relay(upstream.status, fields, length, bytes),
           length # NoLength => length = bytes,
           LET crossing == DOMAIN upstream.fields \ (Hop \cup DropHeaders)
               set == IF IsStream THEN DOMAIN StreamFields ELSE {}
           IN  /\ DOMAIN fields = crossing \cup set
               /\ \A f \in crossing \ set : fields[f] = upstream.fields[f]
               /\ IsStream => fields["Connection"] = <<<<"keep-alive">>>>
    PROVE  ReplyHeadersFit'
<1>1. /\ reply' = [status |-> upstream.status, fields |-> fields, length |-> length,
                   own |-> FALSE, bytes |-> bytes]
      /\ upstream' = upstream
  BY DEF Relay
<1>2. /\ reply'.fields = fields /\ reply'.length = length /\ reply'.bytes = bytes
      /\ ~reply'.own
  BY <1>1
<1>3. IsStream' <=> IsStream
  BY <1>1 DEF IsStream
<1> QED
  BY <1>1, <1>2, <1>3 DEF ReplyHeadersFit

LEMMA ErrorFits ==
    ASSUME NEW status, NEW fields, WriteError(status, fields),
           DOMAIN fields \subseteq DOMAIN upstream.fields \ (Hop \cup DropHeaders),
           \A f \in DOMAIN fields : fields[f] = upstream.fields[f],
           status = 400 => DOMAIN fields = {}
    PROVE  ReplyHeadersFit'
<1> DEFINE all == Set(fields, "Content-Type", Json)
<1>1. /\ reply' = [status |-> status, fields |-> all, length |-> NoLength,
                   own |-> TRUE, bytes |-> 0]
      /\ upstream' = upstream
  BY DEF WriteError
<1>2. /\ DOMAIN all = DOMAIN fields \cup {"Content-Type"}
      /\ \A f \in DOMAIN fields \ {"Content-Type"} : all[f] = fields[f]
  BY DEF Set
<1> HIDE DEF all
<1>3. /\ reply'.fields = all /\ reply'.length = NoLength /\ reply'.own /\ reply'.status = status
  BY <1>1
<1> QED
  BY <1>1, <1>2, <1>3 DEF ReplyHeadersFit

LEMMA CopiedFields ==
    /\ DOMAIN Copied.fields = DOMAIN upstream.fields \ (Hop \cup DropHeaders)
    /\ \A f \in DOMAIN Copied.fields : Copied.fields[f] = upstream.fields[f]
    /\ Copied.length = NoLength
BY DEF Copied, CopyResponseHeaders, Restrict

\* response.go:45-49, 213-335.
LEMMA ReplyFits ==
    ASSUME IsAnswer(upstream), NEW sanitize, Reply(sanitize)
    PROVE  ReplyHeadersFit'
<1>1. CASE PipeStream(sanitize)
  <2> DEFINE all == [f \in DOMAIN Copied.fields \cup DOMAIN StreamFields |->
                        IF f \in DOMAIN StreamFields THEN <<StreamFields[f]>>
                        ELSE Copied.fields[f]]
  <2>1. PICK bytes : Relay(upstream.status, all, Copied.length, bytes)
    BY <1>1 DEF PipeStream
  <2>2. IsStream
    BY <1>1 DEF PipeStream
  <2>3. /\ DOMAIN StreamFields = {"Cache-Control", "Connection", "X-Accel-Buffering"}
        /\ StreamFields["Connection"] = <<"keep-alive">>
    BY DEF StreamFields
  <2>4. /\ DOMAIN all = DOMAIN Copied.fields \cup DOMAIN StreamFields
        /\ \A f \in DOMAIN Copied.fields \ DOMAIN StreamFields : all[f] = Copied.fields[f]
        /\ \A f \in DOMAIN StreamFields : all[f] = <<StreamFields[f]>>
    OBVIOUS
  <2> HIDE DEF all
  <2>5. all["Connection"] = <<<<"keep-alive">>>>
    BY <2>3, <2>4
  <2> QED
    BY <2>1, <2>2, <2>4, <2>5, CopiedFields, RelayFits
<1>2. CASE PassThrough(sanitize)
  <2>1. ~IsStream /\ Relay(upstream.status, Copied.fields,
             IF upstream.length # NoLength THEN upstream.length ELSE Copied.length,
             upstream.bytes)
    BY <1>2 DEF PassThrough
  <2>2. upstream.length # NoLength => upstream.length = upstream.bytes
    BY DEF IsAnswer
  <2> QED
    BY <2>1, <2>2, CopiedFields, RelayFits
<1>3. CASE RejectOversizeResponse(sanitize)
  <2>1. WriteError(400, NoFields)
    BY <1>3 DEF RejectOversizeResponse
  <2>2. DOMAIN NoFields = {}
    BY DEF NoFields
  <2> QED
    BY <2>1, <2>2, ErrorFits
<1>4. CASE ReadFails(sanitize)
  <2>1. WriteError(502, Copied.fields) /\ 502 # 400
    BY <1>4 DEF ReadFails
  <2> QED
    BY <2>1, CopiedFields, ErrorFits
<1>5. CASE SkipTooLarge(sanitize)
  <2>1. ~IsStream /\ Relay(upstream.status, Copied.fields, Copied.length, upstream.bytes)
    BY <1>5 DEF SkipTooLarge, Reads
  <2> QED
    BY <2>1, CopiedFields, RelayFits
<1>6. CASE RelayBuffered(sanitize)
  <2>1. ~IsStream /\ \E bytes : Relay(upstream.status, Copied.fields, bytes, bytes)
    BY <1>6 DEF RelayBuffered, Reads
  <2> QED
    BY <2>1, CopiedFields, RelayFits
<1> QED
  BY <1>1, <1>2, <1>3, <1>4, <1>5, <1>6 DEF Reply

----------------------------------------------------------------------------
(* Numbers in their order, and the parts of a text                         *)

\* The rank of the members of a set of numbers tells them apart, so that each rank
\* is that of one.
LEMMA AscendingMembers ==
    ASSUME NEW S \in SUBSET Nat, IsFiniteSet(S)
    PROVE  Ascending(S) \in Seq(S) /\ Len(Ascending(S)) = Cardinality(S)
<1> DEFINE len == Cardinality(S)
           Upto(k) == {j \in S : j <= k}
           rank == [k \in S |-> Cardinality(Upto(k))]
<1>1. len \in Nat
  BY FS_CardinalityType
<1>2. \A k \in S : rank[k] \in 1 .. len
  <2> SUFFICES ASSUME NEW k \in S PROVE rank[k] \in 1 .. len
    OBVIOUS
  <2>1. Upto(k) \in SUBSET S /\ k \in Upto(k)
    OBVIOUS
  <2> HIDE DEF Upto
  <2>2. /\ IsFiniteSet(Upto(k)) /\ Cardinality(Upto(k)) <= len /\ Cardinality(Upto(k)) \in Nat
        /\ Cardinality(Upto(k)) # 0
    BY <2>1, FS_Subset, FS_CardinalityType, FS_EmptySet
  <2> QED
    BY <1>1, <2>2
<1>3. \A k, l \in S : k < l => rank[k] # rank[l]
  <2> SUFFICES ASSUME NEW k \in S, NEW l \in S, k < l PROVE rank[k] # rank[l]
    OBVIOUS
  <2>0. ~(l <= k) /\ \A j \in S : j <= k => j <= l
    OBVIOUS
  <2>3. Upto(k) \in SUBSET Upto(l)
    BY <2>0
  <2>1. Upto(l) \in SUBSET S /\ Upto(k) \in SUBSET Upto(l) /\ l \in Upto(l) /\ l \notin Upto(k)
    BY <2>0, <2>3
  <2> HIDE DEF Upto
  <2>2. IsFiniteSet(Upto(l))
    BY <2>1, FS_Subset
  <2>4. Cardinality(Upto(k)) # Cardinality(Upto(l))
    BY <2>1, <2>2, FS_Subset
  <2> QED
    BY <2>4
<1>4. rank \in [S -> 1 .. len]
  BY <1>2
<1>5. \A k, l \in S : rank[k] = rank[l] => k = l
  <2> SUFFICES ASSUME NEW k \in S, NEW l \in S, rank[k] = rank[l], k # l PROVE FALSE
    OBVIOUS
  <2>1. k < l \/ l < k
    OBVIOUS
  <2> HIDE DEF rank
  <2> QED
    BY <1>3, <2>1
<1>6. IsFiniteSet(1 .. len) /\ Cardinality(1 .. len) = len
  BY <1>1, FS_Interval
<1>7. rank \in Surjection(S, 1 .. len)
  <2> HIDE DEF rank
  <2>1. rank \in Injection(S, 1 .. len)
    BY <1>4, <1>5 DEF Injection, IsInjective
  <2> QED
    BY <1>6, <2>1, FS_Injection
<1>8. \A m \in 1 .. len : \E k \in S : rank[k] = m
  <2> HIDE DEF rank
  <2> QED
    BY <1>7 DEF Surjection
<1>9. \A m \in 1 .. len : (CHOOSE k \in S : Cardinality({j \in S : j <= k}) = m) \in S
  BY <1>8
<1>10. Ascending(S) \in [1 .. len -> S]
  BY <1>9 DEF Ascending
<1> HIDE DEF len, rank
<1> QED
  BY <1>1, <1>10, LenProperties DEF len

\* A set of numbers with a greater one: its sequence is longer by that one.
LEMMA AscendingOneMore ==
    ASSUME NEW S \in SUBSET Nat, IsFiniteSet(S), NEW x \in Nat, \A k \in S : k < x
    PROVE  Ascending(S \cup {x}) = Append(Ascending(S), x)
<1> DEFINE R == S \cup {x}
           len == Cardinality(S)
           In(T, m) == CHOOSE k \in T : Cardinality({j \in T : j <= k}) = m
<1>1. x \notin S /\ x <= x /\ \A k \in S : k <= x
  OBVIOUS
<1>2. len \in Nat /\ IsFiniteSet(R) /\ Cardinality(R) = len + 1
  BY <1>1, FS_CardinalityType, FS_AddElement
<1>3. {j \in R : j <= x} = R
  BY <1>1
<1>4. \A k \in S : {j \in R : j <= k} = {j \in S : j <= k}
  OBVIOUS
<1>5. \A k \in S : Cardinality({j \in S : j <= k}) \in Nat /\ Cardinality({j \in S : j <= k}) <= len
  <2> SUFFICES ASSUME NEW k \in S
               PROVE  Cardinality({j \in S : j <= k}) \in Nat /\ Cardinality({j \in S : j <= k}) <= len
    OBVIOUS
  <2>1. {j \in S : j <= k} \in SUBSET S
    OBVIOUS
  <2> QED
    BY <2>1, FS_Subset, FS_CardinalityType
<1>6. In(R, len + 1) = x
  <2>1. \A k \in S : Cardinality({j \in R : j <= k}) # len + 1
    BY <1>2, <1>4, <1>5
  <2>2. Cardinality({j \in R : j <= x}) = len + 1
    BY <1>2, <1>3
  <2> QED
    BY <2>1, <2>2
<1>7. \A m \in 1 .. len : In(R, m) = In(S, m)
  <2> SUFFICES ASSUME NEW m \in 1 .. len
               PROVE  In(R, m) = In(S, m)
    OBVIOUS
  <2>1. Cardinality({j \in R : j <= x}) # m
    BY <1>2, <1>3
  <2>2. \A k : k \in R /\ Cardinality({j \in R : j <= k}) = m
                <=> k \in S /\ Cardinality({j \in S : j <= k}) = m
    BY <1>4, <2>1
  <2> HIDE DEF R
  <2> QED
    BY <2>2
<1>8. Ascending(R) = [m \in 1 .. len + 1 |-> In(R, m)]
  BY <1>2 DEF Ascending
<1>9. Ascending(S) = [m \in 1 .. len |-> In(S, m)]
  BY DEF Ascending
<1>10. Ascending(S) \in Seq(Nat) /\ Len(Ascending(S)) = len
  BY AscendingMembers, SeqMonotonic
<1>11. /\ Append(Ascending(S), x) \in Seq(Nat) /\ Len(Append(Ascending(S), x)) = len + 1
       /\ \A m \in 1 .. len : Append(Ascending(S), x)[m] = Ascending(S)[m]
       /\ Append(Ascending(S), x)[len + 1] = x
  BY <1>10, AppendProperties
<1>12. R \in SUBSET Nat /\ Ascending(R) \in Seq(Nat) /\ Len(Ascending(R)) = len + 1
  BY <1>2, AscendingMembers, SeqMonotonic
<1> HIDE DEF In, R, len
<1>14. \A m \in 1 .. len + 1 : Ascending(R)[m] = Append(Ascending(S), x)[m]
  <2> SUFFICES ASSUME NEW m \in 1 .. len + 1
               PROVE  Ascending(R)[m] = Append(Ascending(S), x)[m]
    OBVIOUS
  <2>1. m \in 1 .. len \/ m = len + 1
    BY <1>2
  <2> QED
    BY <1>6, <1>7, <1>8, <1>9, <1>11, <2>1
<1>13. Ascending(R) = Append(Ascending(S), x)
  BY <1>11, <1>12, <1>14, SeqEqual
<1> QED
  BY <1>13 DEF R

LEMMA FunctionIsSeq ==
    ASSUME NEW T, NEW N \in Nat, NEW f \in [1 .. N -> T]
    PROVE  f \in Seq(T) /\ Len(f) = N
OBVIOUS

\* The values of g at the members of a set of numbers, in their order.
Along(g, S) == [m \in DOMAIN Ascending(S) |-> g[Ascending(S)[m]]]

LEMMA AlongNone ==
    ASSUME NEW g
    PROVE  Along(g, {}) = <<>>
<1>1. Ascending({}) \in Seq({}) /\ Len(Ascending({})) = 0
  BY AscendingMembers, FS_EmptySet
<1>2. Ascending({}) = <<>>
  BY <1>1, EmptySeq
<1> QED
  BY <1>2 DEF Along

LEMMA AlongOneMore ==
    ASSUME NEW T, NEW g \in [Nat -> T], NEW S \in SUBSET Nat, IsFiniteSet(S),
           NEW x \in Nat, \A k \in S : k < x
    PROVE  /\ Along(g, S) \in Seq(T)
           /\ \A t \in ToSet(Along(g, S)) : \E k \in S : t = g[k]
           /\ Along(g, S \cup {x}) = Append(Along(g, S), g[x])
<1> DEFINE at == Ascending(S)
           len == Len(at)
           more == Append(at, x)
<1>1. at \in Seq(S) /\ at \in Seq(Nat)
  BY AscendingMembers, SeqMonotonic
<1>2. Ascending(S \cup {x}) = more
  BY AscendingOneMore
<1> HIDE DEF at
<1>3. len \in Nat /\ DOMAIN at = 1 .. len /\ \A m \in 1 .. len : at[m] \in S /\ at[m] \in Nat
  BY <1>1, LenProperties, ElementOfSeq
<1>4. /\ more \in Seq(Nat) /\ Len(more) = len + 1 /\ more[len + 1] = x
      /\ \A m \in 1 .. len : more[m] = at[m]
  BY <1>1, AppendProperties
<1>5. DOMAIN more = 1 .. len + 1
  BY <1>4, LenProperties
<1> HIDE DEF more, len
<1>6. /\ Along(g, S) = [m \in 1 .. len |-> g[at[m]]]
      /\ Along(g, S \cup {x}) = [m \in 1 .. len + 1 |-> g[more[m]]]
  BY <1>2, <1>3, <1>5 DEF Along, at
<1>7. /\ Along(g, S) \in [1 .. len -> T] /\ Along(g, S \cup {x}) \in [1 .. len + 1 -> T]
      /\ g[x] \in T
  <2>1. \A m \in 1 .. len + 1 : more[m] \in Nat
    BY <1>4, ElementOfSeq
  <2> QED
    BY <1>3, <1>6, <2>1
<1>8. /\ Along(g, S) \in Seq(T) /\ Len(Along(g, S)) = len
      /\ Along(g, S \cup {x}) \in Seq(T) /\ Len(Along(g, S \cup {x})) = len + 1
  <2>1. Along(g, S) \in Seq(T) /\ Len(Along(g, S)) = len
    BY <1>3, <1>7
  <2>2. len + 1 \in Nat
    BY <1>3
  <2>3. Along(g, S \cup {x}) \in Seq(T) /\ Len(Along(g, S \cup {x})) = len + 1
    BY <1>7, <2>2, FunctionIsSeq
  <2> QED
    BY <2>1, <2>3
<1>9. \A t \in ToSet(Along(g, S)) : \E k \in S : t = g[k]
  BY <1>3, <1>6 DEF ToSet
<1>10. /\ Append(Along(g, S), g[x]) \in Seq(T) /\ Len(Append(Along(g, S), g[x])) = len + 1
       /\ \A m \in 1 .. len : Append(Along(g, S), g[x])[m] = Along(g, S)[m]
       /\ Append(Along(g, S), g[x])[len + 1] = g[x]
  BY <1>7, <1>8, AppendProperties
<1>11. \A m \in 1 .. len + 1 : Along(g, S \cup {x})[m] = Append(Along(g, S), g[x])[m]
  <2> SUFFICES ASSUME NEW m \in 1 .. len + 1
               PROVE  Along(g, S \cup {x})[m] = Append(Along(g, S), g[x])[m]
    OBVIOUS
  <2>1. m \in 1 .. len \/ m = len + 1
    BY <1>3
  <2>2. CASE m \in 1 .. len
    <3>1. Along(g, S \cup {x})[m] = g[more[m]] /\ Along(g, S)[m] = g[at[m]]
      BY <1>6, <2>2
    <3> QED
      BY <1>4, <1>10, <2>2, <3>1
  <2>3. CASE m = len + 1
    BY <1>4, <1>6, <1>10, <2>3
  <2> QED
    BY <2>1, <2>2, <2>3
<1>12. Along(g, S \cup {x}) = Append(Along(g, S), g[x])
  BY <1>8, <1>10, <1>11, SeqEqual
<1> QED
  BY <1>8, <1>9, <1>12

\* What is behind the at-th of the l last places is within the text, or nothing is.
LEMMA BehindOrAtEnd ==
    ASSUME NEW p \in Nat, NEW len \in Nat, NEW l \in Nat, NEW at \in Nat,
           l = len + 1 - p, at <= l
    PROVE  p + at <= len \/ l - at = 0
OBVIOUS

\* The part that begins at p ends where the next one begins.
LEMMA NextPart ==
    ASSUME NEW S, NEW s \in Seq(S), NEW c, NEW p \in Starts(s, c)
    PROVE  LET tail == From(s, p)
               at == IndexOf(tail, c)
           IN  /\ tail \in Seq(S) /\ Len(tail) = Len(s) + 1 - p /\ at \in 0 .. Len(tail)
               /\ PartAt(s, c, p) \in Seq(S)
               /\ \A k \in Starts(s, c) : k > p => at # 0 /\ k >= p + at
               /\ at # 0 => /\ p + at \in Starts(s, c)
                            /\ From(tail, at + 1) = From(s, p + at)
<1> DEFINE tail == From(s, p)
           at == IndexOf(tail, c)
           T == {k \in DOMAIN tail : tail[k] = c}
<1>1. Len(s) \in Nat /\ p \in 1 .. Len(s) + 1 /\ \A i \in 1 .. Len(s) : s[i] \in S
  BY LenProperties, ElementOfSeq DEF Starts
<1>2. /\ tail \in Seq(S) /\ Len(tail) = Len(s) + 1 - p
      /\ \A i \in 1 .. Len(s) + 1 - p : tail[i] = s[p + i - 1]
  <2>1. p \in Int /\ Len(s) \in Int /\ \A i \in p .. Len(s) : s[i] \in S
    BY <1>1
  <2>2. /\ tail \in Seq(S) /\ Len(tail) = IF p <= Len(s) THEN Len(s) - p + 1 ELSE 0
        /\ \A i \in 1 .. Len(s) - p + 1 : tail[i] = s[p + i - 1]
    BY <2>1, SubSeqProperties DEF From
  <2>3. Len(s) - p + 1 = Len(s) + 1 - p /\ (~(p <= Len(s)) => Len(s) + 1 - p = 0)
    BY <1>1
  <2> QED
    BY <2>2, <2>3
<1> DEFINE l == Len(tail)
<1>3. l \in Nat /\ DOMAIN tail = 1 .. l /\ \A i \in 1 .. l : tail[i] \in S
  BY <1>2, LenProperties, ElementOfSeq
<1> HIDE DEF tail
<1>4. at = IF T = {} THEN 0 ELSE Min(T)
  BY DEF IndexOf
<1>5. T \in SUBSET Nat
  BY <1>3
<1>6. T # {} => Min(T) \in T /\ \A y \in T : Min(T) <= y
  <2> HIDE DEF T
  <2> QED
    BY <1>5, LeastNumber
<1>7. /\ at \in 0 .. l /\ (at = 0 => T = {})
      /\ at # 0 => at \in T /\ \A y \in T : at <= y
  BY <1>3, <1>4, <1>6
<1>8. \A k \in Starts(s, c) : k > p => k - p \in T
  <2> SUFFICES ASSUME NEW k \in Starts(s, c), k > p PROVE k - p \in T
    OBVIOUS
  <2>1. k \in 1 .. Len(s) + 1 /\ s[k - 1] = c
    BY <1>1 DEF Starts
  <2>2. k - p \in 1 .. l /\ p + (k - p) - 1 = k - 1
    BY <1>1, <1>2, <2>1
  <2> QED
    BY <1>2, <1>3, <2>1, <2>2
<1>9. \A k \in Starts(s, c) : k > p => at # 0 /\ k >= p + at
  <2> SUFFICES ASSUME NEW k \in Starts(s, c), k > p PROVE at # 0 /\ k >= p + at
    OBVIOUS
  <2>1. k - p \in T /\ k \in Nat /\ p \in Nat
    BY <1>1, <1>8 DEF Starts
  <2>2. at # 0 /\ at <= k - p
    BY <1>7, <2>1
  <2> HIDE DEF at, T
  <2> QED
    BY <1>3, <1>7, <2>1, <2>2
<1>10. ASSUME at # 0
       PROVE  p + at \in Starts(s, c) /\ From(tail, at + 1) = From(s, p + at)
  <2>1. at \in 1 .. l /\ tail[at] = c
    BY <1>3, <1>7, <1>10
  <2> HIDE DEF at, T
  <2>0. p \in Nat /\ Len(s) \in Nat /\ l \in Nat /\ at \in Nat /\ l = Len(s) + 1 - p /\ at <= l
    BY <1>1, <1>2, <1>3, <2>1
  <2>2. p + at \in 1 .. Len(s) + 1 /\ (p + at) - 1 = p + at - 1
    BY <1>1, <1>2, <2>1
  <2>3. s[p + at - 1] = c
    BY <1>2, <2>1
  <2>4. p + at \in Starts(s, c)
    BY <2>2, <2>3 DEF Starts
  <2>5. /\ From(tail, at + 1) \in Seq(S)
        /\ Len(From(tail, at + 1)) = IF at + 1 <= l THEN l - (at + 1) + 1 ELSE 0
        /\ \A i \in 1 .. l - (at + 1) + 1 : From(tail, at + 1)[i] = tail[at + 1 + i - 1]
    <3>1. at + 1 \in Int /\ l \in Int /\ \A i \in at + 1 .. l : tail[i] \in S
      BY <1>3, <2>1
    <3> QED
      BY <3>1, SubSeqProperties DEF From
  <2>6. /\ From(s, p + at) \in Seq(S)
        /\ Len(From(s, p + at)) = IF p + at <= Len(s) THEN Len(s) - (p + at) + 1 ELSE 0
        /\ \A i \in 1 .. Len(s) - (p + at) + 1 : From(s, p + at)[i] = s[p + at + i - 1]
    <3>1. p + at \in Int /\ Len(s) \in Int /\ \A i \in p + at .. Len(s) : s[i] \in S
      BY <1>1, <2>2
    <3> QED
      BY <3>1, SubSeqProperties DEF From
  <2>9. l - (at + 1) + 1 = l - at /\ Len(s) - (p + at) + 1 = l - at
    BY <1>1, <1>2, <2>1
  <2>7. /\ Len(From(tail, at + 1)) = l - at /\ Len(From(s, p + at)) = l - at
        /\ l - (at + 1) + 1 = l - at /\ Len(s) - (p + at) + 1 = l - at
    <3> HIDE DEF l
    <3>1. at + 1 <= l \/ l - at = 0
      BY <1>3, <2>1
    <3>2. p + at <= Len(s) \/ l - at = 0
      BY <2>0, BehindOrAtEnd
    <3>3. Len(From(tail, at + 1)) = l - at
      <4>1. CASE at + 1 <= l
        BY <2>5, <2>9, <4>1
      <4>2. CASE ~(at + 1 <= l)
        BY <2>5, <3>1, <4>2
      <4> QED
        BY <4>1, <4>2
    <3>4. Len(From(s, p + at)) = l - at
      <4>1. CASE p + at <= Len(s)
        BY <2>6, <2>9, <4>1
      <4>2. CASE ~(p + at <= Len(s))
        BY <2>6, <3>2, <4>2
      <4> QED
        BY <4>1, <4>2
    <3> QED
      BY <2>9, <3>3, <3>4
  <2>8. \A i \in 1 .. l - at : From(tail, at + 1)[i] = From(s, p + at)[i]
    <3> SUFFICES ASSUME NEW i \in 1 .. l - at
                 PROVE  From(tail, at + 1)[i] = From(s, p + at)[i]
      OBVIOUS
    <3>1. at + 1 + i - 1 = at + i /\ at + i \in 1 .. Len(s) + 1 - p
          /\ p + (at + i) - 1 = p + at + i - 1
      BY <1>1, <1>2, <2>1
    <3>2. From(tail, at + 1)[i] = tail[at + i] /\ From(s, p + at)[i] = s[p + at + i - 1]
      BY <2>5, <2>6, <2>7, <3>1
    <3>3. tail[at + i] = s[p + (at + i) - 1]
      BY <1>2, <3>1
    <3> QED
      BY <3>1, <3>2, <3>3
  <2> QED
    BY <2>4, <2>5, <2>6, <2>7, <2>8, SeqEqual
<1>11. PartAt(s, c, p) \in Seq(S)
  <2>1. PartAt(s, c, p) = IF at = 0 THEN tail ELSE SubSeq(tail, 1, at - 1)
    BY DEF PartAt, tail
  <2>2. at # 0 => at - 1 \in Int /\ \A i \in 1 .. at - 1 : tail[i] \in S
    BY <1>3, <1>7
  <2>3. at # 0 => SubSeq(tail, 1, at - 1) \in Seq(S)
    BY <2>2, SubSeqProperties
  <2> QED
    BY <1>2, <2>1, <2>3
<1> QED
  BY <1>2, <1>7, <1>9, <1>10, <1>11 DEF tail

\* The parts that are not blank begin within the text.
LEMMA FilledWithin ==
    ASSUME NEW S, NEW s \in Seq(S), NEW c
    PROVE  Filled(s, c) \in SUBSET (1 .. Len(s)) /\ IsFiniteSet(Filled(s, c))
<1> DEFINE len == Len(s)
<1>1. len \in Nat
  BY LenProperties
<1>2. From(s, len + 1) = <<>>
  BY <1>1, SubSeqEmpty DEF From
<1>3. {k \in DOMAIN <<>> : <<>>[k] = c} = {} /\ {k \in DOMAIN <<>> : <<>>[k] # " "} = {}
  OBVIOUS
<1>4. IndexOf(<<>>, c) = 0 /\ Trim(<<>>) = <<>>
  BY <1>3 DEF IndexOf, Trim
<1>5. Trim(PartAt(s, c, len + 1)) = <<>>
  BY <1>2, <1>4 DEF PartAt
<1>6. len + 1 \notin Filled(s, c)
  BY <1>5 DEF Filled
<1>7. Filled(s, c) \in SUBSET (1 .. len + 1)
  BY DEF Filled, Starts
<1> HIDE DEF len
<1>8. Filled(s, c) \in SUBSET (1 .. len)
  BY <1>1, <1>6, <1>7
<1>9. IsFiniteSet(1 .. len)
  BY <1>1, FS_Interval
<1> QED
  BY <1>8, <1>9, FS_Subset DEF len

\* What is passed with the part that begins at p, and where the next one begins.
LEMMA PartPassed ==
    ASSUME NEW S, NEW s \in Seq(S), NEW c, NEW p \in Starts(s, c), From(s, p) # <<>>
    PROVE  LET tail == From(s, p)
               at == IndexOf(tail, c)
               behind == IF at = 0 THEN <<>> ELSE From(tail, at + 1)
               next == Len(s) + 1 - Len(behind)
           IN  /\ next \in 1 .. Len(s) + 1 /\ behind = From(s, next)
               /\ behind # <<>> => next \in Starts(s, c)
               /\ \A k \in Starts(s, c) : k <= Len(s) => (k < next <=> k < p \/ k = p)
               /\ p <= Len(s)
<1> DEFINE tail == From(s, p)
           at == IndexOf(tail, c)
           behind == IF at = 0 THEN <<>> ELSE From(tail, at + 1)
           len == Len(s)
           next == len + 1 - Len(behind)
<1>1. /\ tail \in Seq(S) /\ Len(tail) = Len(s) + 1 - p /\ at \in 0 .. Len(tail)
      /\ \A k \in Starts(s, c) : k > p => at # 0 /\ k >= p + at
      /\ at # 0 => /\ p + at \in Starts(s, c)
                   /\ From(tail, at + 1) = From(s, p + at)
  BY NextPart
<1>2. len \in Nat /\ p \in 1 .. len + 1 /\ \A k \in Starts(s, c) : k \in 1 .. len + 1
  BY LenProperties DEF Starts
<1>3. p <= len
  <2>1. Len(tail) # 0
    BY <1>1, EmptySeq
  <2> HIDE DEF tail, at
  <2> QED
    BY <1>1, <1>2, <2>1
<1>4. CASE at = 0
  <2>1. behind = <<>> /\ Len(behind) = 0
    BY <1>4
  <2> HIDE DEF behind
  <2>2. next = len + 1
    BY <1>2, <2>1
  <2>3. From(s, len + 1) = <<>>
    BY <1>2, SubSeqEmpty DEF From
  <2>4. \A k \in Starts(s, c) : k <= len => (k < next <=> k < p \/ k = p)
    <3> SUFFICES ASSUME NEW k \in Starts(s, c), k <= len PROVE k < next <=> k < p \/ k = p
      OBVIOUS
    <3>1. ~(k > p)
      BY <1>1, <1>4
    <3> HIDE DEF len, next
    <3> QED
      BY <1>2, <1>3, <2>2, <3>1
  <2>5. next \in 1 .. len + 1
    BY <1>2, <2>2
  <2> QED
    BY <1>3, <2>1, <2>2, <2>3, <2>4, <2>5 DEF behind
<1>5. CASE at # 0
  <2>1. behind = From(s, p + at) /\ p + at \in Starts(s, c)
    BY <1>1, <1>5
  <2>2. Len(behind) = Len(s) + 1 - (p + at)
    BY <2>1, NextPart
  <2> HIDE DEF behind, at, tail, len
  <2>3. p + at \in 1 .. len + 1 /\ p \in Nat /\ at \in Nat
    BY <1>1, <1>2, <2>1
  <2>4. next = p + at
    BY <1>2, <2>2, <2>3 DEF len
  <2> HIDE DEF next
  <2>5. \A k \in Starts(s, c) : k <= len => (k < next <=> k < p \/ k = p)
    <3> SUFFICES ASSUME NEW k \in Starts(s, c), k <= len PROVE k < next <=> k < p \/ k = p
      OBVIOUS
    <3>1. k > p => k >= p + at
      BY <1>1
    <3>2. k \in Nat
      BY <1>2
    <3> QED
      BY <1>5, <2>3, <2>4, <3>1, <3>2
  <2>6. next \in 1 .. len + 1 /\ behind = From(s, next) /\ next \in Starts(s, c)
    BY <2>1, <2>3, <2>4
  <2> QED
    BY <1>3, <2>5, <2>6 DEF behind, at, tail, len, next
<1> QED
  BY <1>4, <1>5

LEMMA IndexWithin ==
    ASSUME NEW S, NEW s \in Seq(S), NEW c
    PROVE  /\ IndexOf(s, c) \in Nat /\ IndexOf(s, c) \in 0 .. Len(s)
           /\ IndexOf(s, c) + 1 \in Nat /\ IndexOf(s, c) + 1 >= 1
           /\ IndexOf(s, c) # 0 => s[IndexOf(s, c)] = c
<1> DEFINE T == {k \in DOMAIN s : s[k] = c}
<1>1. Len(s) \in Nat /\ DOMAIN s = 1 .. Len(s)
  BY LenProperties
<1>2. T \in SUBSET (1 .. Len(s))
  BY <1>1
<1>3. T \in SUBSET Nat
  BY <1>1, <1>2
<1>4. T # {} => Min(T) \in T
  <2> HIDE DEF T
  <2> QED
    BY <1>3, LeastNumber
<1>5. IndexOf(s, c) = IF T = {} THEN 0 ELSE Min(T)
  BY DEF IndexOf
<1> QED
  BY <1>1, <1>2, <1>4, <1>5

LEMMA FromWithin ==
    ASSUME NEW S, NEW s \in Seq(S), NEW p \in Nat, p >= 1
    PROVE  From(s, p) \in Seq(S)
<1>1. p \in Int /\ Len(s) \in Int /\ \A i \in p .. Len(s) : s[i] \in S
  BY LenProperties, ElementOfSeq
<1> QED
  BY <1>1, SubSeqProperties DEF From

LEMMA WithinBound ==
    ASSUME NEW S, NEW s \in Seq(S), NEW c
    PROVE  \A k \in Filled(s, c) : /\ k \in Nat /\ Len(s) \in Nat
                                    /\ k <= Len(s) /\ k < Len(s) + 1
<1>1. Filled(s, c) \in SUBSET (1 .. Len(s)) /\ Len(s) \in Nat
  BY FilledWithin, LenProperties
<1> QED
  BY <1>1

LEMMA StartIsNumber ==
    ASSUME NEW S, NEW s \in Seq(S), NEW c
    PROVE  \A k \in Starts(s, c) : k \in Nat /\ k \in 1 .. Len(s) + 1
BY LenProperties DEF Starts

LEMMA NothingToTrim ==
    /\ Trim(<<>>) = <<>>
    /\ \A c : IndexOf(<<>>, c) = 0
<1>1. \A c : {k \in DOMAIN <<>> : <<>>[k] = c} = {} /\ {k \in DOMAIN <<>> : <<>>[k] # c} = {}
  OBVIOUS
<1> QED
  BY <1>1 DEF Trim, IndexOf

LEMMA AlongNothing ==
    ASSUME NEW g, NEW S \in SUBSET Nat, IsFiniteSet(S), Along(g, S) = <<>>
    PROVE  S = {}
<1>1. Ascending(S) \in Seq(S) /\ Len(Ascending(S)) = Cardinality(S)
  BY AscendingMembers
<1>2. DOMAIN Ascending(S) = {}
  BY DEF Along
<1>3. DOMAIN Ascending(S) = 1 .. Len(Ascending(S)) /\ Len(Ascending(S)) \in Nat
  BY <1>1, LenProperties
<1>4. Len(Ascending(S)) = 0
  BY <1>2, <1>3
<1> QED
  BY <1>1, <1>4, FS_EmptySet

\* What is behind the first c of a trimmed text is blank only if the text ends there.
LEMMA BehindIsBlank ==
    ASSUME NEW S, NEW u \in Seq(S), NEW c, IndexOf(Trim(u), c) # 0
    PROVE  /\ Trim(From(Trim(u), IndexOf(Trim(u), c) + 1)) \in Seq(S)
           /\ Trim(From(Trim(u), IndexOf(Trim(u), c) + 1)) = <<>>
                <=> IndexOf(Trim(u), c) = Len(Trim(u))
<1> DEFINE s == Trim(u)
           len == Len(s)
           at == IndexOf(s, c)
           v == From(s, at + 1)
<1>1. s \in Seq(S) /\ (s # <<>> => len \in Solid(s))
  BY TrimShape
<1> HIDE DEF s
<1>2. len \in Nat /\ DOMAIN s = 1 .. len /\ \A i \in 1 .. len : s[i] \in S
  BY <1>1, LenProperties, ElementOfSeq
<1>3. at \in 0 .. len /\ at # 0 /\ at + 1 \in Nat /\ at + 1 >= 1
  BY <1>1, IndexWithin DEF s
<1> HIDE DEF at
<1>4. v \in Seq(S)
  BY <1>1, <1>3, FromWithin
<1>5. CASE at = len
  <2>1. v = <<>>
    BY <1>2, <1>5, SubSeqEmpty DEF From
  <2>2. Trim(v) = <<>>
    BY <2>1, NothingToTrim
  <2>3. Trim(v) \in Seq(S)
    BY <1>4, TrimShape
  <2> QED
    BY <1>5, <2>2, <2>3 DEF s, at
<1>6. CASE at # len
  <2> HIDE DEF len, v
  <2>1. len >= 1 /\ at + 1 <= len /\ at \in Nat
    BY <1>2, <1>3, <1>6
  <2>2. len \in 1 .. len
    BY <1>2, <2>1
  <2>17. s # <<>>
    BY <1>2, <2>2
  <2>18. s[len] # " "
    BY <1>1, <2>17 DEF Solid
  <2>19. \A i \in at + 1 .. len : i \in 1 .. len
    BY <1>2, <2>1
  <2>3. at + 1 \in Int /\ len \in Int /\ at + 1 <= len /\ \A i \in at + 1 .. len : s[i] \in S
    BY <1>2, <2>1, <2>19
  <2>4. Len(v) = len - (at + 1) + 1 /\ \A i \in 1 .. len - (at + 1) + 1 : v[i] = s[at + 1 + i - 1]
    BY <2>3, SubSeqProperties DEF From, v, len
  <2>5. len - at \in 1 .. len - (at + 1) + 1 /\ at + 1 + (len - at) - 1 = len /\ len - (at + 1) + 1 = len - at
    BY <1>2, <2>1
  <2>6. v[len - at] = s[len] /\ Len(v) = len - at
    BY <2>4, <2>5
  <2>7. DOMAIN v = 1 .. len - at
    BY <1>4, <2>6, LenProperties
  <2>8. len - at \in Solid(v)
    BY <2>5, <2>6, <2>7, <2>18 DEF Solid
  <2>9. /\ Min(Solid(v)) \in 1 .. Len(v) /\ Max(Solid(v)) \in 1 .. Len(v)
        /\ Min(Solid(v)) <= Max(Solid(v))
    BY <1>4, <2>8, SolidEnds
  <2> DEFINE lo == Min(Solid(v))
             hi == Max(Solid(v))
  <2>10. Trim(v) = SubSeq(v, lo, hi)
    BY <2>8 DEF Trim, Solid
  <2> HIDE DEF lo, hi
  <2>11. Len(v) \in Nat /\ \A i \in 1 .. Len(v) : v[i] \in S
    BY <1>4, LenProperties, ElementOfSeq
  <2>12. lo \in Int /\ hi \in Int /\ lo <= hi /\ \A i \in lo .. hi : v[i] \in S
    BY <2>9, <2>11 DEF lo, hi
  <2>13. Len(Trim(v)) = hi - lo + 1
    BY <2>10, <2>12, SubSeqProperties
  <2>14. Len(Trim(v)) # 0
    BY <2>12, <2>13
  <2>15. Trim(v) # <<>>
    BY <2>14
  <2>16. Trim(v) \in Seq(S)
    BY <1>4, TrimShape
  <2> QED
    BY <1>6, <2>15, <2>16 DEF s, at, v, len
<1> QED
  BY <1>5, <1>6

----------------------------------------------------------------------------
(* The rules of X-Model-Map                                                *)

\* A part of the header that is a rule.
GoodAt(k) == ValidToken(NameAt(k)) /\ ValidToken(TargetAt(k))

\* Where the parsing is, and the parts it has passed.
Here == Len(header) + 1 - Len(raw)
Passed == {k \in Filled(header, ";") : k < Here}

\* The header by the rule, if all of it is good.
HeaderFits ==
    /\ Filled(header, ";") # {} /\ \A k \in Filled(header, ";") : GoodAt(k)
    /\ table = "header" => rules = HeaderRules

MapInv ==
    /\ pc \in {"wait", "parse", "build", "exact", "refused", "wild", "done"}
    /\ pc = "wait" => table = "header" /\ raw = header /\ rules = NoRules /\ invalid = <<>>
    /\ pc = "parse" => /\ table = "header" /\ invalid \in Seq(Seq(STRING))
                       /\ Here \in 1 .. Len(header) + 1 /\ raw = From(header, Here)
                       /\ raw # <<>> => Here \in Starts(header, ";")
                       /\ rules = RulesAt({k \in Passed : GoodAt(k)})
                       /\ invalid = <<>> => \A k \in Passed : GoodAt(k)
    /\ pc \notin {"wait", "parse"} /\ invalid = <<>> /\ Trim(header) # <<>> => HeaderFits
    /\ pc \in {"exact", "wild"} => invalid = <<>>

\* What is bad is noted, for MaxInvalid is not 0.
LEMMA BadIsNoted ==
    ASSUME invalid \in Seq(Seq(STRING)), NEW seg \in Seq(STRING)
    PROVE  Bad(seg) \in Seq(Seq(STRING)) /\ Bad(seg) # <<>>
<1>1. CASE Len(invalid) >= MaxInvalid
  <2>1. invalid # <<>>
    BY <1>1, MapAssumption
  <2> QED
    BY <1>1, <2>1 DEF Bad
<1>2. CASE ~(Len(invalid) >= MaxInvalid)
  BY <1>2, AppendProperties DEF Bad
<1> QED
  BY <1>1, <1>2

LEMMA SegmentIs ==
    ASSUME header \in Seq(STRING), NEW k \in Starts(header, ";")
    PROVE  SegAt(k) \in Seq(STRING) /\ TargetAt(k) \in Seq(STRING)
<1>1. PartAt(header, ";", k) \in Seq(STRING)
  BY NextPart
<1>2. SegAt(k) \in Seq(STRING)
  BY <1>1, TrimShape DEF SegAt
<1> DEFINE s == SegAt(k)
           p == IndexOf(s, ":") + 1
<1>3. p \in Nat /\ p >= 1
  <2> HIDE DEF s
  <2> QED
    BY <1>2, IndexWithin DEF s
<1>4. From(s, p) \in Seq(STRING)
  <2> HIDE DEF s, p
  <2> QED
    BY <1>2, <1>3, FromWithin DEF s
<1>5. Trim(From(s, p)) \in Seq(STRING)
  BY <1>4, TrimShape
<1> QED
  BY <1>2, <1>5 DEF TargetAt

\* What the parsing of one more part does to the rules is what the rules of one
\* more part are.
LEMMA OneRuleMore ==
    ASSUME NEW S \in SUBSET Nat, IsFiniteSet(S), NEW x \in Nat, \A k \in S : k < x,
           \A k \in S \cup {x} : TargetAt(k) \in Seq(STRING)
    PROVE  RulesAt(S \cup {x}) =
              [r \in DOMAIN RulesAt(S) \cup {NameAt(x)} |->
                  IF r # NameAt(x) THEN RulesAt(S)[r]
                  ELSE IF r \in DOMAIN RulesAt(S) THEN Append(RulesAt(S)[r], TargetAt(x))
                  ELSE <<TargetAt(x)>>]
<1> DEFINE g == [k \in Nat |-> IF k \in S \cup {x} THEN TargetAt(k) ELSE <<>>]
           Of(U, r) == {k \in U : NameAt(k) = r}
<1>1. g \in [Nat -> Seq(STRING)]
  BY EmptySeq
<1>2. \A U \in SUBSET (S \cup {x}) : IsFiniteSet(U) /\ U \in SUBSET Nat
  <2>1. IsFiniteSet(S \cup {x})
    BY FS_AddElement
  <2> QED
    BY <2>1, FS_Subset
<1>3. \A U \in SUBSET (S \cup {x}) :
         [m \in DOMAIN Ascending(U) |-> TargetAt(Ascending(U)[m])] = Along(g, U)
  <2> SUFFICES ASSUME NEW U \in SUBSET (S \cup {x})
               PROVE  [m \in DOMAIN Ascending(U) |-> TargetAt(Ascending(U)[m])] = Along(g, U)
    OBVIOUS
  <2>1. Ascending(U) \in Seq(U)
    BY <1>2, AscendingMembers
  <2>2. \A m \in DOMAIN Ascending(U) : Ascending(U)[m] \in U
    BY <2>1, LenProperties, ElementOfSeq
  <2>3. \A m \in DOMAIN Ascending(U) : TargetAt(Ascending(U)[m]) = g[Ascending(U)[m]]
    BY <2>2
  <2> HIDE DEF g
  <2> QED
    BY <2>3 DEF Along
<1> HIDE DEF g
<1>4. \A U \in SUBSET (S \cup {x}) : RulesAt(U) = [r \in {NameAt(k) : k \in U} |-> Along(g, Of(U, r))]
  <2> SUFFICES ASSUME NEW U \in SUBSET (S \cup {x})
               PROVE  RulesAt(U) = [r \in {NameAt(k) : k \in U} |-> Along(g, Of(U, r))]
    OBVIOUS
  <2>1. \A r : Of(U, r) \in SUBSET (S \cup {x})
    OBVIOUS
  <2>2. \A r : [m \in DOMAIN Ascending(Of(U, r)) |-> TargetAt(Ascending(Of(U, r))[m])]
                 = Along(g, Of(U, r))
    <3> HIDE DEF Of
    <3> QED
      BY <1>3, <2>1
  <2> QED
    BY <2>2 DEF RulesAt
<1>5. g[x] = TargetAt(x)
  BY DEF g
<1>6. S \in SUBSET (S \cup {x}) /\ S \cup {x} \in SUBSET (S \cup {x})
  OBVIOUS
<1> DEFINE R == S \cup {x}
           q == NameAt(x)
<1>7. {NameAt(k) : k \in R} = {NameAt(k) : k \in S} \cup {q}
  OBVIOUS
<1>8. \A r : r # q => Of(R, r) = Of(S, r)
  OBVIOUS
<1>9. Of(R, q) = Of(S, q) \cup {x}
  OBVIOUS
<1>10. Along(g, Of(R, q)) = Append(Along(g, Of(S, q)), TargetAt(x))
  <2>1. Of(S, q) \in SUBSET S
    OBVIOUS
  <2> HIDE DEF Of
  <2>2. Of(S, q) \in SUBSET Nat /\ IsFiniteSet(Of(S, q)) /\ \A k \in Of(S, q) : k < x
    BY <1>2, <2>1
  <2> DEFINE U == Of(S, q)
  <2> HIDE DEF U
  <2>3. U \in SUBSET Nat /\ IsFiniteSet(U) /\ \A k \in U : k < x
    BY <2>2 DEF U
  <2>4. Along(g, U \cup {x}) = Append(Along(g, U), g[x])
    BY <1>1, <2>3, AlongOneMore
  <2> QED
    BY <1>5, <1>9, <2>4 DEF U
<1>11. q \notin {NameAt(k) : k \in S} => Along(g, Of(R, q)) = <<TargetAt(x)>>
  <2> SUFFICES ASSUME q \notin {NameAt(k) : k \in S}
               PROVE  Along(g, Of(R, q)) = <<TargetAt(x)>>
    OBVIOUS
  <2>1. Of(S, q) = {}
    OBVIOUS
  <2>2. Along(g, Of(S, q)) = <<>>
    BY <2>1, AlongNone
  <2>3. Append(<<>>, TargetAt(x)) = <<TargetAt(x)>>
    OBVIOUS
  <2> QED
    BY <1>10, <2>2, <2>3
<1>12. /\ RulesAt(R) = [r \in {NameAt(k) : k \in S} \cup {q} |-> Along(g, Of(R, r))]
       /\ RulesAt(S) = [r \in {NameAt(k) : k \in S} |-> Along(g, Of(S, r))]
  BY <1>4, <1>6, <1>7
<1> HIDE DEF Of, R, q
<1>13. RulesAt(R) =
         [r \in DOMAIN RulesAt(S) \cup {q} |->
             IF r # q THEN RulesAt(S)[r]
             ELSE IF r \in DOMAIN RulesAt(S) THEN Append(RulesAt(S)[r], TargetAt(x))
             ELSE <<TargetAt(x)>>]
  <2>1. DOMAIN RulesAt(S) = {NameAt(k) : k \in S}
    BY <1>12
  <2>2. \A r \in {NameAt(k) : k \in S} \cup {q} :
           Along(g, Of(R, r)) =
             IF r # q THEN RulesAt(S)[r]
             ELSE IF r \in DOMAIN RulesAt(S) THEN Append(RulesAt(S)[r], TargetAt(x))
             ELSE <<TargetAt(x)>>
    <3> SUFFICES ASSUME NEW r \in {NameAt(k) : k \in S} \cup {q}
                 PROVE  Along(g, Of(R, r)) =
                          IF r # q THEN RulesAt(S)[r]
                          ELSE IF r \in DOMAIN RulesAt(S) THEN Append(RulesAt(S)[r], TargetAt(x))
                          ELSE <<TargetAt(x)>>
      OBVIOUS
    <3>1. CASE r # q
      <4>1. r \in {NameAt(k) : k \in S}
        BY <3>1
      <4>2. RulesAt(S)[r] = Along(g, Of(S, r))
        BY <1>12, <4>1
      <4> QED
        BY <1>8, <3>1, <4>2
    <3>2. CASE r = q /\ r \in {NameAt(k) : k \in S}
      <4>1. RulesAt(S)[r] = Along(g, Of(S, r))
        BY <1>12, <3>2
      <4> QED
        BY <1>10, <2>1, <3>2, <4>1
    <3>3. CASE r = q /\ r \notin {NameAt(k) : k \in S}
      BY <1>11, <2>1, <3>3
    <3> QED
      BY <3>1, <3>2, <3>3
  <2> QED
    BY <1>12, <2>1, <2>2
<1> QED
  BY <1>13 DEF R, q

\* Where the parsing is next, and what it has passed there.
LEMMA SegmentPassed ==
    ASSUME header \in Seq(STRING), Here \in Starts(header, ";"), raw = From(header, Here),
           raw # <<>>, UNCHANGED header,
           raw' = IF IndexOf(raw, ";") = 0 THEN <<>> ELSE From(raw, IndexOf(raw, ";") + 1)
    PROVE  /\ Here' \in 1 .. Len(header) + 1 /\ raw' = From(header, Here')
           /\ raw' # <<>> => Here' \in Starts(header, ";")
           /\ Passed' = Passed \cup (IF SegAt(Here) = <<>> THEN {} ELSE {Here})
           /\ SegAt(Here) = Trim(IF IndexOf(raw, ";") = 0 THEN raw
                                 ELSE SubSeq(raw, 1, IndexOf(raw, ";") - 1))
<1> DEFINE p == Here
           next == Len(header) + 1 - Len(raw')
<1>1. Here' = next
  BY DEF Here
<1> HIDE DEF p
<1>2. p \in Starts(header, ";") /\ raw = From(header, p)
  BY DEF p
<1>3. /\ next \in 1 .. Len(header) + 1 /\ raw' = From(header, next)
      /\ raw' # <<>> => next \in Starts(header, ";")
      /\ \A k \in Starts(header, ";") : k <= Len(header) => (k < next <=> k < p \/ k = p)
      /\ p <= Len(header)
  <2> DEFINE tail == From(header, p)
             at == IndexOf(tail, ";")
             behind == IF at = 0 THEN <<>> ELSE From(tail, at + 1)
             to == Len(header) + 1 - Len(behind)
  <2>1. /\ to \in 1 .. Len(header) + 1 /\ behind = From(header, to)
        /\ behind # <<>> => to \in Starts(header, ";")
        /\ \A k \in Starts(header, ";") : k <= Len(header) => (k < to <=> k < p \/ k = p)
        /\ p <= Len(header)
    BY <1>2, PartPassed
  <2>2. behind = raw'
    BY <1>2
  <2>3. to = next
    BY <2>2
  <2> HIDE DEF behind, to, next
  <2> QED
    BY <2>1, <2>2, <2>3
<1>4. SegAt(p) = Trim(IF IndexOf(raw, ";") = 0 THEN raw
                      ELSE SubSeq(raw, 1, IndexOf(raw, ";") - 1))
  BY <1>2 DEF SegAt, PartAt
<1>5. Filled(header, ";")' = Filled(header, ";")
  BY DEF Filled, Starts, PartAt
<1>6. Passed' = {k \in Filled(header, ";") : k < next}
  BY <1>1, <1>5 DEF Passed
<1>7. \A k \in Filled(header, ";") : k \in Starts(header, ";") /\ k <= Len(header)
  <2>1. \A k \in Filled(header, ";") : k \in Starts(header, ";")
    BY DEF Filled
  <2>2. \A k \in Filled(header, ";") : k <= Len(header)
    BY WithinBound
  <2> QED
    BY <2>1, <2>2
<1> HIDE DEF next
<1>8. \A k \in Filled(header, ";") : k < next <=> k < p \/ k = p
  BY <1>3, <1>7
<1>9. p \in Filled(header, ";") <=> SegAt(p) # <<>>
  BY <1>2 DEF Filled, SegAt
<1>10. Passed = {k \in Filled(header, ";") : k < p}
  BY DEF Passed, p
<1>11. Passed' = Passed \cup (IF SegAt(p) = <<>> THEN {} ELSE {p})
  BY <1>6, <1>8, <1>9, <1>10
<1> QED
  BY <1>1, <1>3, <1>4, <1>11 DEF p

\* Nothing of the header's parts changes with it the same.
LEMMA HeaderStays ==
    ASSUME UNCHANGED header
    PROVE  /\ Filled(header, ";")' = Filled(header, ";")
           /\ \A S : RulesAt(S)' = RulesAt(S)
           /\ \A k : GoodAt(k)' = GoodAt(k)
           /\ HeaderRules' = HeaderRules
<1>1. Filled(header, ";")' = Filled(header, ";")
  BY DEF Filled, Starts, PartAt
<1>2. \A k : NameAt(k)' = NameAt(k) /\ TargetAt(k)' = TargetAt(k)
  BY DEF NameAt, TargetAt, SegAt
<1>3. \A S : RulesAt(S)' = RulesAt(S)
  BY DEF RulesAt, NameAt, TargetAt, SegAt
<1>4. \A k : GoodAt(k)' = GoodAt(k)
  BY DEF GoodAt, NameAt, TargetAt, SegAt
<1>5. HeaderRules' = HeaderRules
  BY <1>1 DEF HeaderRules, RulesAt, NameAt, TargetAt, SegAt
<1> QED
  BY <1>1, <1>3, <1>4, <1>5

LEMMA WholeFrom ==
    ASSUME NEW S, NEW s \in Seq(S), NEW c
    PROVE  /\ Len(s) + 1 - Len(s) = 1 /\ 1 \in 1 .. Len(s) + 1 /\ s = From(s, 1)
           /\ 1 \in Starts(s, c) /\ ~ \E k \in Starts(s, c) : k < 1
<1>1. Len(s) \in Nat
  BY LenProperties
<1>2. 1 \in 1 .. Len(s) + 1 /\ Len(s) + 1 - Len(s) = 1
  BY <1>1
<1>3. 1 \in Starts(s, c)
  BY <1>2 DEF Starts
<1> QED
  BY <1>2, <1>3, StartIsNumber, SubSeqFull DEF From

\* rewrite takes up the header.
LEMMA ParseBegins ==
    ASSUME header \in Seq(STRING), MapInv, pc = "wait", pc' = "parse",
           UNCHANGED <<header, table, raw, rules, invalid>>
    PROVE  MapInv'
<1>1. table = "header" /\ raw = header /\ rules = NoRules /\ invalid = <<>>
  BY DEF MapInv
<1>2. Here' = 1 /\ 1 \in 1 .. Len(header) + 1 /\ header = From(header, 1)
      /\ 1 \in Starts(header, ";")
  BY <1>1, WholeFrom DEF Here
<1>3. Passed' = {}
  <2>1. \A k \in Filled(header, ";") : ~(k < 1)
    BY WholeFrom DEF Filled
  <2>2. Passed' = {k \in Filled(header, ";") : k < 1}
    BY <1>2, HeaderStays DEF Passed
  <2> QED
    BY <2>1, <2>2
<1>4. RulesAt({}) = NoRules
  BY DEF RulesAt, NoRules
<1>5. rules' = RulesAt({k \in Passed' : GoodAt(k)'})
  BY <1>1, <1>3, <1>4
<1>6. Starts(header, ";")' = Starts(header, ";")
  BY DEF Starts
<1>7. invalid' \in Seq(Seq(STRING))
  BY <1>1, EmptySeq
<1> QED
  BY <1>1, <1>2, <1>3, <1>5, <1>6, <1>7, HeaderStays DEF MapInv

LEMMA MapStep ==
    ASSUME header \in Seq(STRING), MapInv, MapNext
    PROVE  MapInv'
<1>0. header' = header
  BY DEF MapNext, NoHeader, ParseSegment, EndParse, Build, LookupExact, NotExact, LookupWild,
         LookupFallback, HeaderMiss, UseStatic, Answer, given
<1>h. /\ Filled(header, ";")' = Filled(header, ";")
      /\ \A S : RulesAt(S)' = RulesAt(S)
      /\ \A k : GoodAt(k)' = GoodAt(k)
      /\ HeaderRules' = HeaderRules
  BY <1>0, HeaderStays
<1>f. Filled(header, ";") \in SUBSET Nat /\ IsFiniteSet(Filled(header, ";"))
      /\ \A k \in Filled(header, ";") : k <= Len(header)
  BY WithinBound, FilledWithin
\* What is behind the parsing: the header stays as it fits, and so do the rules.
<1>s. ASSUME invalid' = invalid, pc \notin {"wait", "parse"}, 
             table' = "header" => table = "header" /\ rules' = rules,
             pc' \notin {"wait", "parse"}, pc' \in {"build", "exact", "refused", "wild", "done"},
             pc' \in {"exact", "wild"} => invalid = <<>>
      PROVE  MapInv'
  <2>1. invalid = <<>> /\ Trim(header) # <<>> => HeaderFits
    BY <1>s DEF MapInv
  <2>2. HeaderFits => HeaderFits'
    BY <1>h, <1>s DEF HeaderFits
  <2> QED
    BY <1>0, <1>s, <2>1, <2>2 DEF MapInv
<1>1. CASE NoHeader
  <2>1. Trim(header) = <<>> /\ pc' = "build"
    BY <1>1 DEF NoHeader, UseStatic
  <2> QED
    BY <1>0, <2>1 DEF MapInv
<1>2. CASE ParseSegment
  <2> DEFINE p == Here
             good == GoodAt(p)
  <2>1. /\ pc = "parse" /\ pc' = pc /\ table' = table /\ raw # <<>>
        /\ raw' = IF IndexOf(raw, ";") = 0 THEN <<>> ELSE From(raw, IndexOf(raw, ";") + 1)
    BY <1>2 DEF ParseSegment
  <2>2. /\ table = "header" /\ invalid \in Seq(Seq(STRING))
        /\ raw = From(header, p) /\ p \in Starts(header, ";")
        /\ rules = RulesAt({k \in Passed : GoodAt(k)})
        /\ invalid = <<>> => \A k \in Passed : GoodAt(k)
    BY <2>1 DEF MapInv
  <2>3. /\ Here' \in 1 .. Len(header) + 1 /\ raw' = From(header, Here')
        /\ raw' # <<>> => Here' \in Starts(header, ";")
        /\ Passed' = Passed \cup (IF SegAt(p) = <<>> THEN {} ELSE {p})
        /\ SegAt(p) = Trim(IF IndexOf(raw, ";") = 0 THEN raw
                           ELSE SubSeq(raw, 1, IndexOf(raw, ";") - 1))
    BY <1>0, <2>1, <2>2, SegmentPassed
  <2> DEFINE seg == SegAt(p)
  <2>4. seg \in Seq(STRING) /\ TargetAt(p) \in Seq(STRING)
    BY <2>2, SegmentIs
  <2>5. IndexOf(seg, ":") = 0 => ~good
    <3> SUFFICES ASSUME IndexOf(seg, ":") = 0 PROVE ~ValidToken(NameAt(p))
      BY DEF GoodAt
    <3>1. NameAt(p) = Trim(SubSeq(seg, 1, 0 - 1))
      BY DEF NameAt
    <3>2. SubSeq(seg, 1, 0 - 1) = <<>>
      BY SubSeqEmpty
    <3>3. NameAt(p) = <<>>
      BY <3>1, <3>2, NothingToTrim
    <3> QED
      BY <3>3 DEF ValidToken
  <2>6. seg = <<>> => ~good
    BY <2>5, NothingToTrim
  <2>7. /\ rules' = IF good
                    THEN [r \in DOMAIN rules \cup {NameAt(p)} |->
                             IF r # NameAt(p) THEN rules[r]
                             ELSE IF r \in DOMAIN rules
                             THEN Append(rules[r], TargetAt(p)) ELSE <<TargetAt(p)>>]
                    ELSE rules
        /\ invalid' = IF good \/ seg = <<>> THEN invalid ELSE Bad(seg)
    <3> DEFINE semi == IndexOf(raw, ";")
               sg == Trim(IF semi = 0 THEN raw ELSE SubSeq(raw, 1, semi - 1))
               colon == IndexOf(sg, ":")
               pub == Trim(SubSeq(sg, 1, colon - 1))
               up == Trim(From(sg, colon + 1))
               ok == colon > 0 /\ ValidToken(pub) /\ ValidToken(up)
    <3>1. /\ rules' = IF ok
                      THEN [r \in DOMAIN rules \cup {pub} |->
                               IF r # pub THEN rules[r]
                               ELSE IF r \in DOMAIN rules
                               THEN Append(rules[r], up) ELSE <<up>>]
                      ELSE rules
          /\ invalid' = IF ok \/ sg = <<>> THEN invalid ELSE Bad(sg)
      BY <1>2 DEF ParseSegment
    <3>2. sg = seg
      BY <2>3
    <3>3. pub = NameAt(p) /\ up = TargetAt(p)
      BY <3>2 DEF NameAt, TargetAt
    <3>4. colon \in Nat
      BY <2>4, <3>2, IndexWithin
    <3>5. colon > 0 <=> colon # 0
      <4> HIDE DEF colon
      <4> QED
        BY <3>4
    <3>6. colon = 0 => ~good
      BY <2>5, <3>2
    <3>7. good <=> ValidToken(pub) /\ ValidToken(up)
      BY <3>3 DEF GoodAt
    <3> HIDE DEF sg, pub, up, colon, good, seg
    <3>8. ok <=> good
      BY <3>5, <3>6, <3>7
    <3> HIDE DEF ok
    <3> QED
      BY <3>1, <3>2, <3>3, <3>8
  <2>8. p \in Nat /\ \A k \in Passed : k \in Nat /\ k < p
    <3>1. p \in Nat
      BY <2>2, StartIsNumber
    <3>2. \A k \in Passed : k \in Nat /\ k < p
      BY <1>f DEF Passed
    <3> QED
      BY <3>1, <3>2
  <2> DEFINE G == {k \in Passed : GoodAt(k)}
  <2>9. {k \in Passed' : GoodAt(k)'} = IF good THEN G \cup {p} ELSE G
    BY <1>h, <2>3, <2>6
  <2>10. /\ G \in SUBSET Nat /\ IsFiniteSet(G) /\ \A k \in G : k < p
         /\ \A k \in G \cup {p} : TargetAt(k) \in Seq(STRING)
    <3>1. G \in SUBSET Filled(header, ";")
      BY DEF Passed
    <3>2. IsFiniteSet(G)
      BY <1>f, <3>1, FS_Subset
    <3>3. \A k \in G : k \in Starts(header, ";")
      BY <3>1 DEF Filled
    <3>4. \A k \in G \cup {p} : TargetAt(k) \in Seq(STRING)
      BY <2>4, <3>3, SegmentIs
    <3> QED
      BY <2>8, <3>2, <3>4
  <2> HIDE DEF p, G, good, seg
  <2>11. rules' = RulesAt({k \in Passed' : GoodAt(k)'})
    <3>1. CASE good
      <4>1. RulesAt(G \cup {p}) =
              [r \in DOMAIN RulesAt(G) \cup {NameAt(p)} |->
                  IF r # NameAt(p) THEN RulesAt(G)[r]
                  ELSE IF r \in DOMAIN RulesAt(G) THEN Append(RulesAt(G)[r], TargetAt(p))
                  ELSE <<TargetAt(p)>>]
        BY <2>8, <2>10, OneRuleMore
      <4>2. rules = RulesAt(G)
        BY <2>2 DEF G
      <4> QED
        BY <2>7, <2>9, <3>1, <4>1, <4>2
    <3>2. CASE ~good
      BY <2>2, <2>7, <2>9, <3>2 DEF G
    <3> QED
      BY <3>1, <3>2
  <2>12. invalid' \in Seq(Seq(STRING)) /\ (invalid' = <<>> => \A k \in Passed' : GoodAt(k)')
    <3>1. CASE good \/ seg = <<>>
      <4>1. invalid' = invalid
        BY <2>7, <3>1
      <4>2. \A k \in Passed' : k \in Passed \/ GoodAt(k)
        BY <2>3, <3>1 DEF good, seg
      <4> QED
        BY <1>h, <2>2, <4>1, <4>2
    <3>2. CASE ~(good \/ seg = <<>>)
      <4>1. invalid' = Bad(seg)
        BY <2>7, <3>2
      <4>2. Bad(seg) \in Seq(Seq(STRING)) /\ Bad(seg) # <<>>
        BY <2>2, <2>4, BadIsNoted DEF seg
      <4> QED
        BY <4>1, <4>2
    <3> QED
      BY <3>1, <3>2
  <2> QED
    BY <1>0, <1>h, <2>1, <2>2, <2>3, <2>11, <2>12 DEF MapInv
<1>3. CASE EndParse
  <2>1. /\ pc = "parse" /\ pc' = "build" /\ table' = table /\ raw = <<>> /\ rules' = rules
        /\ invalid' = IF DOMAIN rules = {} /\ invalid = <<>> THEN Bad(Trim(header)) ELSE invalid
    BY <1>3 DEF EndParse
  <2>2. /\ table = "header" /\ invalid \in Seq(Seq(STRING))
        /\ rules = RulesAt({k \in Passed : GoodAt(k)})
        /\ invalid = <<>> => \A k \in Passed : GoodAt(k)
    BY <2>1 DEF MapInv
  <2>3. Passed = Filled(header, ";")
    <3>1. Here = Len(header) + 1 - 0
      BY <2>1 DEF Here
    <3>2. \A k \in Filled(header, ";") : k < Len(header) + 1 /\ Len(header) \in Nat
      BY WithinBound
    <3>3. \A i \in Nat : i + 1 - 0 = i + 1
      OBVIOUS
    <3>4. \A k \in Filled(header, ";") : k < Here
      BY <3>1, <3>2, <3>3
    <3> QED
      BY <3>4 DEF Passed
  <2>4. invalid' = <<>> => invalid = <<>> /\ DOMAIN rules # {}
    <3>1. Bad(Trim(header)) # <<>>
      BY <2>2, TrimShape, BadIsNoted
    <3> QED
      BY <2>1, <3>1
  <2>5. invalid' = <<>> => HeaderFits'
    <3> SUFFICES ASSUME invalid' = <<>> PROVE HeaderFits'
      OBVIOUS
    <3>1. \A k \in Filled(header, ";") : GoodAt(k)
      BY <2>2, <2>3, <2>4
    <3>2. {k \in Passed : GoodAt(k)} = Filled(header, ";")
      BY <2>3, <3>1
    <3>3. rules = HeaderRules
      BY <2>2, <3>2 DEF HeaderRules
    <3>4. DOMAIN HeaderRules = {NameAt(k) : k \in Filled(header, ";")}
      BY DEF HeaderRules, RulesAt
    <3>5. Filled(header, ";") # {}
      BY <2>4, <3>3, <3>4
    <3> QED
      BY <1>h, <2>1, <3>1, <3>3, <3>5 DEF HeaderFits
  <2> QED
    BY <2>1, <2>5 DEF MapInv
<1>4. CASE Build
  <2>1. /\ pc = "build" /\ pc' = IF invalid = <<>> THEN "exact" ELSE "refused"
        /\ invalid' = invalid /\ rules' = rules /\ table' = table
    BY <1>4 DEF Build
  <2> QED
    BY <1>s, <2>1
<1>5. CASE LookupExact
  <2>1. pc = "exact" /\ pc' = "done" /\ invalid' = invalid /\ rules' = rules /\ table' = table
    BY <1>5 DEF LookupExact, Answer
  <2> QED
    BY <1>s, <2>1
<1>6. CASE NotExact
  <2>1. pc = "exact" /\ pc' = "wild" /\ invalid' = invalid /\ rules' = rules /\ table' = table
    BY <1>6 DEF NotExact
  <2>2. invalid = <<>>
    BY <2>1 DEF MapInv
  <2> QED
    BY <1>s, <2>1, <2>2
<1>7. CASE LookupWild
  <2>1. pc = "wild" /\ pc' \in {"wild", "done"} /\ invalid' = invalid /\ rules' = rules
        /\ table' = table
    BY <1>7 DEF LookupWild, Answer
  <2>2. invalid = <<>>
    BY <2>1 DEF MapInv
  <2> QED
    BY <1>s, <2>1, <2>2
<1>8. CASE LookupFallback
  <2>1. pc = "wild" /\ pc' = "done" /\ invalid' = invalid /\ rules' = rules /\ table' = table
    BY <1>8 DEF LookupFallback, Answer
  <2> QED
    BY <1>s, <2>1
<1>9. CASE HeaderMiss
  <2>1. pc = "wild" /\ pc' = "build" /\ invalid' = invalid /\ table' = "static"
    BY <1>9 DEF HeaderMiss, UseStatic
  <2> QED
    BY <1>s, <2>1
<1> QED
  BY <1>1, <1>2, <1>3, <1>4, <1>5, <1>6, <1>7, <1>8, <1>9 DEF MapNext

\* mapping.go:186-190, 228-234.
LEMMA NothingIsSwallowed ==
    ASSUME header \in Seq(STRING), MapInv
    PROVE  NothingSwallowed
<1> SUFFICES ASSUME pc = "exact", Trim(header) # <<>>
             PROVE  /\ HeaderRules # NoRules
                    /\ \A r \in DOMAIN HeaderRules :
                          ValidToken(r) /\ \A t \in ToSet(HeaderRules[r]) : ValidToken(t)
                    /\ table = "header" => rules = HeaderRules
  BY DEF NothingSwallowed
<1>1. HeaderFits
  BY DEF MapInv
<1> DEFINE F == Filled(header, ";")
           Of(r) == {k \in F : NameAt(k) = r}
<1>2. /\ HeaderRules = [r \in {NameAt(k) : k \in F} |->
                          [m \in DOMAIN Ascending(Of(r)) |-> TargetAt(Ascending(Of(r))[m])]]
  BY DEF HeaderRules, RulesAt
<1>3. F # {} /\ \A k \in F : GoodAt(k)
  BY <1>1 DEF HeaderFits
<1>4. HeaderRules # NoRules
  <2>1. DOMAIN HeaderRules # {}
    BY <1>2, <1>3
  <2>2. DOMAIN NoRules = {}
    BY DEF NoRules
  <2> QED
    BY <2>1, <2>2
<1>5. ASSUME NEW r \in DOMAIN HeaderRules
      PROVE  ValidToken(r) /\ \A t \in ToSet(HeaderRules[r]) : ValidToken(t)
  <2>1. ValidToken(r)
    BY <1>2, <1>3 DEF GoodAt
  <2>2. F \in SUBSET Nat /\ IsFiniteSet(F)
    BY WithinBound, FilledWithin
  <2>3. Of(r) \in SUBSET F
    OBVIOUS
  <2> HIDE DEF F, Of
  <2>4. Of(r) \in SUBSET Nat /\ IsFiniteSet(Of(r))
    BY <2>2, <2>3, FS_Subset
  <2>5. Ascending(Of(r)) \in Seq(Of(r))
    BY <2>4, AscendingMembers
  <2>6. \A m \in DOMAIN Ascending(Of(r)) : Ascending(Of(r))[m] \in Of(r)
    BY <2>5, LenProperties, ElementOfSeq
  <2>7. HeaderRules[r] = [m \in DOMAIN Ascending(Of(r)) |-> TargetAt(Ascending(Of(r))[m])]
    BY <1>2
  <2>8. \A t \in ToSet(HeaderRules[r]) : \E k \in Of(r) : t = TargetAt(k)
    BY <2>6, <2>7 DEF ToSet
  <2> QED
    BY <1>3, <2>1, <2>3, <2>8 DEF GoodAt
<1> QED
  BY <1>1, <1>4, <1>5 DEF HeaderFits

----------------------------------------------------------------------------
(* The declarations of capabilities                                        *)

PartOf(p) == Trim(PartAt(capHeader, ";", p))

\* What the parts of X-Model-Capability that begin at places declare for k.
DeclaringAt(k, places) == {p \in places : k \in KindsOf(PartOf(p))}
ModelsAt(k, places) == LET at == Ascending(DeclaringAt(k, places))
                       IN  [m \in DOMAIN at |-> ModelOf(PartOf(at[m]))]

\* Where the parsing is, and the parts it has passed.
CapHere == Len(capHeader) + 1 - Len(rest)
CapPassed == {p \in Starts(capHeader, ";") : p <= Len(capHeader) /\ p < CapHere}

CapInv ==
    /\ cpc = "wait" => rest = capHeader /\ caps = NoCaps
    /\ cpc = "parse" => /\ CapHere \in 1 .. Len(capHeader) + 1 /\ rest = From(capHeader, CapHere)
                        /\ rest # <<>> => CapHere \in Starts(capHeader, ";")
                        /\ caps = [k \in Kinds |-> ModelsAt(k, CapPassed)]
    /\ cpc \in {"detect", "scan", "done"} => DeclarationsSurvive

LEMMA StartsAreFinite ==
    ASSUME capHeader \in Seq(STRING)
    PROVE  IsFiniteSet(Starts(capHeader, ";"))
<1> DEFINE len == Len(capHeader)
<1>1. len \in Nat
  BY LenProperties
<1>2. Starts(capHeader, ";") \in SUBSET (1 .. len + 1)
  BY DEF Starts
<1> HIDE DEF len
<1>3. IsFiniteSet(1 .. len + 1)
  BY <1>1, FS_Interval
<1> QED
  BY <1>2, <1>3, FS_Subset

\* No models, no declarations.
LEMMA NothingDeclared ==
    ASSUME capHeader \in Seq(STRING), NEW S \in SUBSET Starts(capHeader, ";"), NEW k
    PROVE  ModelsAt(k, S) = <<>> <=> DeclaringAt(k, S) = {}
<1> DEFINE D == DeclaringAt(k, S)
<1>1. D \in SUBSET Starts(capHeader, ";")
  BY DEF DeclaringAt
<1> HIDE DEF D
<1>2. D \in SUBSET Nat /\ IsFiniteSet(D)
  BY <1>1, StartIsNumber, StartsAreFinite, FS_Subset
<1> DEFINE g == [q \in {Ascending(D)[m] : m \in DOMAIN Ascending(D)} |-> ModelOf(PartOf(q))]
<1>3. ModelsAt(k, S) = Along(g, D)
  BY DEF ModelsAt, Along, D
<1> HIDE DEF g
<1> QED
  BY <1>2, <1>3, AlongNone, AlongNothing DEF D

\* One more part.
LEMMA OnePartMore ==
    ASSUME capHeader \in Seq(STRING), NEW S \in SUBSET Starts(capHeader, ";"),
           IsFiniteSet(S), NEW p \in Starts(capHeader, ";"), \A q \in S : q < p,
           NEW k
    PROVE  ModelsAt(k, S \cup {p}) =
                IF k \in KindsOf(PartOf(p)) THEN Append(ModelsAt(k, S), ModelOf(PartOf(p)))
                ELSE ModelsAt(k, S)
<1> DEFINE g == [q \in Nat |-> IF q \in Starts(capHeader, ";") THEN ModelOf(PartOf(q)) ELSE <<>>]
           D == DeclaringAt(k, S)
<1>1. \A q \in Starts(capHeader, ";") : ModelOf(PartOf(q)) \in Seq(STRING)
  <2> SUFFICES ASSUME NEW q \in Starts(capHeader, ";") PROVE ModelOf(PartOf(q)) \in Seq(STRING)
    OBVIOUS
  <2>1. PartOf(q) \in Seq(STRING)
    BY NextPart, TrimShape DEF PartOf
  <2> DEFINE s == PartOf(q)
  <2> HIDE DEF s
  <2>2. IndexOf(s, ":") + 1 \in Nat /\ IndexOf(s, ":") + 1 >= 1
    BY <2>1, IndexWithin DEF s
  <2>3. From(s, IndexOf(s, ":") + 1) \in Seq(STRING)
    BY <2>1, <2>2, FromWithin DEF s
  <2>4. Trim(From(s, IndexOf(s, ":") + 1)) \in Seq(STRING)
    BY <2>3, TrimShape
  <2> QED
    BY <2>4 DEF ModelOf, s
<1>2. g \in [Nat -> Seq(STRING)]
  BY <1>1, EmptySeq
<1>3. \A q \in Starts(capHeader, ";") : q \in Nat
  BY StartIsNumber
<1>4. \A U \in SUBSET Starts(capHeader, ";") :
        IsFiniteSet(U) =>
         [m \in DOMAIN Ascending(U) |-> ModelOf(PartOf(Ascending(U)[m]))] = Along(g, U)
  <2> SUFFICES ASSUME NEW U \in SUBSET Starts(capHeader, ";"), IsFiniteSet(U)
               PROVE  [m \in DOMAIN Ascending(U) |-> ModelOf(PartOf(Ascending(U)[m]))] = Along(g, U)
    OBVIOUS
  <2>0. U \in SUBSET Nat
    BY <1>3
  <2>1. Ascending(U) \in Seq(U)
    BY <2>0, AscendingMembers
  <2>2. \A m \in DOMAIN Ascending(U) : Ascending(U)[m] \in U
    BY <2>1, LenProperties, ElementOfSeq
  <2>3. \A m \in DOMAIN Ascending(U) : ModelOf(PartOf(Ascending(U)[m])) = g[Ascending(U)[m]]
    BY <1>3, <2>2
  <2> HIDE DEF g
  <2> QED
    BY <2>3 DEF Along
<1>5. g[p] = ModelOf(PartOf(p))
  BY <1>3
<1>6. D \in SUBSET S /\ DeclaringAt(k, S \cup {p})
         = IF k \in KindsOf(PartOf(p)) THEN D \cup {p} ELSE D
  BY DEF DeclaringAt
<1> HIDE DEF g, D
<1>7. /\ IsFiniteSet(D) /\ IsFiniteSet(D \cup {p}) /\ D \in SUBSET Nat /\ p \in Nat
      /\ \A q \in D : q < p
      /\ D \in SUBSET Starts(capHeader, ";") /\ D \cup {p} \in SUBSET Starts(capHeader, ";")
  <2>1. IsFiniteSet(D) /\ IsFiniteSet(D \cup {p})
    BY <1>6, FS_Subset, FS_AddElement
  <2> QED
    BY <1>3, <1>6, <2>1
<1>8. /\ ModelsAt(k, S) = Along(g, D)
      /\ ModelsAt(k, S \cup {p}) = Along(g, DeclaringAt(k, S \cup {p}))
  <2>1. ModelsAt(k, S) = Along(g, D)
    BY <1>4, <1>7 DEF ModelsAt, D
  <2>2. ModelsAt(k, S \cup {p}) = Along(g, DeclaringAt(k, S \cup {p}))
    BY <1>4, <1>6, <1>7 DEF ModelsAt
  <2> QED
    BY <2>1, <2>2
<1>9. Along(g, D \cup {p}) = Append(Along(g, D), g[p])
  BY <1>2, <1>7, AlongOneMore
<1> QED
  BY <1>5, <1>6, <1>8, <1>9

\* KindsOf and ModelOf are what ParsePart finds in a part.
LEMMA PartDeclares ==
    ASSUME capHeader \in Seq(STRING), NEW p \in Starts(capHeader, ";")
    PROVE  LET seg == PartOf(p)
               colon == IndexOf(seg, ":")
               found == Trim(From(seg, colon + 1))
           IN  /\ found = ModelOf(seg)
               /\ KindsOf(seg) = IF colon = 0 \/ found = <<>> THEN {}
                                 ELSE ParseKind(SubSeq(seg, 1, colon - 1))
<1> DEFINE u == PartAt(capHeader, ";", p)
           seg == PartOf(p)
           colon == IndexOf(seg, ":")
           found == Trim(From(seg, colon + 1))
<1>1. u \in Seq(STRING)
  BY NextPart
<1>2. seg = Trim(u)
  BY DEF PartOf
<1> HIDE DEF u, seg
<1>3. colon # 0 => (found = <<>> <=> colon = Len(seg))
  BY <1>1, <1>2, BehindIsBlank
<1>4. KindsOf(seg) = IF colon \in {0, Len(seg)} THEN {} ELSE ParseKind(SubSeq(seg, 1, colon - 1))
  BY DEF KindsOf
<1>5. found = ModelOf(seg)
  BY DEF ModelOf
<1> HIDE DEF colon, found
<1>6. KindsOf(seg) = IF colon = 0 \/ found = <<>> THEN {}
                     ELSE ParseKind(SubSeq(seg, 1, colon - 1))
  BY <1>3, <1>4
<1> QED
  BY <1>5, <1>6 DEF seg, colon, found

\* A part at the very end declares nothing.
LEMMA LastDeclaresNothing ==
    ASSUME capHeader \in Seq(STRING)
    PROVE  \A p \in Starts(capHeader, ";") :
              ~(p <= Len(capHeader)) => \A k : k \notin KindsOf(PartOf(p))
<1> SUFFICES ASSUME NEW p \in Starts(capHeader, ";"), ~(p <= Len(capHeader)), NEW k
             PROVE  k \notin KindsOf(PartOf(p))
  OBVIOUS
<1>1. p \notin Filled(capHeader, ";")
  BY WithinBound
<1>2. PartOf(p) = <<>>
  BY <1>1 DEF Filled, PartOf
<1>3. IndexOf(<<>>, ":") = 0
  BY NothingToTrim
<1> QED
  BY <1>2, <1>3 DEF KindsOf

LEMMA PartsStay ==
    ASSUME UNCHANGED capHeader
    PROVE  /\ Starts(capHeader, ";")' = Starts(capHeader, ";")
           /\ \A k, S : ModelsAt(k, S)' = ModelsAt(k, S) /\ DeclaringAt(k, S)' = DeclaringAt(k, S)
           /\ DeclarationsSurvive' <=>
                IF \E k \in Kinds : DeclaringAt(k, Starts(capHeader, ";")) # {}
                THEN \A k \in Kinds : caps'[k] = ModelsAt(k, Starts(capHeader, ";"))
                ELSE caps' = capStatic'
BY DEF DeclarationsSurvive, DeclaringAt, ModelsAt, PartOf, Starts, PartAt

LEMMA SurviveMeans ==
    DeclarationsSurvive <=>
        IF \E k \in Kinds : DeclaringAt(k, Starts(capHeader, ";")) # {}
        THEN \A k \in Kinds : caps[k] = ModelsAt(k, Starts(capHeader, ";"))
        ELSE caps = capStatic
BY DEF DeclarationsSurvive, DeclaringAt, ModelsAt, PartOf

LEMMA CapStays ==
    ASSUME CapInv, UNCHANGED <<capHeader, cpc, rest, caps>>, capStatic' = capStatic \/ cpc = "wait"
    PROVE  CapInv'
<1>1. \A k, S : ModelsAt(k, S)' = ModelsAt(k, S)
  BY DEF ModelsAt, DeclaringAt, PartOf
<1>2. CapHere' = CapHere /\ Starts(capHeader, ";")' = Starts(capHeader, ";")
  BY DEF CapHere, Starts
<1>3. CapPassed' = CapPassed
  BY <1>2 DEF CapPassed
<1>4. cpc \in {"detect", "scan", "done"} => DeclarationsSurvive'
  <2> SUFFICES ASSUME cpc \in {"detect", "scan", "done"} PROVE DeclarationsSurvive'
    OBVIOUS
  <2>1. capStatic' = capStatic /\ DeclarationsSurvive
    BY DEF CapInv
  <2> QED
    BY <2>1, PartsStay, SurviveMeans
<1> QED
  BY <1>1, <1>2, <1>3, <1>4 DEF CapInv

LEMMA CapParseStep ==
    ASSUME capHeader \in Seq(STRING), CapInv, ParsePart
    PROVE  CapInv'
<1> DEFINE p == CapHere
           seg == PartOf(p)
<1>1. /\ cpc = "parse" /\ cpc' = cpc /\ rest # <<>> /\ capHeader' = capHeader
      /\ rest' = IF IndexOf(rest, ";") = 0 THEN <<>> ELSE From(rest, IndexOf(rest, ";") + 1)
  BY DEF ParsePart
<1>2. /\ rest = From(capHeader, p) /\ p \in Starts(capHeader, ";")
      /\ caps = [k \in Kinds |-> ModelsAt(k, CapPassed)]
  BY <1>1 DEF CapInv
<1> DEFINE next == Len(capHeader) + 1 - Len(rest')
<1>3. CapHere' = next
  BY <1>1 DEF CapHere
<1> HIDE DEF p
<1>4. /\ next \in 1 .. Len(capHeader) + 1 /\ rest' = From(capHeader, next)
      /\ rest' # <<>> => next \in Starts(capHeader, ";")
      /\ \A k \in Starts(capHeader, ";") :
            k <= Len(capHeader) => (k < next <=> k < p \/ k = p)
      /\ p <= Len(capHeader)
  <2> DEFINE behind == IF IndexOf(From(capHeader, p), ";") = 0 THEN <<>>
                       ELSE From(From(capHeader, p), IndexOf(From(capHeader, p), ";") + 1)
             to == Len(capHeader) + 1 - Len(behind)
  <2>1. /\ to \in 1 .. Len(capHeader) + 1 /\ behind = From(capHeader, to)
        /\ behind # <<>> => to \in Starts(capHeader, ";")
        /\ \A k \in Starts(capHeader, ";") : k <= Len(capHeader) => (k < to <=> k < p \/ k = p)
        /\ p <= Len(capHeader)
    BY <1>1, <1>2, PartPassed
  <2>2. behind = rest'
    BY <1>1, <1>2
  <2>3. to = next
    BY <2>2
  <2> HIDE DEF behind, to, next
  <2> QED
    BY <2>1, <2>2, <2>3
<1> HIDE DEF next
<1>5. Starts(capHeader, ";")' = Starts(capHeader, ";") /\ \A k, S : ModelsAt(k, S)' = ModelsAt(k, S)
  BY <1>1 DEF Starts, ModelsAt, DeclaringAt, PartOf
<1>6. CapPassed' = CapPassed \cup {p}
  <2>1. CapPassed' = {q \in Starts(capHeader, ";") : q <= Len(capHeader) /\ q < next}
    BY <1>1, <1>3, <1>5 DEF CapPassed
  <2>2. CapPassed = {q \in Starts(capHeader, ";") : q <= Len(capHeader) /\ q < p}
    BY DEF CapPassed, p
  <2> QED
    BY <1>2, <1>4, <2>1, <2>2
<1>7. seg = Trim(IF IndexOf(rest, ";") = 0 THEN rest ELSE SubSeq(rest, 1, IndexOf(rest, ";") - 1))
  BY <1>2 DEF PartOf, PartAt
<1>8. caps' = [k \in Kinds |-> IF k \in KindsOf(seg) THEN Append(caps[k], ModelOf(seg)) ELSE caps[k]]
  <2> DEFINE sg == Trim(IF IndexOf(rest, ";") = 0 THEN rest
                        ELSE SubSeq(rest, 1, IndexOf(rest, ";") - 1))
             colon == IndexOf(sg, ":")
             found == Trim(From(sg, colon + 1))
             kinds == IF colon = 0 \/ found = <<>> THEN {} ELSE ParseKind(SubSeq(sg, 1, colon - 1))
  <2>1. caps' = [k \in Kinds |-> IF k \in kinds THEN Append(caps[k], found) ELSE caps[k]]
    BY DEF ParsePart
  <2>2. sg = seg
    BY <1>7
  <2> HIDE DEF sg
  <2>3. /\ Trim(From(seg, IndexOf(seg, ":") + 1)) = ModelOf(seg)
        /\ KindsOf(seg) = IF IndexOf(seg, ":") = 0 \/ Trim(From(seg, IndexOf(seg, ":") + 1)) = <<>>
                          THEN {} ELSE ParseKind(SubSeq(seg, 1, IndexOf(seg, ":") - 1))
    BY <1>2, PartDeclares
  <2> HIDE DEF seg
  <2>4. found = ModelOf(seg) /\ kinds = KindsOf(seg)
    BY <2>2, <2>3
  <2> HIDE DEF found, kinds
  <2> QED
    BY <2>1, <2>4
<1>9. /\ CapPassed \in SUBSET Starts(capHeader, ";") /\ IsFiniteSet(CapPassed)
      /\ \A q \in CapPassed : q < p
  <2>1. CapPassed \in SUBSET Starts(capHeader, ";") /\ \A q \in CapPassed : q < p
    BY DEF CapPassed, p
  <2>2. IsFiniteSet(Starts(capHeader, ";"))
    BY StartsAreFinite
  <2> QED
    BY <2>1, <2>2, FS_Subset
<1>10. \A k \in Kinds : ModelsAt(k, CapPassed \cup {p}) =
           IF k \in KindsOf(seg) THEN Append(caps[k], ModelOf(seg)) ELSE caps[k]
  <2> SUFFICES ASSUME NEW k \in Kinds
               PROVE  ModelsAt(k, CapPassed \cup {p}) =
                        IF k \in KindsOf(seg) THEN Append(caps[k], ModelOf(seg)) ELSE caps[k]
    OBVIOUS
  <2>1. caps[k] = ModelsAt(k, CapPassed)
    BY <1>2
  <2> QED
    BY <1>2, <1>9, <2>1, OnePartMore
<1>11. caps' = [k \in Kinds |-> ModelsAt(k, CapPassed \cup {p})]
  BY <1>8, <1>10
<1>12. caps' = [k \in Kinds |-> ModelsAt(k, CapPassed')]
  BY <1>6, <1>11
<1> QED
  BY <1>1, <1>3, <1>4, <1>5, <1>12 DEF CapInv

LEMMA ResolveStep ==
    ASSUME capHeader \in Seq(STRING), CapInv, ResolveCapMap
    PROVE  CapInv'
<1> DEFINE all == Starts(capHeader, ";")
<1>1. /\ cpc = "parse" /\ cpc' = "detect" /\ rest = <<>> /\ capHeader' = capHeader
      /\ capStatic' = capStatic /\ caps' = IF Want(caps) # {} THEN caps ELSE capStatic
  BY DEF ResolveCapMap
<1>2. caps = [k \in Kinds |-> ModelsAt(k, CapPassed)]
  BY <1>1 DEF CapInv
<1>3. CapPassed = {p \in all : p <= Len(capHeader)}
  <2>1. CapHere = Len(capHeader) + 1 - 0
    BY <1>1 DEF CapHere
  <2>2. Len(capHeader) \in Nat /\ \A p \in all : p \in Nat
    BY StartIsNumber, LenProperties
  <2>3. \A len, p \in Nat : p <= len => p < len + 1 - 0
    OBVIOUS
  <2> QED
    BY <2>1, <2>2, <2>3 DEF CapPassed
<1>4. \A k : DeclaringAt(k, CapPassed) = DeclaringAt(k, all)
  BY <1>3, LastDeclaresNothing DEF DeclaringAt
<1>5. \A k : ModelsAt(k, CapPassed) = ModelsAt(k, all)
  <2> SUFFICES ASSUME NEW k PROVE ModelsAt(k, CapPassed) = ModelsAt(k, all)
    OBVIOUS
  <2> DEFINE D == DeclaringAt(k, CapPassed)
             E == DeclaringAt(k, all)
  <2>1. ModelsAt(k, CapPassed) = [m \in DOMAIN Ascending(D) |-> ModelOf(PartOf(Ascending(D)[m]))]
    BY DEF ModelsAt
  <2>2. ModelsAt(k, all) = [m \in DOMAIN Ascending(E) |-> ModelOf(PartOf(Ascending(E)[m]))]
    BY DEF ModelsAt
  <2>3. D = E
    BY <1>4
  <2> HIDE DEF D, E
  <2> QED
    BY <2>1, <2>2, <2>3
<1>6. \A k \in Kinds : ModelsAt(k, CapPassed) = <<>> <=> DeclaringAt(k, all) = {}
  <2> SUFFICES ASSUME NEW k \in Kinds
               PROVE  ModelsAt(k, CapPassed) = <<>> <=> DeclaringAt(k, all) = {}
    OBVIOUS
  <2> QED
    BY <1>4, NothingDeclared, StartsAreFinite DEF CapPassed
<1>7. Want(caps) # {} <=> \E k \in Kinds : DeclaringAt(k, all) # {}
  BY <1>2, <1>6 DEF Want
<1>11. DeclarationsSurvive'
  BY <1>1, <1>2, <1>5, <1>7, PartsStay
<1> QED
  BY <1>1, <1>11 DEF CapInv

\* applyCapabilities takes up the header.
LEMMA PartsBegin ==
    ASSUME capHeader \in Seq(STRING), CapInv, cpc = "wait", cpc' = "parse",
           UNCHANGED <<capHeader, rest, caps>>
    PROVE  CapInv'
<1>1. rest = capHeader /\ caps = NoCaps
  BY DEF CapInv
<1>2. CapHere' = 1 /\ 1 \in 1 .. Len(capHeader) + 1 /\ capHeader = From(capHeader, 1)
      /\ 1 \in Starts(capHeader, ";")
  BY <1>1, WholeFrom DEF CapHere
<1>3. CapPassed' = {}
  BY <1>2, WholeFrom, PartsStay DEF CapPassed
<1>4. \A k : ModelsAt(k, {}) = <<>>
  <2>1. \A k : DeclaringAt(k, {}) = {}
    BY DEF DeclaringAt
  <2> QED
    BY <2>1, NothingDeclared
<1>5. caps' = [k \in Kinds |-> ModelsAt(k, CapPassed')]
  BY <1>1, <1>3, <1>4 DEF NoCaps
<1>6. Starts(capHeader, ";")' = Starts(capHeader, ";")
      /\ \A k, S : ModelsAt(k, S)' = ModelsAt(k, S)
  BY PartsStay
<1>7. CapHere' \in Starts(capHeader, ";") /\ CapHere' \in 1 .. Len(capHeader') + 1
      /\ rest' = From(capHeader', CapHere')
  BY <1>1, <1>2
<1> QED
  BY <1>5, <1>6, <1>7 DEF CapInv

\* capability.go:174-214.
LEMMA DeclaredStep ==
    ASSUME capHeader \in Seq(STRING), CapInv, CapNext
    PROVE  CapInv'
<1>1. CASE ParsePart
  BY <1>1, CapParseStep
<1>2. CASE ResolveCapMap
  BY <1>2, ResolveStep
<1>3. CASE Detect \/ Scan \/ EndScan
  <2>1. /\ cpc \in {"detect", "scan"} /\ cpc' \in {"scan", "done"}
        /\ UNCHANGED <<capHeader, caps, capStatic>>
    BY <1>3 DEF Detect, Scan, Scanning, EndScan
  <2>2. DeclarationsSurvive
    BY <2>1 DEF CapInv
  <2>3. DeclarationsSurvive'
    BY <2>1, <2>2, PartsStay, SurviveMeans
  <2> QED
    BY <2>1, <2>3 DEF CapInv
<1> QED
  BY <1>1, <1>2, <1>3 DEF CapNext

----------------------------------------------------------------------------
(* The way of a request                                                    *)

\* The models a request may go to by its own map.
Candidates == IF kind = "none" THEN {name} ELSE ToSet(answer)

\* Up to RouteFiles the model is one of the map's and has not been changed.
RouteInv ==
    /\ opc \in {"load", "arrive", "refused", "map", "pick", "caps", "route", "send",
                "answer", "done"}
    /\ opc = "load" => epc = "lines"
    /\ opc \notin {"load", "refused"} => epc = "ready"
    /\ opc \in {"load", "arrive"} => pc = "wait"
    /\ opc \in {"load", "arrive", "map", "pick"} => cpc = "wait"
    /\ opc \in {"caps", "route"} => model \in Candidates
    /\ opc \in {"load", "arrive", "map", "pick", "caps", "route"} => capUsed = FALSE
    /\ opc = "send" => IF "file" \in got THEN model \in ToSet(caps["file"])
                       ELSE model \in Candidates /\ ~capUsed
    /\ opc # "done" => reply = Nothing

OutInv ==
    /\ Given /\ EnvInv /\ MapInv /\ CapInv /\ ScanInv /\ RouteInv
    /\ SentAsDeclared /\ ReplyHeadersFit

givenvars == <<file, environ, header, name, capHeader, doc, client, path, upstream>>

LEMMA GivenStays ==
    ASSUME Given, UNCHANGED givenvars
    PROVE  Given'
BY DEF Given, givenvars, IsBody, IsHeader, IsPath, IsAnswer

LEMMA EnvStays ==
    ASSUME EnvInv, UNCHANGED envvars
    PROVE  EnvInv' /\ DeclaredConfig' = DeclaredConfig
<1>1. DeclaredConfig' = DeclaredConfig
  BY DEF envvars, DeclaredConfig, DeclaredEnv, Declared
<1> QED
  BY <1>1 DEF envvars, EnvInv

LEMMA MapStays ==
    ASSUME MapInv, UNCHANGED <<header, pc, table, raw, rules, invalid>>
    PROVE  MapInv'
<1>1. /\ Filled(header, ";")' = Filled(header, ";")
      /\ \A S : RulesAt(S)' = RulesAt(S)
      /\ \A k : GoodAt(k)' = GoodAt(k)
      /\ HeaderRules' = HeaderRules
  BY HeaderStays
<1>2. Here' = Here
  BY DEF Here
<1>3. Passed' = Passed
  BY <1>1, <1>2 DEF Passed
<1>4. HeaderFits => HeaderFits'
  BY <1>1 DEF HeaderFits
<1>5. {k \in Passed' : GoodAt(k)'} = {k \in Passed : GoodAt(k)}
  BY <1>1, <1>3
<1>6. Starts(header, ";")' = Starts(header, ";")
  BY DEF Starts
<1> QED
  BY <1>1, <1>2, <1>3, <1>4, <1>5, <1>6 DEF MapInv

LEMMA ScanStays ==
    ASSUME ScanInv, UNCHANGED <<doc, cpc, caps, node, got>>
    PROVE  ScanInv'
BY DEF ScanInv, DetectedIsUsed, HasTools

LEMMA ReplyStays ==
    ASSUME ReplyHeadersFit, UNCHANGED <<upstream, reply>>
    PROVE  ReplyHeadersFit'
BY DEF ReplyHeadersFit, IsStream

LEMMA OutInvInit ==
    ASSUME OutBegin
    PROVE  OutInv
<1>1. PICK s : OutInit(s)
  BY DEF OutBegin
<1>2. Given
  BY DEF OutBegin
<1>3. /\ file = s.file /\ environ = s.environ /\ epc = "lines" /\ ln = 1 /\ env = s.environ
      /\ pc = "wait" /\ cpc = "wait" /\ got = {} /\ node = 1 /\ reply = Nothing
      /\ opc = "load" /\ capUsed = FALSE
  BY <1>1 DEF OutInit, EnvInit, MapInit, CapInit, HdrInit
<1>4. EnvInv
  <2>1. Len(file) \in Nat /\ environ = [k \in Keys |-> environ[k]] /\ env = environ
    BY <1>2, <1>3, LenProperties DEF Given
  <2>2. ln \in 1 .. Len(file) + 1 /\ ln - 1 = 0
    BY <1>3, <2>1
  <2>3. \A k \in Keys : TextAfter(file, environ, 0, k, env[k])
    <3>1. 1 .. 0 = {}
      OBVIOUS
    <3> QED
      BY <2>1, <3>1 DEF TextAfter
  <2> QED
    BY <1>3, <2>1, <2>2, <2>3 DEF EnvInv
<1>9. MapInv /\ CapInv
  BY <1>1 DEF OutInit, MapInit, CapInit, MapInv, CapInv
<1>5. ScanInv
  BY <1>3 DEF ScanInv
<1>6. RouteInv
  BY <1>3 DEF RouteInv
<1>7. SentAsDeclared
  BY <1>3 DEF SentAsDeclared
<1>8. ReplyHeadersFit
  BY <1>3 DEF ReplyHeadersFit
<1> QED
  BY <1>2, <1>4, <1>5, <1>6, <1>7, <1>8, <1>9 DEF OutInv

LEMMA OutInvStep ==
    ASSUME OutInv, [OutNext]_outvars
    PROVE  OutInv'
<1> USE DEF OutInv
<1>1. CASE Configure
  <2>1. EnvNext /\ opc = "load" /\ UNCHANGED <<mapvars, capvars, hdrvars, model, capUsed>>
        /\ opc' = IF epc' = "lines" THEN opc ELSE IF epc' = "ready" THEN "arrive" ELSE "refused"
    BY <1>1 DEF Configure
  <2>2. UNCHANGED givenvars
    BY <2>1 DEF givenvars, mapvars, given, capvars, hdrvars, EnvNext, LoadLine, BadLine, Load
  <2>3. EnvInv'
    BY <2>1, EnvStep
  <2>4. ScanInv' /\ MapInv' /\ CapInv'
    BY <2>1, ScanStays, MapStays, CapStays DEF capvars, mapvars, given
  <2>5. RouteInv'
    <3>1. epc' \in {"lines", "ready", "refused"}
      BY <2>3 DEF EnvInv
    <3>2. pc = "wait" /\ cpc = "wait" /\ capUsed = FALSE /\ reply = Nothing
      BY <2>1 DEF RouteInv
    <3> QED
      BY <2>1, <3>1, <3>2 DEF RouteInv, mapvars, capvars, hdrvars
  <2>6. SentAsDeclared'
    BY <2>1 DEF SentAsDeclared
  <2>7. ReplyHeadersFit'
    BY <2>1, ReplyStays DEF hdrvars
  <2> QED
    BY <2>2, <2>3, <2>4, <2>5, <2>6, <2>7, GivenStays
<1>2. CASE Arrive
  <2>1. /\ opc = "arrive" /\ opc' \in {"refused", "map"}
        /\ UNCHANGED envvars /\ UNCHANGED <<doc, cpc, caps, node, got>>
        /\ UNCHANGED <<header, name, capHeader, table, raw, rules, invalid, rest>>
        /\ UNCHANGED <<client, path, upstream, sent, reply, model, capUsed>>
        /\ pc' = pc \/ pc' = "parse"
    BY <1>2 DEF Arrive
  <2>2. UNCHANGED givenvars
    BY <2>1 DEF givenvars, envvars
  <2>3. EnvInv' /\ ScanInv' /\ ReplyHeadersFit'
    BY <2>1, EnvStays, ScanStays, ReplyStays
  <2>6. pc = "wait" /\ cpc = "wait"
    BY <2>1 DEF RouteInv
  <2>7. MapInv'
    <3>1. CASE pc' = pc
      BY <2>1, <3>1, MapStays
    <3>2. CASE pc' = "parse"
      BY <2>1, <2>6, <3>2, ParseBegins, GivenTexts
    <3> QED
      BY <2>1, <3>1, <3>2
  <2>8. CapInv'
    BY <2>1, <2>6, CapStays
  <2>4. RouteInv'
    BY <2>1, <2>6 DEF RouteInv, envvars
  <2>5. SentAsDeclared'
    BY <2>1 DEF SentAsDeclared
  <2> QED
    BY <2>2, <2>3, <2>4, <2>5, <2>6, <2>7, <2>8, GivenStays
<1>3. CASE MapModel
  <2>1. /\ opc = "map" /\ opc' \in {"pick", "refused", "map"} /\ MapNext
        /\ UNCHANGED <<envvars, capvars, hdrvars, model, capUsed>>
    BY <1>3 DEF MapModel
  <2>2. UNCHANGED givenvars
    <3>1. header' = header /\ name' = name
      BY <2>1 DEF MapNext, NoHeader, ParseSegment, EndParse, Build, LookupExact, NotExact,
                  LookupWild, LookupFallback, HeaderMiss, UseStatic, Answer, given
    <3> QED
      BY <2>1, <3>1 DEF givenvars, envvars, capvars, hdrvars
  <2>3. EnvInv' /\ ScanInv' /\ CapInv' /\ ReplyHeadersFit'
    BY <2>1, EnvStays, ScanStays, CapStays, ReplyStays DEF capvars, hdrvars
  <2>6. MapInv'
    BY <2>1, MapStep, GivenTexts
  <2>4. RouteInv'
    BY <2>1 DEF RouteInv, envvars, capvars, hdrvars
  <2>5. SentAsDeclared'
    BY <2>1 DEF SentAsDeclared
  <2> QED
    BY <2>2, <2>3, <2>4, <2>5, <2>6, GivenStays
<1>4. CASE Pick
  <2>1. /\ opc = "pick"
        /\ UNCHANGED <<envvars, mapvars, hdrvars, capUsed>>
        /\ UNCHANGED <<capHeader, capStatic, doc, rest, caps, node, got>>
        /\ \/ opc' = "refused" /\ cpc' = cpc
           \/ opc' = "caps" /\ cpc' = "parse" /\ model' \in Candidates
    BY <1>4 DEF Pick, Candidates
  <2>2. UNCHANGED givenvars
    BY <2>1 DEF givenvars, envvars, mapvars, given, hdrvars
  <2>3. EnvInv' /\ MapInv' /\ ReplyHeadersFit'
    BY <2>1, EnvStays, MapStays, ReplyStays DEF mapvars, given, hdrvars
  <2>4. cpc = "wait" /\ capUsed = FALSE /\ reply = Nothing
    BY <2>1 DEF RouteInv
  <2>5. ScanInv'
    BY <2>1, <2>4 DEF ScanInv
  <2>9. CapInv'
    <3>1. CASE cpc' = cpc
      BY <2>1, <3>1, CapStays
    <3>2. CASE cpc' = "parse"
      BY <2>1, <2>4, <3>2, PartsBegin DEF Given
    <3> QED
      BY <2>1, <3>1, <3>2
  <2>6. Candidates' = Candidates
    BY <2>1 DEF Candidates, mapvars, given
  <2>7. RouteInv'
    BY <2>1, <2>4, <2>6 DEF RouteInv, envvars, mapvars, hdrvars
  <2>8. SentAsDeclared'
    BY <2>1 DEF SentAsDeclared
  <2> QED
    BY <2>2, <2>3, <2>5, <2>7, <2>8, <2>9, GivenStays
<1>5. CASE FindCapabilities
  <2>1. /\ opc = "caps" /\ CapNext /\ opc' \in {"route", "caps"}
        /\ UNCHANGED <<envvars, mapvars, hdrvars, model, capUsed>>
    BY <1>5 DEF FindCapabilities
  <2>2. UNCHANGED givenvars
    BY <2>1 DEF givenvars, envvars, mapvars, given, hdrvars, CapNext, ParsePart,
                ResolveCapMap, Detect, Scan, EndScan
  <2>3. EnvInv' /\ MapInv' /\ ReplyHeadersFit'
    BY <2>1, EnvStays, MapStays, ReplyStays DEF mapvars, given, hdrvars
  <2>4. ScanInv' /\ CapInv'
    BY <2>1, CapStep, DeclaredStep DEF Given
  <2>5. Candidates' = Candidates
    BY <2>1 DEF Candidates, mapvars, given
  <2>6. RouteInv'
    BY <2>1, <2>5 DEF RouteInv, envvars, mapvars, hdrvars
  <2>7. SentAsDeclared'
    BY <2>1 DEF SentAsDeclared
  <2> QED
    BY <2>2, <2>3, <2>4, <2>6, <2>7, GivenStays
<1>6. CASE RouteFiles
  <2>1. /\ opc = "route" /\ opc' = "send" /\ UNCHANGED <<envvars, mapvars, capvars, hdrvars>>
        /\ IF "file" \in got THEN model' \in ToSet(caps["file"])
           ELSE model' = model /\ capUsed' = capUsed
    BY <1>6 DEF RouteFiles
  <2>2. UNCHANGED givenvars
    BY <2>1 DEF givenvars, envvars, mapvars, given, capvars, hdrvars
  <2>3. EnvInv' /\ MapInv' /\ ScanInv' /\ CapInv' /\ ReplyHeadersFit'
    BY <2>1, EnvStays, MapStays, ScanStays, CapStays, ReplyStays
       DEF mapvars, given, capvars, hdrvars
  <2>4. Candidates' = Candidates
    BY <2>1 DEF Candidates, mapvars, given
  <2>5. model \in Candidates /\ capUsed = FALSE /\ epc = "ready" /\ reply = Nothing
    BY <2>1 DEF RouteInv
  <2>6. RouteInv'
    <3>1. /\ got' = got /\ caps' = caps /\ epc' = epc /\ reply' = reply
      BY <2>1 DEF capvars, envvars, hdrvars
    <3>2. IF "file" \in got' THEN model' \in ToSet(caps'["file"])
          ELSE model' \in Candidates' /\ ~capUsed'
      BY <2>1, <2>4, <2>5, <3>1
    <3> QED
      BY <2>1, <2>5, <3>1, <3>2 DEF RouteInv
  <2>7. SentAsDeclared'
    BY <2>1 DEF SentAsDeclared
  <2> QED
    BY <2>2, <2>3, <2>6, <2>7, GivenStays
<1>7. CASE SendRequest
  <2>1. /\ opc = "send" /\ opc' = "answer" /\ UNCHANGED <<envvars, mapvars, capvars>>
        /\ sent' = BuildRequest(config, BodyLength(model))
        /\ UNCHANGED <<client, path, upstream, reply>>
    BY <1>7 DEF SendRequest, Send
  <2>2. UNCHANGED givenvars
    BY <2>1 DEF givenvars, envvars, mapvars, given, capvars
  <2>3. EnvInv' /\ ScanInv' /\ ReplyHeadersFit' /\ DeclaredConfig' = DeclaredConfig
    BY <2>1, EnvStays, ScanStays, ReplyStays DEF capvars
  <2>12. MapInv' /\ CapInv'
    BY <2>1, MapStays, CapStays DEF mapvars, given, capvars
  <2>4. epc = "ready" /\ reply = Nothing
    BY <2>1 DEF RouteInv
  <2>5. RouteInv'
    BY <2>1, <2>4 DEF RouteInv, envvars
  <2>6. config = DeclaredConfig /\ config' = config
    BY <2>1, <2>4 DEF EnvInv, envvars
  <2>7. \A f \in CredentialFields : Get(client, f) \in Seq(STRING)
    <3> SUFFICES ASSUME NEW f \in CredentialFields PROVE Get(client, f) \in Seq(STRING)
      OBVIOUS
    <3>1. CASE f \in DOMAIN client
      <4>1. client[f] \in Seq(Seq(STRING)) /\ client[f] # <<>>
        BY <3>1 DEF Given, IsHeader
      <4>2. Head(client[f]) \in Seq(STRING)
        BY <4>1, HeadTailProperties
      <4> QED
        BY <3>1, <4>2 DEF Get
    <3>2. CASE f \notin DOMAIN client
      BY <3>2, EmptySeq DEF Get
    <3> QED
      BY <3>1, <3>2
  <2>8. CarriesOne(client, path, sent', config)
    BY <2>1, <2>7, RequestCarriesOne
  <2>9. CarriesOne(client', path', sent', DeclaredConfig')
    BY <2>1, <2>3, <2>6, <2>8
  <2>10. CredentialCrossesOnce(DeclaredConfig)'
    BY <2>9 DEF CarriesOne, KeyNamed, CredentialCrossesOnce
  <2>11. SentAsDeclared'
    BY <2>3, <2>6, <2>10 DEF SentAsDeclared
  <2> QED
    BY <2>2, <2>3, <2>5, <2>11, <2>12, GivenStays
<1>8. CASE ReplyToClient
  <2>1. /\ opc = "answer" /\ opc' = "done" /\ Reply(~config.sanitizeOff)
        /\ UNCHANGED <<envvars, mapvars, capvars, model, capUsed>>
    BY <1>8 DEF ReplyToClient
  <2>2. UNCHANGED <<client, path, upstream>>
    BY <2>1 DEF Reply, PipeStream, PassThrough, RejectOversizeResponse, ReadFails,
                SkipTooLarge, RelayBuffered, Relay, WriteError
  <2>3. UNCHANGED givenvars
    BY <2>1, <2>2 DEF givenvars, envvars, mapvars, given, capvars
  <2>4. EnvInv' /\ MapInv' /\ ScanInv' /\ CapInv'
    BY <2>1, EnvStays, MapStays, ScanStays, CapStays DEF mapvars, given, capvars
  <2>5. RouteInv'
    BY <2>1 DEF RouteInv, envvars
  <2>6. ReplyHeadersFit'
    BY <2>1, ReplyFits DEF Given
  <2>7. SentAsDeclared'
    BY <2>1 DEF SentAsDeclared
  <2> QED
    BY <2>3, <2>4, <2>5, <2>6, <2>7, GivenStays
<1>9. CASE UNCHANGED outvars
  <2>1. /\ UNCHANGED <<envvars, mapvars, capvars, hdrvars>>
        /\ opc' = opc /\ model' = model /\ capUsed' = capUsed
    BY <1>9 DEF outvars
  <2>2. UNCHANGED givenvars
    BY <2>1 DEF givenvars, envvars, mapvars, given, capvars, hdrvars
  <2>3. EnvInv' /\ ScanInv' /\ ReplyHeadersFit' /\ DeclaredConfig' = DeclaredConfig
    BY <2>1, EnvStays, ScanStays, ReplyStays DEF capvars, hdrvars
  <2>7. MapInv' /\ CapInv'
    BY <2>1, MapStays, CapStays DEF mapvars, given, capvars
  <2>4. Candidates' = Candidates
    BY <2>1 DEF Candidates, mapvars, given
  <2>5. RouteInv'
    BY <2>1, <2>4 DEF RouteInv, envvars, mapvars, capvars, hdrvars
  <2>6. SentAsDeclared'
    <3>1. opc = "answer" => CarriesOne(client, path, sent, DeclaredConfig)
      BY DEF SentAsDeclared, CarriesOne, KeyNamed, CredentialCrossesOnce
    <3>2. opc' = "answer" => CarriesOne(client', path', sent', DeclaredConfig')
      BY <2>1, <2>3, <3>1 DEF hdrvars
    <3>3. opc' = "answer" => CredentialCrossesOnce(DeclaredConfig)'
      BY <3>2 DEF CarriesOne, KeyNamed, CredentialCrossesOnce
    <3>4. opc' = "answer" => config' = DeclaredConfig'
      BY <2>1, <2>3 DEF SentAsDeclared, envvars
    <3> QED
      BY <3>3, <3>4 DEF SentAsDeclared
  <2> QED
    BY <2>2, <2>3, <2>5, <2>6, <2>7, GivenStays
<1> QED
  BY <1>1, <1>2, <1>3, <1>4, <1>5, <1>6, <1>7, <1>8, <1>9 DEF OutNext

THEOREM OutInvHolds == OutSpec => []OutInv
<1>1. OutBegin => OutInv
  BY OutInvInit
<1>2. OutInv /\ [OutNext]_outvars => OutInv'
  BY OutInvStep
<1> QED
  BY <1>1, <1>2, PTL DEF OutSpec

\* Of what the two routing headers declare nothing is lost: a header that is not
\* refused has become the rules that are written in it, name by name and in their
\* order, and the models of a kind are those of all its usable parts
\* (mapping.go:186-238, capability.go:174-214).
THEOREM DeclarationsAreKept == OutSpec => []HeadersSurvive
<1>1. OutInv => HeadersSurvive
  BY NothingIsSwallowed, GivenTexts DEF OutInv, CapInv, HeadersSurvive
<1> QED
  BY <1>1, OutInvHolds, PTL

\* The kinds that are found are those declared and used, and a file goes to a model
\* for files and nothing else does (gateway.go:516-547, capability.go:247-379).
THEOREM FilesAreRouted == OutSpec => []FilesGoToFileModel
<1>1. OutInv => FilesGoToFileModel
  BY DEF OutInv, ScanInv, RouteInv, Candidates, FilesGoToFileModel
<1> QED
  BY <1>1, OutInvHolds, PTL

\* The configuration is the declared one whatever .env has, and of the credentials
\* of a request the one that counts crosses, alone and in the form of the protocol
\* (env.go:19-57, credential.go:34-98, gateway.go:559-601).
THEOREM SentByDeclaration == OutSpec => []SentAsDeclared
<1>1. OutInv => SentAsDeclared
  BY DEF OutInv
<1> QED
  BY <1>1, OutInvHolds, PTL

\* The header of every reply fits the body that follows it and the answer it is made
\* from (response.go:45-49, 213-382, gateway.go:794-814).
THEOREM RepliesFit == OutSpec => []ReplyHeadersFit
<1>1. OutInv => ReplyHeadersFit
  BY DEF OutInv
<1> QED
  BY <1>1, OutInvHolds, PTL

----------------------------------------------------------------------------
(* Wildcards: the parts a pattern is cut into, and what each star stands for *)

\* A sequence of numbers in their order is one: each number has its place in it.
LEMMA AscendingOrder ==
    ASSUME NEW S \in SUBSET Nat, IsFiniteSet(S)
    PROVE  LET at == Ascending(S)
               len == Cardinality(S)
           IN  /\ len \in Nat /\ at \in [1 .. len -> S]
               /\ \A m, k \in 1 .. len : m < k => at[m] < at[k]
               /\ \A x \in S : \E m \in 1 .. len : at[m] = x
<1> DEFINE at == Ascending(S)
           len == Cardinality(S)
           Upto(x) == {j \in S : j <= x}
           rank == [x \in S |-> Cardinality(Upto(x))]
<1>1. len \in Nat /\ at \in Seq(S) /\ Len(at) = len
  BY AscendingMembers, FS_CardinalityType
<1>2. DOMAIN at = 1 .. len /\ \A m \in 1 .. len : at[m] \in S
  BY <1>1, LenProperties, ElementOfSeq
<1>3. \A x \in S : Upto(x) \in SUBSET S /\ IsFiniteSet(Upto(x)) /\ Cardinality(Upto(x)) \in Nat
                   /\ Cardinality(Upto(x)) <= len /\ Cardinality(Upto(x)) # 0
  <2> SUFFICES ASSUME NEW x \in S
               PROVE  /\ Upto(x) \in SUBSET S /\ IsFiniteSet(Upto(x)) /\ Cardinality(Upto(x)) \in Nat
                      /\ Cardinality(Upto(x)) <= len /\ Cardinality(Upto(x)) # 0
    OBVIOUS
  <2>1. Upto(x) \in SUBSET S /\ x \in Upto(x)
    OBVIOUS
  <2> HIDE DEF Upto
  <2> QED
    BY <2>1, FS_Subset, FS_CardinalityType, FS_EmptySet
<1>4. \A x, y \in S : x < y => Cardinality(Upto(x)) < Cardinality(Upto(y))
  <2> SUFFICES ASSUME NEW x \in S, NEW y \in S, x < y
               PROVE  Cardinality(Upto(x)) < Cardinality(Upto(y))
    OBVIOUS
  <2>0. ~(y <= x) /\ \A j \in S : j <= x => j <= y
    OBVIOUS
  <2>3. Upto(x) \in SUBSET Upto(y)
    BY <2>0
  <2>1. Upto(x) \in SUBSET Upto(y) /\ y \in Upto(y) /\ y \notin Upto(x)
    BY <2>0, <2>3
  <2> HIDE DEF Upto
  <2>2. Cardinality(Upto(x)) <= Cardinality(Upto(y)) /\ Cardinality(Upto(x)) # Cardinality(Upto(y))
    BY <1>3, <2>1, FS_Subset
  <2> QED
    BY <1>3, <2>2
<1>5. \A m \in 1 .. len : Cardinality(Upto(at[m])) = m
  <2> DEFINE card(x) == Cardinality(Upto(x))
  <2> SUFFICES ASSUME NEW m \in 1 .. len PROVE card(at[m]) = m
    OBVIOUS
  <2>1. at[m] = CHOOSE x \in S : card(x) = m
    BY <1>1 DEF Ascending
  <2>2. \E x \in S : card(x) = m
    <3>1. rank \in [S -> 1 .. len]
      <4> HIDE DEF Upto
      <4> QED
        BY <1>1, <1>3
    <3>2. \A x, y \in S : rank[x] = rank[y] => x = y
      <4> SUFFICES ASSUME NEW x \in S, NEW y \in S, rank[x] = rank[y], x # y PROVE FALSE
        OBVIOUS
      <4>1. x < y \/ y < x
        OBVIOUS
      <4>2. rank[x] = Cardinality(Upto(x)) /\ rank[y] = Cardinality(Upto(y))
        OBVIOUS
      <4> HIDE DEF rank, Upto, len
      <4>3. Cardinality(Upto(x)) \in Nat /\ Cardinality(Upto(x)) = Cardinality(Upto(y))
        BY <1>3, <4>2
      <4>4. ~(Cardinality(Upto(x)) < Cardinality(Upto(y)))
            /\ ~(Cardinality(Upto(y)) < Cardinality(Upto(x)))
        BY <4>3
      <4> QED
        BY <1>4, <4>1, <4>4
    <3>3. IsFiniteSet(1 .. len) /\ Cardinality(1 .. len) = len
      BY <1>1, FS_Interval
    <3>4. \A x \in S : rank[x] = card(x)
      OBVIOUS
    <3> HIDE DEF rank, card
    <3>5. rank \in Injection(S, 1 .. len)
      BY <3>1, <3>2 DEF Injection, IsInjective
    <3>6. rank \in Surjection(S, 1 .. len)
      BY <3>3, <3>5, FS_Injection
    <3> QED
      BY <3>4, <3>6 DEF Surjection
  <2> HIDE DEF card
  <2> QED
    BY <2>1, <2>2
<1> HIDE DEF at, len, Upto
<1>6. \A m, k \in 1 .. len : m < k => at[m] < at[k]
  <2> SUFFICES ASSUME NEW m \in 1 .. len, NEW k \in 1 .. len, m < k, ~(at[m] < at[k]) PROVE FALSE
    OBVIOUS
  <2>1. at[m] \in Nat /\ at[k] \in Nat
    BY <1>2
  <2>2. at[k] < at[m] \/ at[k] = at[m]
    BY <2>1
  <2>3. k < m \/ k = m
    BY <1>2, <1>4, <1>5, <2>2
  <2> QED
    BY <1>1, <2>3
<1>7. \A x \in S : \E m \in 1 .. len : at[m] = x
  <2> SUFFICES ASSUME NEW x \in S PROVE \E m \in 1 .. len : at[m] = x
    OBVIOUS
  <2> DEFINE m == Cardinality(Upto(x))
  <2>1. m \in 1 .. len
    BY <1>1, <1>3
  <2>2. at[m] \in S /\ Cardinality(Upto(at[m])) = Cardinality(Upto(x))
    BY <1>2, <1>5, <2>1
  <2>5. ~(Cardinality(Upto(at[m])) < Cardinality(Upto(x)))
        /\ ~(Cardinality(Upto(x)) < Cardinality(Upto(at[m])))
    BY <1>3, <2>2
  <2>3. ~(at[m] < x) /\ ~(x < at[m])
    BY <1>4, <2>2, <2>5
  <2>4. x \in Nat /\ at[m] \in Nat
    BY <2>2
  <2> HIDE DEF m
  <2>6. at[m] = x
    BY <2>3, <2>4
  <2> QED
    BY <2>1, <2>6
<1>8. at \in [1 .. len -> S]
  <2>1. at = [m \in DOMAIN at |-> at[m]]
    BY <1>1
  <2> QED
    BY <1>2, <2>1
<1> QED
  BY <1>1, <1>6, <1>7, <1>8 DEF at, len

\* The part that begins at k ends at the next c, or with the text.
LEMMA PartIs ==
    ASSUME NEW S, NEW s \in Seq(S), NEW c, NEW k \in Starts(s, c)
    PROVE  LET part == PartAt(s, c, k)
               e == k + Len(part)
           IN  /\ part \in Seq(S) /\ Len(part) \in Nat /\ k \in 1 .. Len(s) + 1
               /\ e \in k .. Len(s) + 1
               /\ \A i \in 1 .. Len(part) : part[i] = s[k + i - 1]
               /\ \A j \in k .. e - 1 : j \in 1 .. Len(s) /\ s[j] # c
               /\ e = Len(s) + 1 \/ (e \in 1 .. Len(s) /\ s[e] = c)
<1> DEFINE tail == From(s, k)
           T == {j \in DOMAIN tail : tail[j] = c}
           at == IndexOf(tail, c)
           part == PartAt(s, c, k)
           N == Len(s)
           e == k + Len(part)
<1>1. N \in Nat /\ k \in 1 .. N + 1 /\ \A i \in 1 .. N : s[i] \in S
  BY LenProperties, ElementOfSeq DEF Starts
<1>2. tail \in Seq(S) /\ Len(tail) = N + 1 - k /\ part \in Seq(S)
  BY NextPart
<1>3. \A i \in 1 .. N + 1 - k : tail[i] = s[k + i - 1]
  <2>1. k \in Int /\ N \in Int /\ \A i \in k .. N : s[i] \in S
    BY <1>1
  <2>2. \A i \in 1 .. N - k + 1 : tail[i] = s[k + i - 1]
    BY <2>1, SubSeqProperties DEF From
  <2>3. N - k + 1 = N + 1 - k
    BY <1>1
  <2> QED
    BY <2>2, <2>3
<1>4. DOMAIN tail = 1 .. N + 1 - k /\ \A i \in 1 .. N + 1 - k : tail[i] \in S
  BY <1>2, LenProperties, ElementOfSeq
<1> HIDE DEF tail, N
<1>5. T \in SUBSET Nat
  BY <1>4
<1>6. T # {} => Min(T) \in T /\ \A y \in T : Min(T) <= y
  <2> HIDE DEF T
  <2> QED
    BY <1>5, LeastNumber
<1>7. at = IF T = {} THEN 0 ELSE Min(T)
  BY DEF IndexOf
<1>8. part = IF at = 0 THEN tail ELSE SubSeq(tail, 1, at - 1)
  BY DEF PartAt, tail
<1>9. CASE T = {}
  <2>1. part = tail
    BY <1>7, <1>8, <1>9
  <2>2. Len(part) = N + 1 - k /\ e = N + 1
    BY <1>1, <1>2, <2>1
  <2>3. \A i \in 1 .. N + 1 - k : tail[i] # c
    BY <1>4, <1>9
  <2> HIDE DEF T, at, part, e
  <2>4. \A j \in k .. N : j \in 1 .. N /\ s[j] # c
    <3> SUFFICES ASSUME NEW j \in k .. N PROVE j \in 1 .. N /\ s[j] # c
      OBVIOUS
    <3>1. j \in 1 .. N /\ j - k + 1 \in 1 .. N + 1 - k /\ k + (j - k + 1) - 1 = j
      BY <1>1
    <3> QED
      BY <1>3, <2>3, <3>1
  <2>5. N + 1 - 1 = N /\ N + 1 \in k .. N + 1 /\ N + 1 - k \in Nat
    BY <1>1
  <2> QED
    BY <1>1, <1>2, <1>3, <2>1, <2>2, <2>4, <2>5 DEF part, e, N
<1>10. CASE T # {}
  <2>1. at \in T /\ \A y \in T : at <= y
    BY <1>6, <1>7, <1>10
  <2>2. at \in 1 .. N + 1 - k /\ tail[at] = c
    BY <1>4, <2>1
  <2>3. \A i \in 1 .. at - 1 : tail[i] # c
    <3> SUFFICES ASSUME NEW i \in 1 .. at - 1, tail[i] = c PROVE FALSE
      OBVIOUS
    <3>1. i \in 1 .. N + 1 - k /\ ~(at <= i)
      BY <1>1, <2>2
    <3>2. i \in T
      BY <1>4, <3>1
    <3> QED
      BY <2>1, <3>1, <3>2
  <2>4. part = SubSeq(tail, 1, at - 1)
    BY <1>1, <1>8, <2>2
  <2> HIDE DEF T, at, part
  <2>5. /\ 1 \in Int /\ at - 1 \in Int /\ at - 1 \in Nat /\ \A i \in 1 .. at - 1 : i \in 1 .. N + 1 - k
    BY <1>1, <2>2
  <2>6. \A i \in 1 .. at - 1 : tail[i] \in S
    BY <1>4, <2>5
  <2>7. /\ Len(part) = IF 1 <= at - 1 THEN at - 1 - 1 + 1 ELSE 0
        /\ \A i \in 1 .. at - 1 - 1 + 1 : part[i] = tail[1 + i - 1]
    BY <2>4, <2>5, <2>6, SubSeqProperties
  <2>14. at \in Nat /\ at >= 1
    BY <1>1, <2>2
  <2>8. at - 1 - 1 + 1 = at - 1 /\ (~(1 <= at - 1) => at - 1 = 0)
        /\ \A i \in 1 .. at - 1 : 1 + i - 1 = i
    BY <2>14
  <2>9. Len(part) = at - 1 /\ \A i \in 1 .. at - 1 : part[i] = tail[i]
    BY <2>7, <2>8
  <2>10. e = k + at - 1
    BY <1>1, <2>2, <2>9
  <2> HIDE DEF e
  <2>11. \A i \in 1 .. at - 1 : part[i] = s[k + i - 1]
    BY <1>3, <2>5, <2>9
  <2>12. e \in 1 .. N /\ e \in k .. N + 1 /\ s[e] = c
    BY <1>1, <1>3, <2>2, <2>10
  <2>13. \A j \in k .. e - 1 : j \in 1 .. N /\ s[j] # c
    <3> SUFFICES ASSUME NEW j \in k .. e - 1 PROVE j \in 1 .. N /\ s[j] # c
      OBVIOUS
    <3>1. j \in 1 .. N /\ j - k + 1 \in 1 .. at - 1 /\ k + (j - k + 1) - 1 = j
      BY <1>1, <2>2, <2>10
    <3>2. j - k + 1 \in 1 .. N + 1 - k
      BY <2>5, <3>1
    <3> QED
      BY <1>3, <2>3, <3>1, <3>2
  <2> QED
    BY <1>1, <1>2, <2>5, <2>9, <2>11, <2>12, <2>13 DEF part, e, N
<1> QED
  BY <1>9, <1>10

\* The places where the parts between separators that are not empty begin and end.
CutStarts(s, c) == {k \in Starts(s, c) : PartAt(s, c, k) # <<>>}
CutAt(s, c) == Ascending(CutStarts(s, c))
CutEnd(s, c) == [m \in 1 .. Cardinality(CutStarts(s, c)) |->
                    CutAt(s, c)[m] + Len(PartAt(s, c, CutAt(s, c)[m]))]

\* What the parts of s of which the m-th begins at a[m] and ends before e[m] are: there
\* is no separator in them, one between any two of them, and nothing else is left out.
Cuts(s, c, a, e, M) ==
    /\ M \in Nat /\ a \in [1 .. M -> 1 .. Len(s)] /\ e \in [1 .. M -> 1 .. Len(s) + 1]
    /\ \A m \in 1 .. M : /\ a[m] < e[m] /\ \A j \in a[m] .. e[m] - 1 : s[j] # c
                         /\ e[m] = Len(s) + 1 \/ s[e[m]] = c
    /\ \A m, k \in 1 .. M : m < k => e[m] < a[k]
    /\ \A j \in 1 .. Len(s) : s[j] # c => \E m \in 1 .. M : a[m] <= j /\ j < e[m]

\* Those of Split are such parts.
LEMMA CutsOf ==
    ASSUME NEW S, NEW s \in Seq(S), NEW c
    PROVE  LET a == CutAt(s, c)
               e == CutEnd(s, c)
               M == Cardinality(CutStarts(s, c))
           IN  /\ Cuts(s, c, a, e, M) /\ DOMAIN a = 1 .. M
               /\ \A m \in 1 .. M : /\ PartAt(s, c, a[m]) \in Seq(S)
                                    /\ Len(PartAt(s, c, a[m])) = e[m] - a[m]
                                    /\ \A i \in 1 .. e[m] - a[m] :
                                          PartAt(s, c, a[m])[i] = s[a[m] + i - 1]
<1> DEFINE K == CutStarts(s, c)
           a == CutAt(s, c)
           e == CutEnd(s, c)
           M == Cardinality(K)
           N == Len(s)
           end(k) == k + Len(PartAt(s, c, k))
<1>1. N \in Nat
  BY LenProperties
<1>2. \A k \in Starts(s, c) :
         /\ PartAt(s, c, k) \in Seq(S) /\ Len(PartAt(s, c, k)) \in Nat /\ k \in 1 .. N + 1
         /\ end(k) \in k .. N + 1
         /\ \A i \in 1 .. Len(PartAt(s, c, k)) : PartAt(s, c, k)[i] = s[k + i - 1]
         /\ \A j \in k .. end(k) - 1 : j \in 1 .. N /\ s[j] # c
         /\ end(k) = N + 1 \/ (end(k) \in 1 .. N /\ s[end(k)] = c)
  BY PartIs
<1>3. K \in SUBSET Starts(s, c) /\ \A k \in Starts(s, c) : k \in K <=> Len(PartAt(s, c, k)) # 0
  <2>1. \A k \in Starts(s, c) : PartAt(s, c, k) = <<>> <=> Len(PartAt(s, c, k)) = 0
    BY <1>2, EmptySeq
  <2> QED
    BY <2>1 DEF CutStarts
<1>4. \A k \in K : k \in 1 .. N /\ k < end(k)
  <2> SUFFICES ASSUME NEW k \in K PROVE k \in 1 .. N /\ k < end(k)
    OBVIOUS
  <2> DEFINE l == Len(PartAt(s, c, k))
  <2>1. l \in Nat /\ l # 0 /\ k \in 1 .. N + 1 /\ k + l \in k .. N + 1
    BY <1>2, <1>3
  <2> HIDE DEF l
  <2>2. k \in 1 .. N /\ k < k + l
    BY <1>1, <2>1
  <2> QED
    BY <2>2 DEF l
<1>5. K \in SUBSET Nat /\ IsFiniteSet(K)
  <2>1. K \in SUBSET (1 .. N) /\ IsFiniteSet(1 .. N)
    BY <1>1, <1>4, FS_Interval
  <2>2. \A k \in 1 .. N : k \in Nat
    BY <1>1
  <2> HIDE DEF K
  <2>3. IsFiniteSet(K)
    BY <2>1, FS_Subset
  <2> QED
    BY <2>1, <2>2, <2>3
<1>6. /\ M \in Nat /\ a \in [1 .. M -> K]
      /\ \A m, k \in 1 .. M : m < k => a[m] < a[k]
      /\ \A x \in K : \E m \in 1 .. M : a[m] = x
  <2>1. a = Ascending(K)
    BY DEF CutAt
  <2> HIDE DEF K, a
  <2> QED
    BY <1>5, <2>1, AscendingOrder
<1>7. \A m \in 1 .. M : e[m] = end(a[m])
  BY DEF CutEnd
<1>20. e \in [1 .. M -> 1 .. N + 1]
  <2>1. \A k \in K : end(k) \in 1 .. N + 1
    <3> SUFFICES ASSUME NEW k \in K PROVE end(k) \in 1 .. N + 1
      OBVIOUS
    <3>1. k \in 1 .. N /\ end(k) \in k .. N + 1
      BY <1>2, <1>3, <1>4
    <3> HIDE DEF end
    <3> QED
      BY <1>1, <3>1
  <2>2. e = [m \in 1 .. M |-> end(a[m])]
    BY DEF CutEnd
  <2> HIDE DEF K, M, a, e, end
  <2> QED
    BY <1>6, <2>1, <2>2
<1>8. \A k \in Starts(s, c) : PartAt(s, c, k) = PartAt(s, c, k) /\ Len(PartAt(s, c, k)) = end(k) - k
  BY <1>2
<1> HIDE DEF K, M, a, e, end, N
<1>9. \A m \in 1 .. M : a[m] \in K /\ a[m] \in Starts(s, c) /\ a[m] \in 1 .. N /\ a[m] < e[m]
  BY <1>3, <1>4, <1>6, <1>7
<1>10. \A m \in 1 .. M : /\ \A j \in a[m] .. e[m] - 1 : s[j] # c
                         /\ e[m] = N + 1 \/ s[e[m]] = c
  BY <1>2, <1>7, <1>9
<1>11. \A m, k \in 1 .. M : m < k => e[m] < a[k]
  <2> SUFFICES ASSUME NEW m \in 1 .. M, NEW k \in 1 .. M, m < k PROVE e[m] < a[k]
    OBVIOUS
  <2>1. a[m] < a[k] /\ a[m] \in 1 .. N /\ a[k] \in 1 .. N /\ e[m] \in 1 .. N + 1
    BY <1>6, <1>9, <1>20
  <2>2. a[k] # 1
    BY <1>1, <2>1
  <2>3. s[a[k] - 1] = c
    BY <1>9, <2>2 DEF Starts
  <2>4. a[k] - 1 \notin a[m] .. e[m] - 1
    BY <1>10, <2>3
  <2> QED
    BY <1>1, <2>1, <2>4
<1>12. ASSUME NEW j \in 1 .. N, s[j] # c
       PROVE  \E m \in 1 .. M : a[m] <= j /\ j < e[m]
  <2> DEFINE T == {k \in Starts(s, c) : k <= j}
             x == Max(T)
  <2>1. \A k \in Starts(s, c) : k \in Nat /\ k \in 1 .. N + 1
    BY <1>1, <1>2
  <2>2. T \in SUBSET (0 .. j)
    BY <1>1, <2>1
  <2>3. 1 \in T
    BY <1>1 DEF Starts, N
  <2> HIDE DEF T
  <2>4. j \in Nat /\ T # {}
    BY <2>3
  <2>5. x \in T /\ \A y \in T : x >= y
    BY <2>2, <2>4, GreatestNumber
  <2> HIDE DEF x
  <2>6. x \in Starts(s, c) /\ x <= j /\ x \in 1 .. N + 1
    BY <2>1, <2>5 DEF T
  <2>7. end(x) \in x .. N + 1 /\ (end(x) = N + 1 \/ (end(x) \in 1 .. N /\ s[end(x)] = c))
    BY <1>2, <2>6
  <2>8. j < end(x)
    <3> SUFFICES ASSUME end(x) <= j PROVE FALSE
      BY <1>1, <2>7
    <3>1. end(x) \in 1 .. N /\ s[end(x)] = c /\ end(x) # j
      BY <1>1, <1>12, <2>7
    <3>2. /\ end(x) + 1 \in 1 .. N + 1 /\ end(x) + 1 - 1 = end(x)
          /\ end(x) + 1 <= j /\ ~(x >= end(x) + 1)
      BY <1>1, <2>6, <2>7, <3>1
    <3>3. end(x) + 1 \in Starts(s, c)
      BY <3>1, <3>2 DEF Starts, N
    <3> QED
      BY <2>5, <3>2, <3>3 DEF T
  <2>9. Len(PartAt(s, c, x)) = end(x) - x
    BY <1>8, <2>6
  <2>10. Len(PartAt(s, c, x)) # 0
    BY <2>6, <2>7, <2>8, <2>9
  <2>11. x \in K
    BY <1>3, <2>6, <2>10
  <2>12. PICK m \in 1 .. M : a[m] = x
    BY <1>6, <2>11
  <2> QED
    BY <1>7, <2>6, <2>8, <2>12
<1>13. Cuts(s, c, a, e, M)
  <2>1. a \in [1 .. M -> 1 .. N]
    BY <1>6, <1>9
  <2> QED
    BY <1>6, <1>9, <1>10, <1>11, <1>12, <1>20, <2>1 DEF Cuts, N
<1>14. \A m \in 1 .. M : /\ PartAt(s, c, a[m]) \in Seq(S)
                         /\ Len(PartAt(s, c, a[m])) = e[m] - a[m]
                         /\ \A i \in 1 .. e[m] - a[m] :
                               PartAt(s, c, a[m])[i] = s[a[m] + i - 1]
  <2> SUFFICES ASSUME NEW m \in 1 .. M
               PROVE  /\ PartAt(s, c, a[m]) \in Seq(S)
                      /\ Len(PartAt(s, c, a[m])) = e[m] - a[m]
                      /\ \A i \in 1 .. e[m] - a[m] : PartAt(s, c, a[m])[i] = s[a[m] + i - 1]
    OBVIOUS
  <2>1. a[m] \in Starts(s, c) /\ e[m] = end(a[m])
    BY <1>7, <1>9
  <2>2. Len(PartAt(s, c, a[m])) = e[m] - a[m]
    BY <1>8, <2>1
  <2> QED
    BY <1>2, <2>1, <2>2
<1> QED
  BY <1>6, <1>13, <1>14 DEF K, M, a, e

\* The first part is empty if a separator is first, the last one if one is last.
LEMMA EndsOf ==
    ASSUME NEW S, NEW s \in Seq(S), s # <<>>, NEW c
    PROVE  /\ Len(s) \in Nat \ {0}
           /\ PartAt(s, c, 1) = <<>> <=> s[1] = c
           /\ PartAt(s, c, Max(Starts(s, c))) = <<>> <=> s[Len(s)] = c
<1> DEFINE N == Len(s)
           T == Starts(s, c)
           x == Max(T)
           end(k) == k + Len(PartAt(s, c, k))
<1>1. N \in Nat /\ N # 0
  BY EmptySeq, LenProperties
<1>2. \A k \in T :
         /\ PartAt(s, c, k) \in Seq(S) /\ Len(PartAt(s, c, k)) \in Nat /\ k \in 1 .. N + 1
         /\ end(k) \in k .. N + 1
         /\ \A j \in k .. end(k) - 1 : j \in 1 .. N /\ s[j] # c
         /\ end(k) = N + 1 \/ (end(k) \in 1 .. N /\ s[end(k)] = c)
  BY PartIs
<1>3. \A k \in T : PartAt(s, c, k) = <<>> <=> end(k) = k
  <2> SUFFICES ASSUME NEW k \in T PROVE PartAt(s, c, k) = <<>> <=> end(k) = k
    OBVIOUS
  <2>1. PartAt(s, c, k) = <<>> <=> Len(PartAt(s, c, k)) = 0
    BY <1>2, EmptySeq
  <2>2. k \in Nat /\ Len(PartAt(s, c, k)) \in Nat
    BY <1>1, <1>2
  <2> QED
    BY <2>1, <2>2
<1>4. T \in SUBSET (0 .. N + 1) /\ 1 \in T /\ \A k \in 2 .. N + 1 : k \in T <=> s[k - 1] = c
  <2>1. 1 \in 1 .. N + 1 /\ \A k \in 2 .. N + 1 : k \in 1 .. N + 1 /\ k # 1
    BY <1>1
  <2>2. T \in SUBSET (1 .. N + 1)
    BY <1>2
  <2> QED
    BY <1>1, <2>1, <2>2 DEF Starts
<1> HIDE DEF end, T, N
<1>5. x \in T /\ \A y \in T : x >= y
  <2>1. N + 1 \in Nat /\ T # {}
    BY <1>1, <1>4
  <2> QED
    BY <1>4, <2>1, GreatestNumber
<1> HIDE DEF x
<1>6. end(1) = 1 <=> s[1] = c
  <2>1. /\ end(1) \in 1 .. N + 1 /\ \A j \in 1 .. end(1) - 1 : s[j] # c
        /\ end(1) = N + 1 \/ s[end(1)] = c
    BY <1>2, <1>4
  <2>2. CASE end(1) = 1
    BY <1>1, <2>1, <2>2
  <2>3. CASE end(1) # 1
    <3>1. 1 \in 1 .. end(1) - 1
      BY <1>1, <2>1, <2>3
    <3> QED
      BY <2>1, <2>3, <3>1
  <2> QED
    BY <2>2, <2>3
<1>7. end(x) = x <=> s[N] = c
  <2>1. /\ end(x) \in x .. N + 1 /\ x \in 1 .. N + 1
        /\ end(x) = N + 1 \/ (end(x) \in 1 .. N /\ s[end(x)] = c)
        /\ \A j \in x .. end(x) - 1 : s[j] # c
    BY <1>2, <1>5
  <2>2. end(x) = N + 1
    <3> SUFFICES ASSUME end(x) \in 1 .. N, s[end(x)] = c PROVE FALSE
      BY <2>1
    <3>1. end(x) + 1 \in 2 .. N + 1 /\ end(x) + 1 - 1 = end(x) /\ ~(x >= end(x) + 1)
      BY <1>1, <2>1
    <3> QED
      BY <1>4, <1>5, <3>1
  <2>3. CASE x = N + 1
    <3>1. N + 1 \in 2 .. N + 1 /\ N + 1 - 1 = N
      BY <1>1
    <3>2. N + 1 \in T
      BY <1>5, <2>3
    <3>5. N + 1 # 1
      BY <1>1
    <3>3. s[N + 1 - 1] = c
      BY <1>1, <3>1, <3>2, <3>5 DEF T, Starts
    <3>4. s[N] = c
      BY <3>1, <3>3
    <3> QED
      BY <2>2, <2>3, <3>4
  <2>4. CASE x # N + 1
    <3>1. N \in x .. end(x) - 1
      BY <1>1, <2>1, <2>2, <2>4
    <3> QED
      BY <2>1, <2>2, <2>4, <3>1
  <2> QED
    BY <2>3, <2>4
<1> QED
  BY <1>1, <1>3, <1>4, <1>5, <1>6, <1>7 DEF N, x, T

\* How a text is what a pattern with the star c stands for: what r from j on stands for
\* begins at f[j].
Fits(r, c, s, f) ==
    /\ f \in [1 .. Len(r) + 1 -> 1 .. Len(s) + 1] /\ f[1] = 1 /\ f[Len(r) + 1] = Len(s) + 1
    /\ \A j \in 1 .. Len(r) :
          /\ r[j] = c => f[j] <= f[j + 1]
          /\ r[j] # c => f[j] \in 1 .. Len(s) /\ s[f[j]] = r[j] /\ f[j + 1] = f[j] + 1

\* The same by the parts between the stars: the m-th stands at g[m].
Lies(r, c, a, e, M, s, g) ==
    /\ g \in [1 .. M -> 1 .. Len(s) + 1]
    /\ \A m \in 1 .. M : /\ g[m] + (e[m] - a[m]) <= Len(s) + 1
                         /\ \A i \in 1 .. e[m] - a[m] : s[g[m] + i - 1] = r[a[m] + i - 1]
    /\ \A m, k \in 1 .. M : m < k => g[m] + (e[m] - a[m]) <= g[k]
    /\ r[1] # c => g[1] = 1
    /\ r[Len(r)] # c => g[M] + (e[M] - a[M]) = Len(s) + 1

\* The places go forward, one by one where there is no star.
LEMMA FitsMoves ==
    ASSUME NEW S, NEW r \in Seq(S), NEW s \in Seq(S), NEW c, NEW f, Fits(r, c, s, f)
    PROVE  /\ \A i, j \in 1 .. Len(r) + 1 : i <= j => f[i] <= f[j]
           /\ \A p, q \in 1 .. Len(r) + 1 :
                 p <= q /\ (\A j \in p .. q - 1 : r[j] # c) =>
                     \A i \in p .. q : f[i] = f[p] + (i - p)
<1> DEFINE R == Len(r)
           N == Len(s)
<1>1. R \in Nat /\ N \in Nat
  BY LenProperties
<1>5. f \in [1 .. R + 1 -> 1 .. N + 1]
  BY DEF Fits
<1>6. \A j \in 1 .. R : r[j] = c => f[j] <= f[j + 1]
  BY DEF Fits
<1>7. \A j \in 1 .. R : r[j] # c => f[j + 1] = f[j] + 1
  BY DEF Fits
<1> HIDE DEF R, N
<1>2. \A j \in 1 .. R + 1 : f[j] \in Nat
  BY <1>1, <1>5
<1>3. ASSUME NEW i \in 1 .. R + 1, NEW j \in 1 .. R + 1, i <= j
      PROVE  f[i] <= f[j]
  <2> DEFINE T == {y \in i .. R + 1 : f[y] < f[i]}
             t == Min(T)
  <2>1. T \in SUBSET Nat
    BY <1>1
  <2> SUFFICES ASSUME T # {} PROVE FALSE
    <3>1. j \in i .. R + 1 /\ j \notin T
      BY <1>1, <1>3
    <3>2. f[i] \in Nat /\ f[j] \in Nat
      BY <1>2
    <3> QED
      BY <3>1, <3>2
  <2> HIDE DEF T
  <2>2. t \in T /\ \A y \in T : t <= y
    BY <2>1, LeastNumber
  <2> HIDE DEF t
  <2>3. t \in i .. R + 1 /\ f[t] < f[i] /\ f[i] \in Nat /\ f[t] \in Nat
    <3>1. t \in i .. R + 1 /\ f[t] < f[i]
      BY <2>2 DEF T
    <3>2. t \in 1 .. R + 1
      BY <1>1, <3>1
    <3> QED
      BY <1>2, <3>1, <3>2
  <2>4. t # i
    BY <2>3
  <2>5. t - 1 \in i .. R + 1 /\ t - 1 \in 1 .. R /\ t - 1 + 1 = t /\ ~(t <= t - 1) /\ t - 1 \in 1 .. R + 1
    BY <1>1, <2>3, <2>4
  <2>6. t - 1 \notin T
    BY <2>2, <2>5
  <2>7. ~(f[t - 1] < f[i]) /\ f[t - 1] \in Nat
    BY <1>2, <2>5, <2>6 DEF T
  <2>8. f[t - 1] <= f[t]
    <3>1. (r[t - 1] = c => f[t - 1] <= f[t]) /\ (r[t - 1] # c => f[t] = f[t - 1] + 1)
      BY <1>6, <1>7, <2>5
    <3> QED
      BY <2>3, <2>7, <3>1
  <2> QED
    BY <2>3, <2>7, <2>8
<1>4. ASSUME NEW p \in 1 .. R + 1, NEW q \in 1 .. R + 1, p <= q, \A j \in p .. q - 1 : r[j] # c,
             NEW i \in p .. q
      PROVE  f[i] = f[p] + (i - p)
  <2> DEFINE T == {y \in p .. q : f[y] # f[p] + (y - p)}
             t == Min(T)
  <2>1. T \in SUBSET Nat
    BY <1>1
  <2> SUFFICES ASSUME T # {} PROVE FALSE
    OBVIOUS
  <2> HIDE DEF T
  <2>2. t \in T /\ \A y \in T : t <= y
    BY <2>1, LeastNumber
  <2> HIDE DEF t
  <2>3. t \in p .. q /\ f[t] # f[p] + (t - p) /\ f[p] \in Nat
    BY <1>2, <2>2 DEF T
  <2>4. t # p
    BY <2>3
  <2>5. /\ t - 1 \in p .. q /\ t - 1 \in p .. q - 1 /\ t - 1 \in 1 .. R /\ t - 1 + 1 = t
        /\ ~(t <= t - 1) /\ t - 1 \in 1 .. R + 1
    BY <1>1, <2>3, <2>4
  <2>6. t - 1 \notin T
    BY <2>2, <2>5
  <2>7. f[t - 1] = f[p] + (t - 1 - p)
    BY <2>5, <2>6 DEF T
  <2>8. f[t] = f[t - 1] + 1
    BY <1>4, <1>7, <2>5
  <2>9. f[p] + (t - 1 - p) + 1 = f[p] + (t - p)
    BY <1>1, <2>3
  <2> QED
    BY <2>3, <2>7, <2>8, <2>9
<1> QED
  BY <1>3, <1>4 DEF R

\* The first part stands at the beginning, the last one at the end, if no star does.
LEMMA CutsAtEnds ==
    ASSUME NEW S, NEW s \in Seq(S), s # <<>>, NEW c, NEW a, NEW e, NEW M, Cuts(s, c, a, e, M)
    PROVE  /\ s[1] # c => M >= 1 /\ a[1] = 1
           /\ s[Len(s)] # c => M >= 1 /\ e[M] = Len(s) + 1
<1> DEFINE R == Len(s)
<1>1. R \in Nat /\ R # 0 /\ 1 \in 1 .. R /\ R \in 1 .. R
  <2>1. R \in Nat /\ R # 0
    BY EmptySeq, LenProperties
  <2> HIDE DEF R
  <2> QED
    BY <2>1
<1>2. /\ M \in Nat /\ a \in [1 .. M -> 1 .. R] /\ e \in [1 .. M -> 1 .. R + 1]
      /\ \A m \in 1 .. M : a[m] < e[m] /\ (e[m] = R + 1 \/ s[e[m]] = c)
      /\ \A m \in 1 .. M : \A j \in a[m] .. e[m] - 1 : s[j] # c
      /\ \A m, k \in 1 .. M : m < k => e[m] < a[k]
      /\ \A j \in 1 .. R : s[j] # c => \E m \in 1 .. M : a[m] <= j /\ j < e[m]
  BY DEF Cuts
<1> HIDE DEF R
<1>3. ASSUME s[1] # c PROVE M >= 1 /\ a[1] = 1
  <2>1. PICK m \in 1 .. M : a[m] <= 1 /\ 1 < e[m]
    BY <1>1, <1>2, <1>3
  <2>2. M >= 1 /\ 1 \in 1 .. M
    BY <1>2, <2>1
  <2>3. a[m] \in 1 .. R /\ a[1] \in 1 .. R /\ e[1] \in 1 .. R + 1 /\ a[1] < e[1]
    BY <1>2, <2>1, <2>2
  <2>4. a[m] = 1
    BY <1>1, <2>1, <2>3
  <2>5. CASE m = 1
    BY <2>2, <2>4, <2>5
  <2>6. CASE m # 1
    <3>1. 1 < m
      BY <1>2, <2>1, <2>6
    <3>2. e[1] < a[m]
      BY <1>2, <2>2, <3>1
    <3> QED
      BY <1>1, <2>3, <2>4, <3>2
  <2> QED
    BY <2>5, <2>6
<1>4. ASSUME s[R] # c PROVE M >= 1 /\ e[M] = R + 1
  <2>1. PICK m \in 1 .. M : a[m] <= R /\ R < e[m]
    BY <1>1, <1>2, <1>4
  <2>2. M >= 1 /\ M \in 1 .. M
    BY <1>2, <2>1
  <2>3. a[M] \in 1 .. R /\ e[m] \in 1 .. R + 1
    BY <1>2, <2>1, <2>2
  <2>4. e[m] = R + 1
    BY <1>1, <2>1, <2>3
  <2>5. CASE m = M
    BY <2>2, <2>4, <2>5
  <2>6. CASE m # M
    <3>1. m < M
      BY <1>2, <2>1, <2>6
    <3>2. e[m] < a[M]
      BY <1>2, <2>2, <3>1
    <3> QED
      BY <1>1, <2>3, <2>4, <3>2
  <2> QED
    BY <2>5, <2>6
<1> QED
  BY <1>3, <1>4 DEF R

\* Where r fits s, its parts stand in s one behind the other ...
LEMMA FitsLies ==
    ASSUME NEW S, NEW r \in Seq(S), r # <<>>, NEW s \in Seq(S), NEW c,
           NEW a, NEW e, NEW M, Cuts(r, c, a, e, M), NEW f, Fits(r, c, s, f)
    PROVE  Lies(r, c, a, e, M, s, [m \in 1 .. M |-> f[a[m]]])
<1> DEFINE R == Len(r)
           N == Len(s)
           g == [m \in 1 .. M |-> f[a[m]]]
<1>1. R \in Nat /\ N \in Nat /\ R # 0
  BY EmptySeq, LenProperties
<1>2. /\ M \in Nat /\ a \in [1 .. M -> 1 .. R] /\ e \in [1 .. M -> 1 .. R + 1]
      /\ \A m \in 1 .. M : a[m] < e[m] /\ (e[m] = R + 1 \/ r[e[m]] = c)
      /\ \A m \in 1 .. M : \A j \in a[m] .. e[m] - 1 : r[j] # c
      /\ \A m, k \in 1 .. M : m < k => e[m] < a[k]
  BY DEF Cuts
<1>3. /\ f \in [1 .. R + 1 -> 1 .. N + 1] /\ f[1] = 1 /\ f[R + 1] = N + 1
      /\ \A j \in 1 .. R : r[j] # c => f[j] \in 1 .. N /\ s[f[j]] = r[j]
  BY DEF Fits
<1>16. \A i, j \in 1 .. R + 1 : i <= j => f[i] <= f[j]
  BY FitsMoves
<1>17. \A p, q \in 1 .. R + 1 : p <= q /\ (\A j \in p .. q - 1 : r[j] # c) =>
                                     \A i \in p .. q : f[i] = f[p] + (i - p)
  <2> HIDE DEF N, g
  <2> QED
    BY FitsMoves
<1>5. /\ r[1] # c => M >= 1 /\ a[1] = 1
      /\ r[R] # c => M >= 1 /\ e[M] = R + 1
  BY CutsAtEnds
<1> HIDE DEF R, N
<1>6. \A m \in 1 .. M : /\ a[m] \in 1 .. R /\ a[m] \in 1 .. R + 1 /\ e[m] \in 1 .. R + 1
                        /\ a[m] < e[m] /\ a[m] <= e[m] /\ e[m] \in a[m] .. e[m]
  BY <1>1, <1>2
<1>7. \A m \in 1 .. M : \A i \in a[m] .. e[m] : f[i] = f[a[m]] + (i - a[m])
  <2> SUFFICES ASSUME NEW m \in 1 .. M PROVE \A i \in a[m] .. e[m] : f[i] = f[a[m]] + (i - a[m])
    OBVIOUS
  <2> QED
    BY <1>2, <1>6, <1>17
<1>8. \A m \in 1 .. M : f[e[m]] = f[a[m]] + (e[m] - a[m])
  BY <1>6, <1>7
<1>9. \A j \in 1 .. R + 1 : f[j] \in 1 .. N + 1
  BY <1>3
<1>10. g \in [1 .. M -> 1 .. N + 1] /\ \A m \in 1 .. M : g[m] = f[a[m]]
  BY <1>6, <1>9
<1> HIDE DEF g
<1>11. ASSUME NEW m \in 1 .. M PROVE g[m] + (e[m] - a[m]) <= N + 1
  <2>1. g[m] + (e[m] - a[m]) = f[e[m]] /\ f[e[m]] \in 1 .. N + 1
    BY <1>6, <1>8, <1>9, <1>10
  <2> QED
    BY <1>1, <2>1
<1>12. ASSUME NEW m \in 1 .. M, NEW i \in 1 .. e[m] - a[m] PROVE s[g[m] + i - 1] = r[a[m] + i - 1]
  <2>1. a[m] \in 1 .. R /\ e[m] \in 1 .. R + 1
    BY <1>6
  <2>2. a[m] + i - 1 \in a[m] .. e[m] /\ a[m] + i - 1 \in a[m] .. e[m] - 1 /\ a[m] + i - 1 \in 1 .. R
        /\ (a[m] + i - 1) - a[m] = i - 1
    BY <1>1, <2>1
  <2>3. f[a[m] + i - 1] = f[a[m]] + (i - 1)
    BY <1>7, <2>2
  <2>4. f[a[m]] + (i - 1) = f[a[m]] + i - 1
    BY <1>1, <1>6, <1>9
  <2>5. r[a[m] + i - 1] # c
    BY <1>2, <2>2
  <2>6. s[f[a[m] + i - 1]] = r[a[m] + i - 1]
    BY <1>3, <2>2, <2>5
  <2> QED
    BY <1>10, <2>3, <2>4, <2>6
<1>13. ASSUME NEW m \in 1 .. M, NEW k \in 1 .. M, m < k PROVE g[m] + (e[m] - a[m]) <= g[k]
  <2>1. e[m] < a[k] /\ e[m] \in 1 .. R + 1 /\ a[k] \in 1 .. R + 1
    BY <1>2, <1>6, <1>13
  <2>2. e[m] <= a[k]
    BY <1>1, <2>1
  <2>3. f[e[m]] <= f[a[k]]
    BY <1>16, <2>1, <2>2
  <2> QED
    BY <1>8, <1>10, <2>3
<1>14. ASSUME r[1] # c PROVE g[1] = 1
  <2>1. 1 \in 1 .. M /\ a[1] = 1
    BY <1>2, <1>5, <1>14
  <2> QED
    BY <1>3, <1>10, <2>1
<1>15. ASSUME r[R] # c PROVE g[M] + (e[M] - a[M]) = N + 1
  <2>1. M \in 1 .. M /\ e[M] = R + 1
    BY <1>2, <1>5, <1>15
  <2> QED
    BY <1>3, <1>8, <1>10, <2>1
<1> QED
  BY <1>10, <1>11, <1>12, <1>13, <1>14, <1>15 DEF Lies, R, N, g

\* ... and where they do, r fits s.
LEMMA LiesFits ==
    ASSUME NEW S, NEW r \in Seq(S), r # <<>>, NEW s \in Seq(S), NEW c,
           NEW a, NEW e, NEW M, Cuts(r, c, a, e, M), NEW g, Lies(r, c, a, e, M, s, g)
    PROVE  \E f : Fits(r, c, s, f)
<1> DEFINE R == Len(r)
           N == Len(s)
           h(m) == g[m] + (e[m] - a[m])
           In(j, m) == a[m] <= j /\ j < e[m]
           T(j) == {m \in 1 .. M : e[m] <= j}
           q(j) == IF T(j) = {} THEN 1 ELSE h(Max(T(j)))
           f == [j \in 1 .. R + 1 |->
                    IF j = R + 1 THEN N + 1
                    ELSE IF \E m \in 1 .. M : In(j, m)
                    THEN LET m == CHOOSE m \in 1 .. M : In(j, m) IN g[m] + (j - a[m])
                    ELSE q(j)]
<1>1. R \in Nat /\ N \in Nat /\ R # 0
  BY EmptySeq, LenProperties
<1>2. /\ M \in Nat /\ a \in [1 .. M -> 1 .. R] /\ e \in [1 .. M -> 1 .. R + 1]
      /\ \A m \in 1 .. M : a[m] < e[m] /\ (e[m] = R + 1 \/ r[e[m]] = c)
      /\ \A m \in 1 .. M : \A j \in a[m] .. e[m] - 1 : r[j] # c
      /\ \A m, k \in 1 .. M : m < k => e[m] < a[k]
      /\ \A j \in 1 .. R : r[j] # c => \E m \in 1 .. M : a[m] <= j /\ j < e[m]
  BY DEF Cuts
<1>3. /\ g \in [1 .. M -> 1 .. N + 1]
      /\ \A m \in 1 .. M : h(m) <= N + 1
      /\ \A m \in 1 .. M : \A i \in 1 .. e[m] - a[m] : s[g[m] + i - 1] = r[a[m] + i - 1]
      /\ \A m, k \in 1 .. M : m < k => h(m) <= g[k]
      /\ r[1] # c => g[1] = 1
      /\ r[R] # c => h(M) = N + 1
  BY DEF Lies
<1>4. /\ r[1] # c => M >= 1 /\ a[1] = 1
      /\ r[R] # c => M >= 1 /\ e[M] = R + 1
  BY CutsAtEnds
<1> HIDE DEF R, N
<1>5. \A m \in 1 .. M : /\ m \in Nat /\ a[m] \in 1 .. R /\ e[m] \in 1 .. R + 1 /\ a[m] < e[m]
                        /\ g[m] \in 1 .. N + 1
  <2> SUFFICES ASSUME NEW m \in 1 .. M
               PROVE  /\ m \in Nat /\ a[m] \in 1 .. R /\ e[m] \in 1 .. R + 1 /\ a[m] < e[m]
                      /\ g[m] \in 1 .. N + 1
    OBVIOUS
  <2>1. a[m] \in 1 .. R /\ e[m] \in 1 .. R + 1 /\ a[m] < e[m]
    BY <1>2
  <2>2. g[m] \in 1 .. N + 1
    BY <1>3
  <2>3. m \in Nat
    BY <1>2
  <2> QED
    BY <2>1, <2>2, <2>3
<1>6. \A m \in 1 .. M : h(m) \in 1 .. N + 1 /\ g[m] < h(m)
  <2> SUFFICES ASSUME NEW m \in 1 .. M PROVE h(m) \in 1 .. N + 1 /\ g[m] < h(m)
    OBVIOUS
  <2>1. a[m] \in 1 .. R /\ e[m] \in 1 .. R + 1 /\ a[m] < e[m] /\ g[m] \in 1 .. N + 1
        /\ g[m] + (e[m] - a[m]) <= N + 1
    BY <1>3, <1>5
  <2> QED
    BY <1>1, <2>1
<1> HIDE DEF h
<1>7. \A j \in 1 .. R : \A m, k \in 1 .. M : In(j, m) /\ In(j, k) => m = k
  <2> SUFFICES ASSUME NEW j \in 1 .. R, NEW m \in 1 .. M, NEW k \in 1 .. M, In(j, m), In(j, k), m # k
               PROVE  FALSE
    OBVIOUS
  <2>1. /\ a[m] \in 1 .. R /\ e[m] \in 1 .. R + 1 /\ a[k] \in 1 .. R /\ e[k] \in 1 .. R + 1
        /\ (m < k \/ k < m)
    BY <1>2, <1>5
  <2>2. (m < k => e[m] < a[k]) /\ (k < m => e[k] < a[m])
    BY <1>2
  <2> QED
    BY <1>1, <2>1, <2>2
\* What is in front of each place.
<1>8. ASSUME NEW j \in 1 .. R + 1
      PROVE  /\ q(j) \in 1 .. N + 1
             /\ q(j) = 1 \/ \E k \in 1 .. M : e[k] <= j /\ q(j) = h(k)
             /\ \A m \in 1 .. M : e[m] <= j => h(m) <= q(j)
  <2>1. T(j) \in SUBSET (1 .. M) /\ \A m \in 1 .. M : m \in T(j) <=> e[m] <= j
    OBVIOUS
  <2>2. CASE T(j) = {}
    <3>1. q(j) = 1 /\ \A m \in 1 .. M : ~(e[m] <= j)
      BY <2>1, <2>2
    <3>2. 1 \in 1 .. N + 1
      BY <1>1
    <3> HIDE DEF q
    <3> QED
      BY <3>1, <3>2
  <2>3. CASE T(j) # {}
    <3> DEFINE x == Max(T(j))
    <3>1. q(j) = h(x)
      BY <2>3
    <3> HIDE DEF q, T
    <3>2. T(j) \in SUBSET (0 .. M)
      BY <1>2, <2>1
    <3>3. x \in T(j) /\ \A y \in T(j) : x >= y
      BY <1>2, <2>3, <3>2, GreatestNumber
    <3>4. x \in 1 .. M /\ e[x] <= j
      BY <2>1, <3>3
    <3> HIDE DEF x
    <3>5. \A m \in 1 .. M : e[m] <= j => h(m) <= h(x)
      <4> SUFFICES ASSUME NEW m \in 1 .. M, e[m] <= j PROVE h(m) <= h(x)
        OBVIOUS
      <4>1. x >= m /\ m \in Nat /\ x \in Nat
        BY <1>5, <2>1, <3>3, <3>4
      <4>2. h(m) \in 1 .. N + 1 /\ h(x) \in 1 .. N + 1 /\ g[x] \in 1 .. N + 1 /\ g[x] < h(x)
        BY <1>5, <1>6, <3>4
      <4>3. m < x => h(m) <= g[x]
        BY <1>3, <3>4
      <4>4. m < x \/ m = x
        BY <4>1
      <4> QED
        BY <1>1, <4>2, <4>3, <4>4
    <3> QED
      BY <1>6, <3>1, <3>4, <3>5
  <2> QED
    BY <2>2, <2>3
<1> HIDE DEF T, q
<1>9. ASSUME NEW j \in 1 .. R, NEW m \in 1 .. M, In(j, m)
      PROVE  f[j] = g[m] + (j - a[m])
  <2>1. j \in 1 .. R + 1 /\ j # R + 1
    BY <1>1
  <2>2. (CHOOSE k \in 1 .. M : In(j, k)) = m
    <3> DEFINE x == CHOOSE k \in 1 .. M : In(j, k)
    <3>1. x \in 1 .. M /\ In(j, x)
      BY <1>9
    <3> HIDE DEF x
    <3>2. x = m
      BY <1>7, <1>9, <3>1
    <3> QED
      BY <3>2 DEF x
  <2> HIDE DEF In
  <2> QED
    BY <1>9, <2>1, <2>2
<1>10. ASSUME NEW j \in 1 .. R, \A m \in 1 .. M : ~In(j, m)
       PROVE  f[j] = q(j)
  <2>1. j \in 1 .. R + 1 /\ j # R + 1
    BY <1>1
  <2> QED
    BY <1>10, <2>1
<1>11. f[R + 1] = N + 1 /\ DOMAIN f = 1 .. R + 1 /\ f = [j \in 1 .. R + 1 |-> f[j]]
  <2>1. R + 1 \in 1 .. R + 1
    BY <1>1
  <2> QED
    BY <2>1
<1> HIDE DEF f
<1>12. \A j \in 1 .. R : r[j] = c => \A m \in 1 .. M : ~In(j, m)
  <2> SUFFICES ASSUME NEW j \in 1 .. R, r[j] = c, NEW m \in 1 .. M, In(j, m) PROVE FALSE
    OBVIOUS
  <2>1. j \in a[m] .. e[m] - 1
    BY <1>1, <1>5
  <2> QED
    BY <1>2, <2>1
<1>13. ASSUME NEW j \in 1 .. R, NEW m \in 1 .. M, In(j, m)
       PROVE  /\ f[j] \in 1 .. N /\ s[f[j]] = r[j]
              /\ j + 1 < e[m] => In(j + 1, m)
  <2>1. /\ a[m] \in 1 .. R /\ e[m] \in 1 .. R + 1 /\ g[m] \in 1 .. N + 1 /\ a[m] <= j /\ j < e[m]
        /\ g[m] + (e[m] - a[m]) <= N + 1
    BY <1>3, <1>5, <1>13 DEF h
  <2>2. f[j] = g[m] + (j - a[m])
    BY <1>9, <1>13
  <2>8. j - a[m] + 1 \in 1 .. e[m] - a[m]
    BY <1>1, <2>1
  <2>9. a[m] + (j - a[m] + 1) - 1 = j /\ a[m] <= j + 1
    BY <1>1, <2>1
  <2>5. j - a[m] + 1 \in 1 .. e[m] - a[m] /\ a[m] + (j - a[m] + 1) - 1 = j /\ a[m] <= j + 1
    BY <2>8, <2>9
  <2>6. g[m] + (j - a[m] + 1) - 1 = g[m] + (j - a[m])
    BY <1>1, <2>1
  <2>7. g[m] + (j - a[m]) \in 1 .. N
    BY <1>1, <2>1
  <2>3. /\ j - a[m] + 1 \in 1 .. e[m] - a[m] /\ g[m] + (j - a[m] + 1) - 1 = g[m] + (j - a[m])
        /\ a[m] + (j - a[m] + 1) - 1 = j /\ g[m] + (j - a[m]) \in 1 .. N
        /\ a[m] <= j + 1
    BY <2>5, <2>6, <2>7
  <2>4. s[g[m] + (j - a[m] + 1) - 1] = r[a[m] + (j - a[m] + 1) - 1]
    BY <1>3, <2>3
  <2> QED
    BY <2>2, <2>3, <2>4
<1>14. \A j \in 1 .. R + 1 : f[j] \in 1 .. N + 1
  <2> SUFFICES ASSUME NEW j \in 1 .. R + 1 PROVE f[j] \in 1 .. N + 1
    OBVIOUS
  <2>1. CASE j = R + 1
    BY <1>1, <1>11, <2>1
  <2>2. CASE j \in 1 .. R /\ \E m \in 1 .. M : In(j, m)
    <3>1. f[j] \in 1 .. N
      BY <1>13, <2>2
    <3> QED
      BY <1>1, <3>1
  <2>3. CASE j \in 1 .. R /\ \A m \in 1 .. M : ~In(j, m)
    BY <1>8, <1>10, <2>3
  <2>4. j = R + 1 \/ j \in 1 .. R
    BY <1>1
  <2> HIDE DEF In
  <2> QED
    BY <2>1, <2>2, <2>3, <2>4
<1>15. f[1] = 1
  <2>1. 1 \in 1 .. R /\ 1 \in 1 .. R + 1
    BY <1>1
  <2>2. CASE r[1] # c
    <3>1. 1 \in 1 .. M /\ a[1] = 1 /\ g[1] = 1
      BY <1>2, <1>3, <1>4, <2>2
    <3>2. In(1, 1)
      BY <1>5, <3>1
    <3>3. f[1] = g[1] + (1 - a[1])
      BY <1>9, <2>1, <3>1, <3>2
    <3> QED
      BY <3>1, <3>3
  <2>3. CASE r[1] = c
    <3>1. f[1] = q(1)
      BY <1>10, <1>12, <2>1, <2>3
    <3>2. \A k \in 1 .. M : ~(e[k] <= 1)
      <4> SUFFICES ASSUME NEW k \in 1 .. M, e[k] <= 1 PROVE FALSE
        OBVIOUS
      <4>1. a[k] \in 1 .. R /\ e[k] \in 1 .. R + 1 /\ a[k] < e[k]
        BY <1>5
      <4> QED
        BY <1>1, <4>1
    <3> QED
      BY <1>8, <2>1, <3>1, <3>2
  <2> QED
    BY <2>2, <2>3
<1>16. ASSUME NEW j \in 1 .. R, r[j] = c PROVE f[j] <= f[j + 1]
  <2>1. j \in 1 .. R + 1 /\ j + 1 \in 1 .. R + 1 /\ j <= j + 1
    BY <1>1
  <2>2. f[j] = q(j) /\ \A m \in 1 .. M : ~In(j, m)
    BY <1>10, <1>12, <1>16
  <2>3. /\ q(j) \in 1 .. N + 1
        /\ q(j) = 1 \/ \E k \in 1 .. M : e[k] <= j /\ q(j) = h(k)
    BY <1>8, <2>1
  <2>4. CASE j + 1 = R + 1
    BY <1>1, <1>11, <2>2, <2>3, <2>4
  <2>5. CASE j + 1 # R + 1 /\ \E m \in 1 .. M : In(j + 1, m)
    <3>1. PICK m \in 1 .. M : In(j + 1, m)
      BY <2>5
    <3>2. j + 1 \in 1 .. R
      BY <1>1, <2>5
    <3> DEFINE i == j + 1
    <3> HIDE DEF i
    <3>9. i \in 1 .. R /\ In(i, m)
      BY <3>1, <3>2 DEF i
    <3>10. f[i] = g[m] + (i - a[m])
      BY <1>9, <3>9
    <3>3. f[j + 1] = g[m] + (j + 1 - a[m])
      <4>1. i = j + 1
        BY DEF i
      <4>2. i \in Int /\ a[m] \in Int /\ j \in Int
        BY <1>1, <1>5, <3>9
      <4> QED
        BY <3>10, <4>1, <4>2
    <3>4. ~In(j, m)
      BY <2>2
    <3>5. a[m] = j + 1 /\ g[m] \in 1 .. N + 1 /\ j < e[m]
      BY <1>1, <1>5, <3>1, <3>4
    <3>6. f[j + 1] = g[m]
      BY <1>1, <3>3, <3>5
    <3>7. ASSUME NEW k \in 1 .. M, e[k] <= j PROVE h(k) <= g[m]
      <4>1. a[k] \in 1 .. R /\ e[k] \in 1 .. R + 1 /\ e[m] \in 1 .. R + 1 /\ a[k] < e[k]
        BY <1>5
      <4>2. ~(m < k)
        <5>1. m < k => e[m] < a[k]
          BY <1>2
        <5> QED
          BY <1>1, <3>5, <3>7, <4>1, <5>1
      <4>3. m # k
        BY <1>1, <3>5, <3>7, <4>1
      <4>4. k < m
        BY <1>5, <4>2, <4>3
      <4> QED
        BY <1>3, <4>4
    <3>8. q(j) <= g[m]
      BY <1>1, <2>3, <3>5, <3>7
    <3> QED
      BY <2>2, <3>6, <3>8
  <2>6. CASE j + 1 # R + 1 /\ \A m \in 1 .. M : ~In(j + 1, m)
    <3>1. j + 1 \in 1 .. R
      BY <1>1, <2>6
    <3>2. f[j + 1] = q(j + 1)
      BY <1>10, <2>6, <3>1
    <3>3. q(j + 1) \in 1 .. N + 1 /\ \A m \in 1 .. M : e[m] <= j + 1 => h(m) <= q(j + 1)
      BY <1>8, <2>1
    <3>4. \A m \in 1 .. M : e[m] <= j => e[m] <= j + 1
      BY <1>1, <1>5
    <3>5. q(j) <= q(j + 1)
      <4>1. CASE q(j) = 1
        BY <1>1, <3>3, <4>1
      <4>2. CASE \E k \in 1 .. M : e[k] <= j /\ q(j) = h(k)
        BY <3>3, <3>4, <4>2
      <4> QED
        BY <2>3, <4>1, <4>2
    <3> QED
      BY <2>2, <3>2, <3>5
  <2> HIDE DEF In
  <2> QED
    BY <2>4, <2>5, <2>6
<1>17. ASSUME NEW j \in 1 .. R, r[j] # c PROVE f[j + 1] = f[j] + 1
  <2>1. PICK m \in 1 .. M : In(j, m)
    BY <1>2, <1>17
  <2>2. /\ a[m] \in 1 .. R /\ e[m] \in 1 .. R + 1 /\ g[m] \in 1 .. N + 1 /\ a[m] <= j /\ j < e[m]
        /\ f[j] = g[m] + (j - a[m])
    BY <1>5, <1>9, <2>1
  <2>3. CASE j + 1 < e[m]
    <3>1. j + 1 \in 1 .. R /\ a[m] <= j + 1
      BY <1>1, <2>2, <2>3
    <3>2. In(j + 1, m)
      BY <2>3, <3>1
    <3> DEFINE i == j + 1
    <3> HIDE DEF i
    <3>9. i \in 1 .. R /\ In(i, m)
      BY <3>1, <3>2 DEF i
    <3>10. f[i] = g[m] + (i - a[m])
      BY <1>9, <3>9
    <3>3. f[j + 1] = g[m] + (j + 1 - a[m])
      <4>1. i = j + 1
        BY DEF i
      <4>2. i \in Int /\ a[m] \in Int /\ j \in Int
        BY <1>1, <1>5, <3>9
      <4> QED
        BY <3>10, <4>1, <4>2
    <3>4. g[m] + (j + 1 - a[m]) = g[m] + (j - a[m]) + 1
      BY <1>1, <2>2
    <3> QED
      BY <2>2, <3>3, <3>4
  <2>4. CASE ~(j + 1 < e[m])
    <3>1. e[m] = j + 1
      BY <1>1, <2>2, <2>4
    <3>2. h(m) = f[j] + 1
      <4>1. g[m] + (j + 1 - a[m]) = g[m] + (j - a[m]) + 1
        BY <1>1, <2>2
      <4> QED
        BY <2>2, <3>1, <4>1, h(m) = g[m] + (e[m] - a[m]) DEF h
    <3>3. CASE e[m] = R + 1
      <4>1. j = R /\ R \in 1 .. R
        BY <1>1, <3>1, <3>3
      <4>2. M \in 1 .. M /\ e[M] = R + 1 /\ h(M) = N + 1 /\ a[M] \in 1 .. R
        BY <1>2, <1>3, <1>4, <1>5, <1>17, <4>1
      <4>3. m = M
        <5>1. m < M => e[m] < a[M]
          BY <1>2, <4>2
        <5>2. ~(m < M)
          BY <1>1, <2>2, <3>3, <4>2, <5>1
        <5> QED
          BY <1>2, <1>5, <5>2
      <4> QED
        BY <1>11, <3>1, <3>2, <3>3, <4>2, <4>3
    <3>4. CASE e[m] # R + 1
      <4>1. r[j + 1] = c
        BY <1>2, <3>1, <3>4
      <4>2. j + 1 \in 1 .. R /\ j + 1 \in 1 .. R + 1
        BY <1>1, <2>2, <3>1, <3>4
      <4>3. f[j + 1] = q(j + 1)
        BY <1>10, <1>12, <4>1, <4>2
      <4>4. /\ q(j + 1) \in 1 .. N + 1
            /\ q(j + 1) = 1 \/ \E k \in 1 .. M : e[k] <= j + 1 /\ q(j + 1) = h(k)
            /\ \A k \in 1 .. M : e[k] <= j + 1 => h(k) <= q(j + 1)
        BY <1>8, <4>2
      <4>5. h(m) <= q(j + 1) /\ h(m) \in 1 .. N + 1 /\ g[m] < h(m)
        <5>1. e[m] <= j + 1
          BY <1>1, <3>1
        <5> QED
          BY <1>6, <4>4, <5>1
      <4>6. ASSUME NEW k \in 1 .. M, e[k] <= j + 1 PROVE h(k) <= h(m)
        <5>1. a[k] \in 1 .. R /\ e[k] \in 1 .. R + 1 /\ a[k] < e[k] /\ h(k) \in 1 .. N + 1
          BY <1>5, <1>6
        <5>2. m < k => e[m] < a[k]
          BY <1>2
        <5>3. ~(m < k)
          BY <1>1, <3>1, <4>6, <5>1, <5>2
        <5>4. k < m \/ k = m
          BY <1>5, <5>3
        <5>5. k < m => h(k) <= g[m]
          BY <1>3
        <5> QED
          BY <1>1, <2>2, <4>5, <5>1, <5>4, <5>5
      <4>7. q(j + 1) <= h(m)
        <5>1. CASE q(j + 1) = 1
          BY <1>1, <4>5, <5>1
        <5>2. CASE \E k \in 1 .. M : e[k] <= j + 1 /\ q(j + 1) = h(k)
          BY <4>6, <5>2
        <5> QED
          BY <4>4, <5>1, <5>2
      <4>8. q(j + 1) = h(m)
        BY <1>1, <4>4, <4>5, <4>7
      <4> QED
        BY <3>2, <4>3, <4>8
    <3> QED
      BY <3>3, <3>4
  <2> QED
    BY <2>3, <2>4
<1>18. \A j \in 1 .. R : r[j] # c => f[j] \in 1 .. N /\ s[f[j]] = r[j]
  <2> SUFFICES ASSUME NEW j \in 1 .. R, r[j] # c PROVE f[j] \in 1 .. N /\ s[f[j]] = r[j]
    OBVIOUS
  <2>1. PICK m \in 1 .. M : In(j, m)
    BY <1>2
  <2> QED
    BY <1>13, <2>1
<1>19. f \in [1 .. R + 1 -> 1 .. N + 1]
  BY <1>11, <1>14
<1>20. Fits(r, c, s, f)
  BY <1>11, <1>15, <1>16, <1>17, <1>18, <1>19 DEF Fits, R, N
<1> QED
  BY <1>20

\* What each place of a pattern stands for begins behind what the one before stands for.
LEMMA PlaceMoves ==
    ASSUME NEW R \in Nat, NEW N \in Nat, NEW D \in SUBSET (1 .. R), NEW to \in [D -> 1 .. N + 1]
    PROVE  /\ Place(to, 1) = 1
           /\ \A j \in 1 .. R : /\ Place(to, j) \in Int
                                /\ j \in D => Place(to, j + 1) = to[j]
                                /\ j \notin D => Place(to, j + 1) = Place(to, j) + 1
<1> DEFINE B(j) == {i \in D : i < j}
<1>1. \A j : Place(to, j) = IF B(j) = {} THEN j ELSE to[Max(B(j))] + (j - Max(B(j)) - 1)
  BY DEF Place
<1>2. \A i \in D : i \in 1 .. R /\ i \in Nat /\ to[i] \in 1 .. N + 1
  OBVIOUS
<1>3. ASSUME NEW j \in 1 .. R + 1, B(j) # {}
      PROVE  /\ Max(B(j)) \in D /\ Max(B(j)) < j /\ \A i \in B(j) : i <= Max(B(j))
  <2>3. \A i \in B(j) : i \in D /\ i < j /\ i \in 1 .. R /\ i \in Nat
    BY <1>2
  <2>4. \A i \in 1 .. R : i \in 0 .. R
    OBVIOUS
  <2>1. B(j) \in SUBSET (0 .. R) /\ \A i \in B(j) : i \in D /\ i < j /\ i \in Nat
    BY <2>3, <2>4
  <2> HIDE DEF B
  <2>2. Max(B(j)) \in B(j) /\ \A i \in B(j) : Max(B(j)) >= i
    BY <1>3, <2>1, GreatestNumber
  <2> QED
    BY <2>1, <2>2
<1>4. Place(to, 1) = 1
  <2>1. B(1) = {}
    <3> SUFFICES ASSUME NEW i \in B(1) PROVE FALSE
      OBVIOUS
    <3>1. i < 1 /\ i \in 1 .. R
      BY <1>2
    <3> QED
      BY <3>1
  <2> QED
    BY <1>1, <2>1
<1>5. ASSUME NEW j \in 1 .. R PROVE Place(to, j) \in Int
  <2>1. j \in 1 .. R + 1 /\ j \in Int
    OBVIOUS
  <2>2. CASE B(j) = {}
    BY <1>1, <2>1, <2>2
  <2>3. CASE B(j) # {}
    <3> DEFINE x == Max(B(j))
    <3>1. x \in D
      BY <1>3, <2>1, <2>3
    <3>2. Place(to, j) = to[x] + (j - x - 1)
      BY <1>1, <2>3
    <3> HIDE DEF x
    <3>3. x \in Int /\ to[x] \in Int
      BY <1>2, <3>1
    <3> QED
      BY <2>1, <3>2, <3>3
  <2> QED
    BY <2>2, <2>3
<1>6. ASSUME NEW j \in 1 .. R, j \in D PROVE Place(to, j + 1) = to[j]
  <2> DEFINE i == j + 1
             x == Max(B(i))
  <2>7. j < i /\ i \in 1 .. R + 1
    OBVIOUS
  <2>1. j \in B(i) /\ i \in 1 .. R + 1
    BY <1>6, <2>7
  <2>2. x \in D /\ x < i /\ j <= x
    BY <1>3, <2>1
  <2>3. Place(to, i) = to[x] + (i - x - 1)
    BY <1>1, <2>1
  <2> HIDE DEF x
  <2>4. x \in Int /\ to[x] \in Int
    BY <1>2, <2>2
  <2>5. x = j /\ i - x - 1 = 0
    BY <2>2, <2>4
  <2>6. to[x] + 0 = to[x]
    BY <2>4
  <2> QED
    BY <2>3, <2>5, <2>6
<1>7. ASSUME NEW j \in 1 .. R, j \notin D PROVE Place(to, j + 1) = Place(to, j) + 1
  <2> DEFINE i == j + 1
  <2>4. \A y \in 1 .. R : y # j => (y < i <=> y < j)
    OBVIOUS
  <2>5. \A y \in D : y \in 1 .. R /\ y # j
    BY <1>2, <1>7
  <2>1. B(i) = B(j)
    <3> HIDE DEF i
    <3> QED
      BY <2>4, <2>5
  <2>2. CASE B(j) = {}
    <3>1. Place(to, i) = i /\ Place(to, j) = j
      BY <1>1, <2>1, <2>2
    <3> QED
      BY <3>1
  <2>3. CASE B(j) # {}
    <3> DEFINE x == Max(B(j))
    <3>0. j \in 1 .. R + 1
      OBVIOUS
    <3>1. x \in D
      BY <1>3, <2>3, <3>0
    <3>2. Place(to, i) = to[x] + (i - x - 1) /\ Place(to, j) = to[x] + (j - x - 1)
      BY <1>1, <2>1, <2>3
    <3> HIDE DEF x
    <3>3. x \in Int /\ to[x] \in Int
      BY <1>2, <3>1
    <3> QED
      BY <3>2, <3>3
  <2> QED
    BY <2>2, <2>3
<1> QED
  BY <1>4, <1>5, <1>6, <1>7

\* What Glob asks of the stars is that r fits s.
LEMMA PlacesFit ==
    ASSUME NEW S, NEW r \in Seq(S), NEW s \in Seq(S), NEW c
    PROVE  (\E to \in [{j \in DOMAIN r : r[j] = c} -> 1 .. Len(s) + 1] :
               /\ \A j \in DOMAIN r : IF r[j] = c THEN Place(to, j) <= to[j]
                                      ELSE /\ Place(to, j) \in DOMAIN s
                                           /\ s[Place(to, j)] = r[j]
               /\ Place(to, Len(r) + 1) = Len(s) + 1)
           <=> \E f : Fits(r, c, s, f)
<1> DEFINE R == Len(r)
           N == Len(s)
           D == {j \in DOMAIN r : r[j] = c}
           Good(to) == /\ \A j \in DOMAIN r : IF r[j] = c THEN Place(to, j) <= to[j]
                                              ELSE /\ Place(to, j) \in DOMAIN s
                                                   /\ s[Place(to, j)] = r[j]
                       /\ Place(to, R + 1) = N + 1
<1>1. R \in Nat /\ N \in Nat /\ DOMAIN r = 1 .. R /\ DOMAIN s = 1 .. N
  BY LenProperties
<1>2. D \in SUBSET (1 .. R) /\ \A j \in 1 .. R : j \in D <=> r[j] = c
  BY <1>1
<1> HIDE DEF R, N, D
<1>3. ASSUME NEW to \in [D -> 1 .. N + 1]
      PROVE  /\ Place(to, 1) = 1
             /\ \A j \in 1 .. R : /\ Place(to, j) \in Int
                                  /\ r[j] = c => Place(to, j + 1) = to[j]
                                  /\ r[j] # c => Place(to, j + 1) = Place(to, j) + 1
  <2>1. /\ Place(to, 1) = 1
        /\ \A j \in 1 .. R : /\ Place(to, j) \in Int
                             /\ j \in D => Place(to, j + 1) = to[j]
                             /\ j \notin D => Place(to, j + 1) = Place(to, j) + 1
    <3>1. R \in Nat /\ N \in Nat /\ D \in SUBSET (1 .. R)
      BY <1>1, <1>2
    <3> QED
      BY <3>1, PlaceMoves
  <2> QED
    BY <1>2, <2>1
<1>4. ASSUME NEW to \in [D -> 1 .. N + 1], Good(to)
      PROVE  Fits(r, c, s, [j \in 1 .. R + 1 |-> Place(to, j)])
  <2> DEFINE f == [j \in 1 .. R + 1 |-> Place(to, j)]
  <2>1. \A j \in 1 .. R : /\ r[j] = c => Place(to, j) <= to[j]
                          /\ r[j] # c => Place(to, j) \in 1 .. N /\ s[Place(to, j)] = r[j]
    BY <1>1, <1>4
  <2>2. Place(to, R + 1) = N + 1
    BY <1>4
  <2>3. \A j \in 1 .. R : j \in 1 .. R + 1 /\ j + 1 \in 1 .. R + 1
    BY <1>1
  <2>4. 1 \in 1 .. R + 1 /\ R + 1 \in 1 .. R + 1
    BY <1>1
  <2>5. \A j \in 1 .. R + 1 : Place(to, j) \in 1 .. N + 1
    <3> SUFFICES ASSUME NEW j \in 1 .. R + 1 PROVE Place(to, j) \in 1 .. N + 1
      OBVIOUS
    <3>1. CASE j = 1
      BY <1>1, <1>3, <3>1
    <3>2. CASE j # 1
      <4> DEFINE i == j - 1
      <4>1. i \in 1 .. R /\ i + 1 = j
        BY <1>1, <3>2
      <4> HIDE DEF i
      <4>2. CASE r[i] = c
        <5>1. Place(to, j) = to[i] /\ i \in D
          BY <1>2, <1>3, <4>1, <4>2
        <5> QED
          BY <5>1
      <4>3. CASE r[i] # c
        <5>1. Place(to, j) = Place(to, i) + 1 /\ Place(to, i) \in 1 .. N
          BY <1>3, <2>1, <4>1, <4>3
        <5> QED
          BY <1>1, <5>1
      <4> QED
        BY <4>2, <4>3
    <3> QED
      BY <3>1, <3>2
  <2>6. f \in [1 .. R + 1 -> 1 .. N + 1] /\ \A j \in 1 .. R + 1 : f[j] = Place(to, j)
    BY <2>5
  <2> HIDE DEF f, Good
  <2>7. f[1] = 1 /\ f[R + 1] = N + 1
    BY <1>3, <2>2, <2>4, <2>6
  <2>8. ASSUME NEW j \in 1 .. R
        PROVE  /\ r[j] = c => f[j] <= f[j + 1]
               /\ r[j] # c => f[j] \in 1 .. N /\ s[f[j]] = r[j] /\ f[j + 1] = f[j] + 1
    <3>1. f[j] = Place(to, j) /\ f[j + 1] = Place(to, j + 1)
      BY <2>3, <2>6
    <3> QED
      BY <1>3, <2>1, <3>1
  <2> QED
    BY <2>6, <2>7, <2>8 DEF Fits, R, N, f
<1>5. ASSUME NEW f, Fits(r, c, s, f)
      PROVE  \E to \in [D -> 1 .. N + 1] : Good(to)
  <2> DEFINE to == [j \in D |-> f[j + 1]]
  <2>1. /\ f \in [1 .. R + 1 -> 1 .. N + 1] /\ f[1] = 1 /\ f[R + 1] = N + 1
        /\ \A j \in 1 .. R : r[j] = c => f[j] <= f[j + 1]
        /\ \A j \in 1 .. R : r[j] # c => f[j] \in 1 .. N /\ s[f[j]] = r[j] /\ f[j + 1] = f[j] + 1
    BY <1>5 DEF Fits, R, N
  <2>2. \A j \in 1 .. R : j \in 1 .. R + 1 /\ j + 1 \in 1 .. R + 1
    BY <1>1
  <2>3. to \in [D -> 1 .. N + 1] /\ \A j \in D : to[j] = f[j + 1]
    <3>1. \A j \in D : f[j + 1] \in 1 .. N + 1
      BY <1>2, <2>1, <2>2
    <3> QED
      BY <3>1
  <2> HIDE DEF to, Good
  <2>4. /\ Place(to, 1) = 1
        /\ \A j \in 1 .. R : /\ r[j] = c => Place(to, j + 1) = to[j]
                             /\ r[j] # c => Place(to, j + 1) = Place(to, j) + 1
    BY <1>3, <2>3
  <2>5. \A j \in 1 .. R + 1 : Place(to, j) = f[j]
    <3> DEFINE T == {j \in 1 .. R + 1 : Place(to, j) # f[j]}
               t == Min(T)
    <3> SUFFICES ASSUME T # {} PROVE FALSE
      OBVIOUS
    <3>1. T \in SUBSET Nat
      BY <1>1
    <3> HIDE DEF T
    <3>2. t \in T /\ \A y \in T : t <= y
      BY <3>1, LeastNumber
    <3> HIDE DEF t
    <3>3. t \in 1 .. R + 1 /\ Place(to, t) # f[t]
      BY <3>2 DEF T
    <3>4. t # 1
      BY <2>1, <2>4, <3>3
    <3> DEFINE i == t - 1
    <3>5. i \in 1 .. R /\ i + 1 = t /\ ~(t <= i) /\ i \in 1 .. R + 1
      BY <1>1, <3>3, <3>4
    <3> HIDE DEF i
    <3>6. Place(to, i) = f[i]
      BY <3>2, <3>5 DEF T
    <3>7. CASE r[i] = c
      <4>1. i \in D /\ to[i] = f[i + 1]
        BY <1>2, <2>3, <3>5, <3>7
      <4> QED
        BY <2>4, <3>3, <3>5, <3>7, <4>1
    <3>8. CASE r[i] # c
      BY <2>1, <2>4, <3>3, <3>5, <3>6, <3>8
    <3> QED
      BY <3>7, <3>8
  <2>6. ASSUME NEW j \in 1 .. R
        PROVE  IF r[j] = c THEN Place(to, j) <= to[j]
               ELSE Place(to, j) \in 1 .. N /\ s[Place(to, j)] = r[j]
    <3>1. Place(to, j) = f[j]
      BY <2>2, <2>5
    <3>2. CASE r[j] = c
      <4>1. to[j] = f[j + 1]
        BY <1>2, <2>3, <3>2
      <4> QED
        BY <2>1, <3>1, <3>2, <4>1
    <3>3. CASE r[j] # c
      BY <2>1, <3>1, <3>3
    <3> QED
      BY <3>2, <3>3
  <2>7. Place(to, R + 1) = N + 1
    <3>1. R + 1 \in 1 .. R + 1
      BY <1>1
    <3> QED
      BY <2>1, <2>5, <3>1
  <2>8. Good(to)
    BY <1>1, <2>6, <2>7 DEF Good
  <2> QED
    BY <2>3, <2>8
<1>6. (\E to \in [D -> 1 .. N + 1] : Good(to)) <=> \E f : Fits(r, c, s, f)
  <2> HIDE DEF Good
  <2> QED
    BY <1>4, <1>5
<1> QED
  BY <1>6 DEF R, N, D

\* Glob is about a fit.
LEMMA GlobIsFits ==
    ASSUME NEW S, NEW r \in Seq(S), NEW s \in Seq(S)
    PROVE  Glob(r, s) <=> \E f : Fits(r, "*", s, f)
BY PlacesFit DEF Glob

\* One step after the other, a chain of numbers can be counted to its end.
Stepped(V, lo, hi, start, step, b) ==
    /\ b \in [lo .. hi -> V]
    /\ \A i \in lo .. hi : b[i] = IF i = lo THEN start ELSE step[<<i, b[i - 1]>>]

\* There is such a chain, whatever the step is.
LEMMA ChainExists ==
    ASSUME NEW lo \in Nat, NEW hi \in Nat, lo <= hi, NEW V, NEW start \in V,
           NEW step \in [(lo .. hi) \X V -> V]
    PROVE  \E b : Stepped(V, lo, hi, start, step, b)
<1> DEFINE Upto(b, k) == /\ b \in [lo .. k -> V] /\ b[lo] = start
                          /\ \A i \in lo .. k : i # lo => b[i] = step[<<i, b[i - 1]>>]
           T == {k \in lo .. hi : ~\E b : Upto(b, k)}
<1>1. T \in SUBSET Nat
  OBVIOUS
<1>2. \A k \in lo .. hi : k \in T \/ \E b : Upto(b, k)
  OBVIOUS
<1>3. \A k \in T : k \in lo .. hi /\ ~\E b : Upto(b, k)
  OBVIOUS
<1> HIDE DEF T
<1>4. ASSUME T # {} PROVE FALSE
  <2> DEFINE k == Min(T)
  <2>1. k \in T /\ \A y \in T : k <= y
    BY <1>1, <1>4, LeastNumber
  <2> HIDE DEF k
  <2>2. k \in lo .. hi /\ ~\E b : Upto(b, k)
    BY <1>3, <2>1
  <2>3. CASE k = lo
    <3> DEFINE b == [i \in lo .. lo |-> start]
    <3>1. lo .. lo = {lo}
      OBVIOUS
    <3>2. Upto(b, lo)
      BY <3>1
    <3> QED
      BY <2>2, <2>3, <3>2
  <2>4. CASE k # lo
    <3> DEFINE j == k - 1
    <3>1. j \in lo .. hi /\ ~(k <= j) /\ j \in Nat /\ j < k
      BY <2>2, <2>4
    <3>2. PICK b : Upto(b, j)
      <4> HIDE DEF j, Upto
      <4>1. j \notin T
        BY <2>1, <3>1
      <4> QED
        BY <1>2, <3>1, <4>1
    <3> DEFINE d == [i \in lo .. k |-> IF i = k THEN step[<<k, b[j]>>] ELSE b[i]]
    <3>3. b \in [lo .. j -> V] /\ b[lo] = start
          /\ \A i \in lo .. j : i # lo => b[i] = step[<<i, b[i - 1]>>]
      BY <3>2
    <3>4. /\ \A i \in lo .. k : i = k \/ i \in lo .. j
          /\ \A i \in lo .. k : i # lo /\ i # k => i - 1 \in lo .. j /\ i - 1 # k /\ i - 1 \in lo .. k
          /\ lo \in lo .. k /\ j \in lo .. k /\ j # k /\ j \in lo .. j
      BY <2>2, <2>4, <3>1
    <3>5. step[<<k, b[j]>>] \in V
      BY <2>2, <3>3, <3>4
    <3> HIDE DEF j
    <3>6. /\ d \in [lo .. k -> V] /\ d[k] = step[<<k, b[j]>>] /\ d[j] = b[j]
          /\ \A i \in lo .. k : i # k => d[i] = b[i]
      <4>1. k \in lo .. k
        BY <2>2
      <4> QED
        BY <3>3, <3>4, <3>5, <4>1
    <3> HIDE DEF d
    <3>7. d[lo] = start
      BY <2>4, <3>3, <3>4, <3>6
    <3>8. \A i \in lo .. k : i # lo => d[i] = step[<<i, d[i - 1]>>]
      <4> SUFFICES ASSUME NEW i \in lo .. k, i # lo PROVE d[i] = step[<<i, d[i - 1]>>]
        OBVIOUS
      <4>1. CASE i = k
        BY <3>6, <4>1 DEF j
      <4>2. CASE i # k
        <5>1. d[i] = b[i] /\ i \in lo .. j
          BY <3>4, <3>6, <4>2
        <5>2. d[i - 1] = b[i - 1]
          BY <3>4, <3>6, <4>2
        <5> QED
          BY <3>3, <5>1, <5>2
      <4> QED
        BY <4>1, <4>2
    <3> QED
      BY <2>2, <3>6, <3>7, <3>8
  <2> QED
    BY <2>3, <2>4
<1>5. PICK b : Upto(b, hi)
  <2>1. hi \in lo .. hi
    OBVIOUS
  <2> HIDE DEF Upto
  <2> QED
    BY <1>2, <1>4, <2>1
<1>6. /\ b \in [lo .. hi -> V] /\ b[lo] = start
      /\ \A i \in lo .. hi : i # lo => b[i] = step[<<i, b[i - 1]>>]
  BY <1>5
<1>7. \A i \in lo .. hi : b[i] = IF i = lo THEN start ELSE step[<<i, b[i - 1]>>]
  BY <1>6
<1> QED
  BY <1>6, <1>7 DEF Stepped

\* Where a segment stands, character by character.
LEMMA PlacesAre ==
    ASSUME NEW S, NEW seg \in Seq(S), NEW s \in Seq(S)
    PROVE  \A k : k \in Places(seg, s) <=>
                     /\ k \in 1 .. Len(s) + 1 /\ k + Len(seg) <= Len(s) + 1
                     /\ \A i \in 1 .. Len(seg) : s[k + i - 1] = seg[i]
<1> DEFINE N == Len(s)
           L == Len(seg)
<1>1. N \in Nat /\ L \in Nat /\ \A i \in 1 .. N : s[i] \in S
  BY LenProperties, ElementOfSeq
<1> HIDE DEF N, L
<1>2. ASSUME NEW k \in 1 .. N + 1, k + L <= N + 1
      PROVE  SubSeq(s, k, k + L - 1) = seg <=> \A i \in 1 .. L : s[k + i - 1] = seg[i]
  <2> DEFINE t == SubSeq(s, k, k + L - 1)
  <2>1. k \in Int /\ k + L - 1 \in Int /\ \A i \in k .. k + L - 1 : i \in 1 .. N
    BY <1>1, <1>2
  <2>2. \A i \in k .. k + L - 1 : s[i] \in S
    BY <1>1, <2>1
  <2>3. /\ t \in Seq(S) /\ Len(t) = IF k <= k + L - 1 THEN k + L - 1 - k + 1 ELSE 0
        /\ \A i \in 1 .. k + L - 1 - k + 1 : t[i] = s[k + i - 1]
    <3> DEFINE z == k + L - 1
    <3> HIDE DEF z
    <3>1. k \in Int /\ z \in Int /\ \A i \in k .. z : s[i] \in S
      BY <2>1, <2>2 DEF z
    <3>2. /\ SubSeq(s, k, z) \in Seq(S)
          /\ Len(SubSeq(s, k, z)) = IF k <= z THEN z - k + 1 ELSE 0
          /\ \A i \in 1 .. z - k + 1 : SubSeq(s, k, z)[i] = s[k + i - 1]
      BY <3>1, SubSeqProperties
    <3>3. z = k + L - 1
      BY DEF z
    <3> QED
      BY <1>1, <2>1, <3>1, <3>2, <3>3 DEF t
  <2>4. k + L - 1 - k + 1 = L
    BY <1>1, <2>1
  <2>5. ~(k <= k + L - 1) => L = 0
    BY <1>1, <2>1
  <2> HIDE DEF t
  <2>6. Len(t) = L /\ \A i \in 1 .. L : t[i] = s[k + i - 1]
    BY <2>3, <2>4, <2>5
  <2>7. t = seg <=> \A i \in 1 .. L : t[i] = seg[i]
    <3>1. Len(seg) = Len(t)
      BY <2>6 DEF L
    <3> QED
      BY <2>3, <2>6, <3>1, SeqEqual
  <2> QED
    BY <2>6, <2>7 DEF t
<1> QED
  BY <1>2 DEF Places, N, L

\* The first place for seg that is far enough behind.
LEMMA BehindIs ==
    ASSUME NEW S, NEW seg \in Seq(S), NEW s \in Seq(S), NEW x \in Nat, NEW end \in Int
    PROVE  LET b == Behind(seg, s, x, end)
           IN  /\ b \in Nat
               /\ b # 0 => /\ x # 0 /\ b - Len(seg) \in Places(seg, s)
                           /\ x <= b - Len(seg) /\ b <= end + 1
               /\ \A k \in Places(seg, s) :
                     x # 0 /\ x <= k /\ k + Len(seg) <= end + 1 => b # 0 /\ b <= k + Len(seg)
<1> DEFINE L == Len(seg)
           P == Places(seg, s)
           T == {k \in P : x <= k /\ k + L <= end + 1}
           b == Behind(seg, s, x, end)
<1>1. L \in Nat /\ P \in SUBSET Nat /\ \A k \in P : k # 0
  <2>1. L \in Nat /\ Len(s) \in Nat
    BY LenProperties
  <2>2. \A k \in P : k \in 1 .. Len(s) + 1
    BY DEF Places
  <2> HIDE DEF L, P
  <2> QED
    BY <2>1, <2>2
<1>2. b = IF x = 0 \/ T = {} THEN 0 ELSE Min(T) + L
  BY DEF Behind
<1> HIDE DEF L, P, b
<1>3. T \in SUBSET Nat
  BY <1>1
<1>4. T # {} => Min(T) \in T /\ \A y \in T : Min(T) <= y
  <2> HIDE DEF T
  <2> QED
    BY <1>3, LeastNumber
<1>5. CASE x = 0 \/ T = {}
  <2>1. b = 0
    BY <1>2, <1>5
  <2>2. \A k \in P : ~(x # 0 /\ x <= k /\ k + L <= end + 1)
    BY <1>5
  <2> QED
    BY <2>1, <2>2 DEF b, L, P
<1>6. CASE x # 0 /\ T # {}
  <2> DEFINE t == Min(T)
  <2>1. b = t + L /\ t \in T /\ \A y \in T : t <= y
    BY <1>2, <1>4, <1>6
  <2>2. \A k \in P : x <= k /\ k + L <= end + 1 => k \in T
    OBVIOUS
  <2> HIDE DEF t
  <2>3. t \in P /\ x <= t /\ t + L <= end + 1 /\ t \in Nat /\ t # 0
    BY <1>1, <2>1
  <2> HIDE DEF T
  <2>4. b \in Nat /\ b # 0 /\ b - L = t
    BY <1>1, <2>1, <2>3
  <2>5. b - L \in P /\ x <= b - L /\ b <= end + 1
    BY <2>1, <2>3, <2>4
  <2>6. \A k \in P : x <= k /\ k + L <= end + 1 => b <= k + L
    <3> SUFFICES ASSUME NEW k \in P, x <= k, k + L <= end + 1 PROVE b <= k + L
      OBVIOUS
    <3>1. t <= k /\ k \in Nat
      BY <1>1, <2>1, <2>2
    <3> QED
      BY <1>1, <2>1, <2>3, <3>1
  <2> QED
    BY <1>6, <2>4, <2>5, <2>6 DEF b, L, P
<1> QED
  BY <1>5, <1>6

\* If each of a row of texts lies behind the one before, each lies behind all before.
LEMMA RowInOrder ==
    ASSUME NEW M \in Nat, NEW g \in [1 .. M -> Nat], NEW h \in [1 .. M -> Nat],
           \A m \in 1 .. M : g[m] <= h[m],
           \A m \in 1 .. M : m # M => h[m] <= g[m + 1]
    PROVE  \A m, k \in 1 .. M : m < k => h[m] <= g[k]
<1> SUFFICES ASSUME NEW m \in 1 .. M, NEW k \in 1 .. M, m < k PROVE h[m] <= g[k]
  OBVIOUS
<1> DEFINE T == {y \in m + 1 .. M : ~(h[m] <= g[y])}
           t == Min(T)
<1>1. T \in SUBSET Nat
  OBVIOUS
<1>2. k \in m + 1 .. M
  OBVIOUS
<1> SUFFICES ASSUME T # {} PROVE FALSE
  BY <1>2
<1> HIDE DEF T
<1>3. t \in T /\ \A y \in T : t <= y
  BY <1>1, LeastNumber
<1> HIDE DEF t
<1>4. t \in m + 1 .. M /\ ~(h[m] <= g[t])
  BY <1>3 DEF T
<1> DEFINE i == t - 1
<1>5. i \in 1 .. M /\ i # M /\ i + 1 = t /\ ~(t <= i) /\ t \in 1 .. M /\ (i = m \/ i \in m + 1 .. M)
  BY <1>4
<1> HIDE DEF i
<1>6. h[i] <= g[t] /\ g[i] <= h[i]
  BY <1>5
<1>7. g[i] \in Nat /\ h[i] \in Nat /\ g[t] \in Nat /\ h[m] \in Nat
  BY <1>5
<1>8. i # m
  BY <1>4, <1>6
<1>9. h[m] <= g[i]
  BY <1>3, <1>5, <1>8 DEF T
<1> QED
  BY <1>4, <1>6, <1>7, <1>9

LEMMA LastPlace ==
    ASSUME NEW x \in Int, NEW w \in Int, NEW y \in Int, NEW e \in Int,
           x + w = y + 1, e + 1 = y + 1 - w
    PROVE  x = e + 1
  OBVIOUS

\* What Match looks for: the parts from first to last, in this order, in what is between
\* from and end.
Chain(S, r, c, a, e, M, segs, s, first, last, from, end, b) ==
    /\ r # <<>> /\ \E j \in 1 .. Len(r) : r[j] = c
    /\ Cuts(r, c, a, e, M) /\ M # 0
    /\ \A m \in 1 .. M : /\ segs[m] \in Seq(S) /\ Len(segs[m]) = e[m] - a[m]
                         /\ \A i \in 1 .. e[m] - a[m] : segs[m][i] = r[a[m] + i - 1]
    /\ first = (IF r[1] = c THEN 0 ELSE 1)
    /\ last = (IF r[Len(r)] = c \/ M = first THEN M ELSE M - 1)
    /\ from = (IF r[1] = c THEN 1 ELSE 1 + Len(segs[1]))
    /\ end = (IF last = M THEN Len(s) ELSE Len(s) - Len(segs[M]))
    /\ \A i \in first .. last :
          b[i] = IF i = first THEN from ELSE Behind(segs[i], s, b[i - 1], end)

\* It is there if and only if the parts stand in s one behind the other.
LEMMA ChainIsLies ==
    ASSUME NEW S, NEW r \in Seq(S), NEW s \in Seq(S), NEW c, NEW a, NEW e, NEW M, NEW segs,
           NEW first, NEW last, NEW from, NEW end, NEW b,
           Chain(S, r, c, a, e, M, segs, s, first, last, from, end, b)
    PROVE  (/\ r[1] = c \/ 1 \in Places(segs[1], s)
            /\ last = M \/ (from <= end + 1 /\ end + 1 \in Places(segs[M], s))
            /\ b[last] # 0)
           <=> \E g : Lies(r, c, a, e, M, s, g)
<1> SUFFICES
      ASSUME r # <<>>, \E j \in 1 .. Len(r) : r[j] = c, Cuts(r, c, a, e, M), M # 0,
             \A m \in 1 .. M : /\ segs[m] \in Seq(S) /\ Len(segs[m]) = e[m] - a[m]
                                /\ \A i \in 1 .. e[m] - a[m] : segs[m][i] = r[a[m] + i - 1],
             first = IF r[1] = c THEN 0 ELSE 1,
             last = IF r[Len(r)] = c \/ M = first THEN M ELSE M - 1,
             from = IF r[1] = c THEN 1 ELSE 1 + Len(segs[1]),
             end = IF last = M THEN Len(s) ELSE Len(s) - Len(segs[M]),
             \A i \in first .. last :
                b[i] = IF i = first THEN from ELSE Behind(segs[i], s, b[i - 1], end)
      PROVE  (/\ r[1] = c \/ 1 \in Places(segs[1], s)
              /\ last = M \/ (from <= end + 1 /\ end + 1 \in Places(segs[M], s))
              /\ b[last] # 0)
             <=> \E g : Lies(r, c, a, e, M, s, g)
  BY DEF Chain
<1> DEFINE R == Len(r)
           N == Len(s)
           l(m) == e[m] - a[m]
           P(m) == Places(segs[m], s)
<1>1. R \in Nat /\ N \in Nat /\ R # 0
  BY EmptySeq, LenProperties
<1>2. /\ M \in Nat /\ a \in [1 .. M -> 1 .. R] /\ e \in [1 .. M -> 1 .. R + 1]
      /\ \A m \in 1 .. M : a[m] < e[m]
      /\ \A m \in 1 .. M : \A j \in a[m] .. e[m] - 1 : r[j] # c
  BY DEF Cuts
<1>3. /\ r[1] # c => M >= 1 /\ a[1] = 1
      /\ r[R] # c => M >= 1 /\ e[M] = R + 1
  BY CutsAtEnds
<1>4. \E j \in 1 .. R : r[j] = c
  OBVIOUS
<1>5. \A m \in 1 .. M : segs[m] \in Seq(S) /\ Len(segs[m]) = l(m)
  OBVIOUS
<1>6. \A m \in 1 .. M : \A k : k \in P(m) <=>
                     /\ k \in 1 .. N + 1 /\ k + l(m) <= N + 1
                     /\ \A i \in 1 .. l(m) : s[k + i - 1] = r[a[m] + i - 1]
  <2> SUFFICES ASSUME NEW m \in 1 .. M, NEW k
               PROVE  k \in P(m) <=> /\ k \in 1 .. N + 1 /\ k + l(m) <= N + 1
                                     /\ \A i \in 1 .. l(m) : s[k + i - 1] = r[a[m] + i - 1]
    OBVIOUS
  <2>1. k \in P(m) <=> /\ k \in 1 .. N + 1 /\ k + l(m) <= N + 1
                       /\ \A i \in 1 .. l(m) : s[k + i - 1] = segs[m][i]
    <3> DEFINE seg == segs[m]
    <3>1. seg \in Seq(S) /\ Len(seg) = l(m)
      BY <1>5
    <3> HIDE DEF seg
    <3>2. k \in Places(seg, s) <=> /\ k \in 1 .. Len(s) + 1 /\ k + Len(seg) <= Len(s) + 1
                                  /\ \A i \in 1 .. Len(seg) : s[k + i - 1] = seg[i]
      BY <3>1, PlacesAre
    <3> HIDE DEF l
    <3> QED
      BY <3>1, <3>2 DEF seg
  <2>2. \A i \in 1 .. l(m) : segs[m][i] = r[a[m] + i - 1]
    OBVIOUS
  <2> HIDE DEF l, N, P
  <2> QED
    BY <2>1, <2>2
<1>7. /\ first = (IF r[1] = c THEN 0 ELSE 1) /\ last = (IF r[R] = c \/ M = first THEN M ELSE M - 1)
      /\ from = (IF r[1] = c THEN 1 ELSE 1 + l(1)) /\ end = (IF last = M THEN N ELSE N - l(M))
  <2>1. 1 \in 1 .. M /\ M \in 1 .. M
    BY <1>2
  <2>2. Len(segs[1]) = l(1) /\ Len(segs[M]) = l(M)
    BY <1>5, <2>1
  <2> HIDE DEF l
  <2> QED
    BY <2>2
<1>8. \A m \in 1 .. M : l(m) \in Nat /\ l(m) # 0
  <2> SUFFICES ASSUME NEW m \in 1 .. M PROVE l(m) \in Nat /\ l(m) # 0
    OBVIOUS
  <2>1. a[m] \in 1 .. R /\ e[m] \in 1 .. R + 1 /\ a[m] < e[m]
    BY <1>2
  <2> HIDE DEF R
  <2> QED
    BY <1>1, <2>1
<1>9. M \in Nat /\ M # 0 /\ 1 \in 1 .. M /\ M \in 1 .. M
  BY <1>2
\* Without a star at the end the last part is placed first.
<1>10. last = M => r[R] = c
  <2> SUFFICES ASSUME last = M, r[R] # c PROVE FALSE
    OBVIOUS
  <2>1. M = first /\ M = 1 /\ r[1] # c
    BY <1>7, <1>9
  <2>2. a[1] = 1 /\ e[1] = R + 1
    BY <1>3, <2>1
  <2>3. \A j \in 1 .. R + 1 - 1 : r[j] # c
    <3>1. \A j \in a[1] .. e[1] - 1 : r[j] # c
      BY <1>2, <1>9
    <3> QED
      BY <2>2, <3>1
  <2>4. \A j \in 1 .. R : j \in 1 .. R + 1 - 1
    BY <1>1
  <2> HIDE DEF R
  <2> QED
    BY <1>4, <2>3, <2>4
<1> DEFINE bound == IF last = M THEN N ELSE N - l(M)
<1>11. /\ first \in {0, 1} /\ last \in {M - 1, M} /\ first <= last
       /\ first <= M /\ (last # M => first < M /\ r[R] # c)
  BY <1>7, <1>9
<1>12. end \in Int /\ end + 1 \in Int /\ end <= N /\ (last # M => end + 1 = N + 1 - l(M)) /\ (last = M => end = N)
  <2>1. l(M) \in Nat
    BY <1>8, <1>9
  <2> HIDE DEF l, N
  <2> QED
    BY <1>1, <1>7, <2>1
<1>13. from \in Nat /\ from # 0
  <2>1. l(1) \in Nat
    BY <1>8, <1>9
  <2> HIDE DEF l
  <2> QED
    BY <1>7, <2>1
<1>14. first \in first .. last /\ b[first] = from
  BY <1>9, <1>11
<1>15. ASSUME NEW i \in first .. last, i # first
       PROVE  i \in 1 .. M /\ i - 1 \in first .. last /\ i \in Nat
  BY <1>9, <1>11, <1>15
<1>16. \A i \in first .. last : i # first => b[i] = Behind(segs[i], s, b[i - 1], end)
  OBVIOUS
<1> HIDE DEF R, N, P, l
<1>17. ASSUME NEW i \in first .. last, i # first, b[i - 1] \in Nat
       PROVE  /\ b[i] \in Nat
              /\ b[i] # 0 => /\ b[i - 1] # 0 /\ b[i] - l(i) \in P(i)
                             /\ b[i - 1] <= b[i] - l(i) /\ b[i] <= end + 1
              /\ \A k \in P(i) : b[i - 1] # 0 /\ b[i - 1] <= k /\ k + l(i) <= end + 1
                                     => b[i] # 0 /\ b[i] <= k + l(i)
  <2>1. i \in 1 .. M /\ segs[i] \in Seq(S) /\ Len(segs[i]) = l(i)
    BY <1>5, <1>15, <1>17
  <2>2. b[i] = Behind(segs[i], s, b[i - 1], end)
    BY <1>16, <1>17
  <2>3. LET d == Behind(segs[i], s, b[i - 1], end)
        IN  /\ d \in Nat
            /\ d # 0 => /\ b[i - 1] # 0 /\ d - Len(segs[i]) \in Places(segs[i], s)
                           /\ b[i - 1] <= d - Len(segs[i]) /\ d <= end + 1
            /\ \A k \in Places(segs[i], s) :
                     b[i - 1] # 0 /\ b[i - 1] <= k /\ k + Len(segs[i]) <= end + 1
                         => d # 0 /\ d <= k + Len(segs[i])
    <3> DEFINE seg == segs[i]
               x == b[i - 1]
    <3>1. seg \in Seq(S) /\ x \in Nat /\ end \in Int
      BY <1>12, <1>17, <2>1
    <3> HIDE DEF seg, x
    <3> QED
      <4> DEFINE z == end
      <4>0. z \in Int
        BY <3>1
      <4> HIDE DEF z
      <4>1. Behind(seg, s, x, z) \in Nat
        BY <3>1, <4>0, BehindIs
      <4>2. Behind(seg, s, x, z) # 0 =>
               /\ x # 0 /\ Behind(seg, s, x, z) - Len(seg) \in Places(seg, s)
               /\ x <= Behind(seg, s, x, z) - Len(seg) /\ Behind(seg, s, x, z) <= z + 1
        BY <3>1, <4>0, BehindIs
      <4>3. \A k \in Places(seg, s) :
               x # 0 /\ x <= k /\ k + Len(seg) <= z + 1
                    => Behind(seg, s, x, z) # 0 /\ Behind(seg, s, x, z) <= k + Len(seg)
        BY <3>1, <4>0, BehindIs
      <4> QED
        BY <4>1, <4>2, <4>3 DEF seg, x, z
  <2> QED
    BY <2>1, <2>2, <2>3 DEF P
<1>18. \A i \in first .. last : b[i] \in Nat
  <2> DEFINE T == {y \in first .. last : b[y] \notin Nat}
             t == Min(T)
  <2> SUFFICES ASSUME T # {} PROVE FALSE
    OBVIOUS
  <2>1. T \in SUBSET Nat
    BY <1>11
  <2> HIDE DEF T
  <2>2. t \in T /\ \A y \in T : t <= y
    BY <2>1, LeastNumber
  <2> HIDE DEF t
  <2>3. t \in first .. last /\ b[t] \notin Nat
    BY <2>2 DEF T
  <2>4. t # first
    BY <1>13, <1>14, <2>3
  <2> DEFINE i == t - 1
  <2>5. i \in first .. last /\ ~(t <= i)
    BY <1>15, <2>3, <2>4
  <2> HIDE DEF i
  <2>6. b[i] \in Nat
    BY <2>2, <2>5 DEF T
  <2> QED
    BY <1>17, <2>3, <2>4, <2>6 DEF i
<1>19. ASSUME NEW g, Lies(r, c, a, e, M, s, g)
       PROVE  /\ r[1] = c \/ 1 \in P(1)
              /\ last = M \/ (from <= end + 1 /\ end + 1 \in P(M))
              /\ b[last] # 0
  <2>1. /\ g \in [1 .. M -> 1 .. N + 1]
        /\ \A m \in 1 .. M : g[m] + l(m) <= N + 1
        /\ \A m \in 1 .. M : \A i \in 1 .. l(m) : s[g[m] + i - 1] = r[a[m] + i - 1]
        /\ \A m, k \in 1 .. M : m < k => g[m] + l(m) <= g[k]
        /\ r[1] # c => g[1] = 1
        /\ r[R] # c => g[M] + l(M) = N + 1
    BY <1>19 DEF Lies, R, N, l
  <2>2. \A m \in 1 .. M : g[m] \in 1 .. N + 1 /\ g[m] \in P(m)
    BY <1>6, <2>1
  <2>3. r[1] = c \/ 1 \in P(1)
    BY <1>9, <2>1, <2>2
  <2> DEFINE h(i) == IF i = 0 THEN 1 ELSE g[i] + l(i)
  <2>4. h(first) = from
    BY <1>7, <2>1
  <2>5. ASSUME NEW i \in first .. last, i # first
        PROVE  h(i - 1) <= g[i] /\ g[i] + l(i) <= end + 1 /\ h(i) = g[i] + l(i)
    <3>1. i \in 1 .. M /\ g[i] \in 1 .. N + 1
      BY <1>15, <2>2, <2>5
    <3>2. h(i - 1) <= g[i]
      <4>1. CASE i - 1 = 0
        BY <1>1, <3>1, <4>1
      <4>2. CASE i - 1 # 0
        <5>1. i - 1 \in 1 .. M /\ i - 1 < i
          BY <1>9, <3>1, <4>2
        <5> QED
          BY <2>1, <3>1, <4>2, <5>1
      <4> QED
        BY <4>1, <4>2
    <3>3. g[i] + l(i) <= end + 1
      <4>1. CASE last = M
        BY <1>12, <2>1, <3>1, <4>1
      <4>2. CASE last # M
        <5>1. i < M
          BY <1>9, <1>11, <2>5, <4>2
        <5>2. g[i] + l(i) <= g[M]
          BY <1>9, <2>1, <3>1, <5>1
        <5>3. g[M] + l(M) = N + 1 /\ end + 1 = N + 1 - l(M)
          BY <1>11, <1>12, <2>1, <4>2
        <5>4. g[M] \in 1 .. N + 1 /\ l(M) \in Nat
          BY <1>8, <1>9, <2>2
        <5>5. g[M] = end + 1
          <6>1. g[M] \in Int /\ l(M) \in Int /\ N \in Int /\ end \in Int
            BY <1>1, <1>12, <5>4
          <6> DEFINE x == g[M]
                     w == l(M)
          <6>2. x \in Int /\ w \in Int /\ x + w = N + 1 /\ end + 1 = N + 1 - w
            BY <5>3, <6>1
          <6> HIDE DEF x, w
          <6>3. x = end + 1
            BY <6>1, <6>2, LastPlace
          <6> QED
            BY <6>3 DEF x
        <5> QED
          BY <5>2, <5>5
      <4> QED
        BY <4>1, <4>2
    <3>4. i # 0
      BY <3>1
    <3> QED
      BY <3>2, <3>3, <3>4
  <2>6. ASSUME last # M PROVE from <= end + 1 /\ end + 1 \in P(M)
    <3>1. g[M] + l(M) = N + 1 /\ end + 1 = N + 1 - l(M) /\ first < M
      BY <1>11, <1>12, <2>1, <2>6
    <3>2. g[M] \in 1 .. N + 1 /\ l(M) \in Nat
      BY <1>8, <1>9, <2>2
    <3>3. g[M] = end + 1
      <4> DEFINE x == g[M]
                 w == l(M)
      <4>1. x \in Int /\ w \in Int /\ x + w = N + 1 /\ end + 1 = N + 1 - w /\ N \in Int /\ end \in Int
        BY <1>1, <1>12, <3>1, <3>2
      <4> HIDE DEF x, w
      <4>2. x = end + 1
        BY ONLY <4>1, LastPlace
      <4> QED
        BY <4>2 DEF x
    <3>4. from <= g[M]
      <4>1. CASE first = 0
        BY <1>1, <2>4, <3>2, <4>1
      <4>2. CASE first = 1
        <5>1. g[1] + l(1) <= g[M]
          BY <1>9, <2>1, <3>1, <4>2
        <5> QED
          BY <2>4, <4>2, <5>1
      <4> QED
        BY <1>11, <4>1, <4>2
    <3> QED
      BY <1>9, <2>2, <3>3, <3>4
  <2>7. \A i \in first .. last : b[i] # 0 /\ b[i] <= h(i)
    <3> DEFINE T == {y \in first .. last : ~(b[y] # 0 /\ b[y] <= h(y))}
               t == Min(T)
    <3> SUFFICES ASSUME T # {} PROVE FALSE
      OBVIOUS
    <3>1. T \in SUBSET Nat
      BY <1>11
    <3> HIDE DEF T
    <3>2. t \in T /\ \A y \in T : t <= y
      BY <3>1, LeastNumber
    <3> HIDE DEF t
    <3>3. t \in first .. last /\ ~(b[t] # 0 /\ b[t] <= h(t))
      BY <3>2 DEF T
    <3>4. t # first
      <4>1. b[first] # 0 /\ b[first] <= h(first)
        BY <1>13, <1>14, <2>4
      <4> QED
        BY <3>3, <4>1
    <3> DEFINE i == t - 1
    <3>5. i \in first .. last /\ ~(t <= i) /\ t \in 1 .. M
      BY <1>15, <3>3, <3>4
    <3> HIDE DEF i, h
    <3>6. b[i] # 0 /\ b[i] <= h(i) /\ b[i] \in Nat
      BY <1>18, <3>2, <3>5 DEF T
    <3>7. h(i) <= g[t] /\ g[t] + l(t) <= end + 1 /\ h(t) = g[t] + l(t) /\ g[t] \in P(t) /\ g[t] \in Nat
      <4>1. g[t] \in P(t) /\ g[t] \in 1 .. N + 1
        BY <2>2, <3>5
      <4> QED
        BY <1>1, <2>5, <3>3, <3>4, <4>1 DEF i
    <3>8. h(i) \in Nat
      <4>1. CASE i = 0
        BY <4>1 DEF h
      <4>2. CASE i # 0
        <5>1. i \in 1 .. M
          BY <1>9, <1>11, <3>5, <4>2
        <5>2. g[i] \in Nat /\ l(i) \in Nat
          BY <1>1, <1>8, <2>2, <5>1
        <5> QED
          BY <4>2, <5>2 DEF h
      <4> QED
        BY <4>1, <4>2
    <3>9. b[i] <= g[t]
      BY <3>6, <3>7, <3>8
    <3>10. b[t] # 0 /\ b[t] <= g[t] + l(t)
      BY <1>17, <3>3, <3>4, <3>6, <3>7, <3>9 DEF i
    <3> QED
      BY <3>3, <3>7, <3>10
  <2>8. last \in first .. last
    BY <1>9, <1>11
  <2> QED
    BY <2>3, <2>6, <2>7, <2>8
<1>20. ASSUME r[1] = c \/ 1 \in P(1), last = M \/ (from <= end + 1 /\ end + 1 \in P(M)),
              b[last] # 0
       PROVE  \E g : Lies(r, c, a, e, M, s, g)
  <2>1. \A i \in first .. last : b[i] # 0
    <3> DEFINE T == {y \in first .. last : b[y] = 0}
               t == Max(T)
    <3> SUFFICES ASSUME T # {} PROVE FALSE
      OBVIOUS
    <3>1. T \in SUBSET (0 .. M)
      BY <1>9, <1>11
    <3> HIDE DEF T
    <3>2. t \in T /\ \A y \in T : t >= y
      BY <1>9, <3>1, GreatestNumber
    <3> HIDE DEF t
    <3>3. t \in first .. last /\ b[t] = 0
      BY <3>2 DEF T
    <3>4. t # last
      BY <1>20, <3>3
    <3> DEFINE i == t + 1
    <3>5. i \in first .. last /\ i # first /\ ~(t >= i) /\ i - 1 = t
      BY <1>9, <1>11, <3>3, <3>4
    <3> HIDE DEF i
    <3>6. b[i] # 0
      BY <3>2, <3>5 DEF T
    <3>7. b[i - 1] \in Nat
      BY <1>18, <3>3, <3>5
    <3>8. b[i - 1] # 0
      BY <1>17, <3>5, <3>6, <3>7
    <3> QED
      BY <3>3, <3>5, <3>8
  <2>2. ASSUME NEW i \in first .. last, i # first
        PROVE  /\ b[i] - l(i) \in P(i) /\ b[i - 1] <= b[i] - l(i) /\ b[i] <= end + 1
    <3>1. b[i - 1] \in Nat
      BY <1>15, <1>18, <2>2
    <3> QED
      BY <1>17, <2>1, <2>2, <3>1
  <2> DEFINE g == [m \in 1 .. M |-> IF m = 1 /\ first = 1 THEN 1
                                    ELSE IF m = M /\ last # M THEN end + 1 ELSE b[m] - l(m)]
             h == [m \in 1 .. M |-> g[m] + l(m)]
  <2>3. \A m \in 1 .. M : g[m] \in P(m)
    <3> SUFFICES ASSUME NEW m \in 1 .. M PROVE g[m] \in P(m)
      OBVIOUS
    <3>1. CASE m = 1 /\ first = 1
      <4>1. g[m] = 1 /\ r[1] # c
        BY <1>7, <3>1
      <4> HIDE DEF g
      <4> QED
        BY <1>20, <3>1, <4>1
    <3>2. CASE ~(m = 1 /\ first = 1) /\ m = M /\ last # M
      <4>1. g[m] = end + 1
        BY <3>2
      <4> HIDE DEF g
      <4> QED
        BY <1>20, <3>2, <4>1
    <3>3. CASE ~(m = 1 /\ first = 1) /\ ~(m = M /\ last # M)
      <4>1. g[m] = b[m] - l(m)
        BY <3>3
      <4> HIDE DEF g
      <4>2. m \in first .. last /\ m # first
        BY <1>9, <1>11, <3>3
      <4> QED
        BY <2>2, <4>1, <4>2
    <3> QED
      BY <3>1, <3>2, <3>3
  <2>4. g \in [1 .. M -> 1 .. N + 1] /\ \A m \in 1 .. M : g[m] \in 1 .. N + 1 /\ g[m] + l(m) <= N + 1
    <3>1. \A m \in 1 .. M : g[m] \in 1 .. N + 1 /\ g[m] + l(m) <= N + 1
      <4> HIDE DEF g
      <4> QED
        BY <1>6, <2>3
    <3>2. g = [m \in 1 .. M |-> g[m]]
      OBVIOUS
    <3> HIDE DEF g
    <3> QED
      BY <3>1, <3>2
  <2>5. /\ \A m \in 1 .. M : m = 1 /\ first = 1 => g[m] = 1
        /\ \A m \in 1 .. M : ~(m = 1 /\ first = 1) /\ m = M /\ last # M => g[m] = end + 1
        /\ \A m \in 1 .. M : ~(m = 1 /\ first = 1) /\ ~(m = M /\ last # M) => g[m] = b[m] - l(m)
    OBVIOUS
  <2>6. \A m \in 1 .. M : h[m] = g[m] + l(m)
    BY DEF h
  <2> HIDE DEF g
  <2>7. g \in [1 .. M -> Nat] /\ h \in [1 .. M -> Nat] /\ \A m \in 1 .. M : g[m] <= h[m]
    <3>1. \A m \in 1 .. M : g[m] \in Nat /\ g[m] + l(m) \in Nat /\ g[m] <= g[m] + l(m)
      <4> SUFFICES ASSUME NEW m \in 1 .. M
                   PROVE  g[m] \in Nat /\ g[m] + l(m) \in Nat /\ g[m] <= g[m] + l(m)
        OBVIOUS
      <4>1. g[m] \in 1 .. N + 1 /\ l(m) \in Nat
        BY <1>8, <2>4
      <4> QED
        BY <1>1, <4>1
    <3>2. g \in [1 .. M -> Nat]
      BY <2>4, <3>1
    <3> QED
      BY <3>1, <3>2
  <2> HIDE DEF h
  \* Behind each part begins what the next one is looked for in.
  <2>8. \A m \in 1 .. M : m \in first .. last => h[m] = b[m]
    <3> SUFFICES ASSUME NEW m \in 1 .. M, m \in first .. last PROVE h[m] = b[m]
      OBVIOUS
    <3>1. CASE m = 1 /\ first = 1
      <4>1. b[m] = 1 + l(1) /\ g[m] = 1
        BY <1>7, <1>14, <2>5, <3>1
      <4> QED
        BY <2>6, <3>1, <4>1
    <3>2. CASE ~(m = 1 /\ first = 1)
      <4>1. ~(m = M /\ last # M)
        BY <1>9, <1>11
      <4>2. g[m] = b[m] - l(m) /\ b[m] \in Nat /\ l(m) \in Nat
        BY <1>8, <1>18, <2>5, <3>2, <4>1
      <4>3. b[m] - l(m) + l(m) = b[m]
        BY <4>2
      <4> QED
        BY <2>6, <4>2, <4>3
    <3> QED
      BY <3>1, <3>2
  <2>9. ASSUME NEW m \in 1 .. M, m # M
        PROVE  h[m] <= g[m + 1]
    <3> DEFINE k == m + 1
    <3>1. m \in first .. last /\ k \in 1 .. M /\ k # 1 /\ k - 1 = m
      BY <1>9, <1>11, <2>9
    <3> HIDE DEF k
    <3>2. h[m] = b[m]
      BY <2>8, <3>1
    <3>3. CASE k = M /\ last # M
      <4>1. g[k] = end + 1
        BY <2>5, <3>1, <3>3
      <4>2. b[m] <= end + 1
        <5>1. CASE m = first
          BY <1>14, <1>20, <3>3, <5>1
        <5>2. CASE m # first
          BY <2>2, <3>1, <5>2
        <5> QED
          BY <5>1, <5>2
      <4> QED
        BY <3>2, <4>1, <4>2 DEF k
    <3>4. CASE ~(k = M /\ last # M)
      <4>1. g[k] = b[k] - l(k)
        BY <2>5, <3>1, <3>4
      <4>2. k \in first .. last /\ k # first
        BY <1>9, <1>11, <3>1, <3>4
      <4>3. b[k - 1] <= b[k] - l(k)
        BY <2>2, <4>2
      <4> QED
        BY <3>1, <3>2, <4>1, <4>3 DEF k
    <3> QED
      BY <3>3, <3>4
  <2>10. \A m, k \in 1 .. M : m < k => h[m] <= g[k]
    BY <1>9, <2>7, <2>9, RowInOrder
  <2>11. r[1] # c => g[1] = 1
    BY <1>7, <1>9, <2>5
  <2>12. r[R] # c => g[M] + l(M) = N + 1
    <3> SUFFICES ASSUME r[R] # c PROVE g[M] + l(M) = N + 1
      OBVIOUS
    <3>1. last # M /\ ~(M = 1 /\ first = 1)
      BY <1>7, <1>10
    <3>2. g[M] = end + 1 /\ end + 1 = N + 1 - l(M) /\ l(M) \in Nat
      BY <1>8, <1>9, <1>12, <2>5, <3>1
    <3> QED
      BY <1>1, <3>2
  <2>13. \A m \in 1 .. M : \A i \in 1 .. l(m) : s[g[m] + i - 1] = r[a[m] + i - 1]
    <3> SUFFICES ASSUME NEW m \in 1 .. M
                 PROVE  \A i \in 1 .. l(m) : s[g[m] + i - 1] = r[a[m] + i - 1]
      OBVIOUS
    <3> DEFINE k == g[m]
    <3>1. k \in P(m)
      BY <2>3
    <3> HIDE DEF k, P
    <3>2. \A i \in 1 .. l(m) : s[k + i - 1] = r[a[m] + i - 1]
      BY <1>6, <3>1
    <3> QED
      BY <3>2 DEF k
  <2>14. \A m, k \in 1 .. M : m < k => g[m] + l(m) <= g[k]
    BY <2>6, <2>10
  <2>15. Lies(r, c, a, e, M, s, g)
    BY <2>4, <2>11, <2>12, <2>13, <2>14 DEF Lies, l, R, N
  <2> QED
    BY <2>15
<1>21. (\E g : Lies(r, c, a, e, M, s, g)) =>
          /\ r[1] = c \/ 1 \in P(1)
          /\ last = M \/ (from <= end + 1 /\ end + 1 \in P(M))
          /\ b[last] # 0
  BY <1>19
<1> QED
  BY <1>20, <1>21 DEF P

\* compilePattern keeps the parts of r and whether r begins and ends with a star.
LEMMA CompiledIs ==
    ASSUME NEW S, NEW r \in Seq(S), r # <<>>
    PROVE  LET p == Compile(r)
               a == CutAt(r, "*")
               e == CutEnd(r, "*")
               M == Cardinality(CutStarts(r, "*"))
           IN  /\ p.raw = r /\ Cuts(r, "*", a, e, M)
               /\ p.segs \in Seq(Seq(S)) /\ Len(p.segs) = M /\ DOMAIN p.segs = 1 .. M
               /\ \A m \in 1 .. M : /\ p.segs[m] \in Seq(S) /\ Len(p.segs[m]) = e[m] - a[m]
                                    /\ \A i \in 1 .. e[m] - a[m] : p.segs[m][i] = r[a[m] + i - 1]
               /\ p.leading = (r[1] = "*") /\ p.trailing = (r[Len(r)] = "*")
<1> DEFINE c == "*"
           p == Compile(r)
           a == CutAt(r, c)
           e == CutEnd(r, c)
           M == Cardinality(CutStarts(r, c))
<1>1. /\ p.segs = [m \in DOMAIN a |-> PartAt(r, c, a[m])] /\ p.raw = r
      /\ p.leading = (PartAt(r, c, 1) = <<>>) /\ p.trailing = (PartAt(r, c, Max(Starts(r, c))) = <<>>)
  BY DEF Compile, CutAt, CutStarts
<1> HIDE DEF c, p
<1>2. /\ Cuts(r, c, a, e, M) /\ DOMAIN a = 1 .. M
      /\ \A m \in 1 .. M : /\ PartAt(r, c, a[m]) \in Seq(S)
                           /\ Len(PartAt(r, c, a[m])) = e[m] - a[m]
                           /\ \A i \in 1 .. e[m] - a[m] : PartAt(r, c, a[m])[i] = r[a[m] + i - 1]
  BY CutsOf
<1>3. (PartAt(r, c, 1) = <<>>) = (r[1] = c) /\ (PartAt(r, c, Max(Starts(r, c))) = <<>>) = (r[Len(r)] = c)
  BY EndsOf
<1>4. M \in Nat
  BY <1>2 DEF Cuts
<1> HIDE DEF a, e, M
<1>5. p.segs \in [1 .. M -> Seq(S)] /\ \A m \in 1 .. M : p.segs[m] = PartAt(r, c, a[m])
  BY <1>1, <1>2
<1>6. p.segs \in Seq(Seq(S)) /\ Len(p.segs) = M
  BY <1>4, <1>5, FunctionIsSeq
<1>7. DOMAIN p.segs = 1 .. M
  BY <1>5
<1>8. \A m \in 1 .. M : /\ p.segs[m] \in Seq(S) /\ Len(p.segs[m]) = e[m] - a[m]
                        /\ \A i \in 1 .. e[m] - a[m] : p.segs[m][i] = r[a[m] + i - 1]
  BY <1>2, <1>5
<1>9. p.leading = (r[1] = c) /\ p.trailing = (r[Len(r)] = c)
  BY <1>1, <1>3
<1>10. p.raw = r /\ Cuts(r, c, a, e, M)
  BY <1>1, <1>2
<1> QED
  BY <1>6, <1>7, <1>8, <1>9, <1>10 DEF c, p, a, e, M

\* pattern.match is what a wildcard means.
LEMMA MatchIsGlob ==
    ASSUME NEW S, NEW r \in Seq(S), NEW s \in Seq(S), HasWildcard(r)
    PROVE  Match(Compile(r), s) <=> Glob(r, s)
<1> DEFINE p == Compile(r)
           c == "*"
           R == Len(r)
           N == Len(s)
           a == CutAt(r, c)
           e == CutEnd(r, c)
           M == Cardinality(CutStarts(r, c))
           segs == p.segs
<1>1. \E j \in 1 .. R : r[j] = c
  BY LenProperties DEF HasWildcard, ToSet
<1>2. r # <<>>
  BY <1>1
<1>3. /\ Cuts(r, c, a, e, M) /\ segs \in Seq(Seq(S)) /\ Len(segs) = M /\ DOMAIN segs = 1 .. M
      /\ \A m \in 1 .. M : /\ segs[m] \in Seq(S) /\ Len(segs[m]) = e[m] - a[m]
                           /\ \A i \in 1 .. e[m] - a[m] : segs[m][i] = r[a[m] + i - 1]
      /\ p.leading = (r[1] = c) /\ p.trailing = (r[R] = c)
  <2>1. LET p1 == Compile(r)
            a1 == CutAt(r, "*")
            e1 == CutEnd(r, "*")
            M1 == Cardinality(CutStarts(r, "*"))
        IN  /\ p1.raw = r /\ Cuts(r, "*", a1, e1, M1)
            /\ p1.segs \in Seq(Seq(S)) /\ Len(p1.segs) = M1 /\ DOMAIN p1.segs = 1 .. M1
            /\ \A m \in 1 .. M1 : /\ p1.segs[m] \in Seq(S) /\ Len(p1.segs[m]) = e1[m] - a1[m]
                                  /\ \A i \in 1 .. e1[m] - a1[m] : p1.segs[m][i] = r[a1[m] + i - 1]
            /\ p1.leading = (r[1] = "*") /\ p1.trailing = (r[Len(r)] = "*")
    BY <1>2, CompiledIs
  <2> QED
    BY <2>1
<1>4. Glob(r, s) <=> \E f : Fits(r, c, s, f)
  BY GlobIsFits
<1> DEFINE first == IF p.leading THEN 0 ELSE 1
           last == IF p.trailing \/ M = first THEN M ELSE M - 1
           from == IF p.leading THEN 1 ELSE 1 + Len(segs[1])
           end == IF last = M THEN N ELSE N - Len(segs[M])
           b == CHOOSE b : b = [i \in first .. last |->
                                   IF i = first THEN from ELSE Behind(segs[i], s, b[i - 1], end)]
<1>5. Match(p, s) <=> \/ segs = <<>>
                      \/ /\ p.leading \/ 1 \in Places(segs[1], s)
                         /\ last = M \/ (from <= end + 1 /\ end + 1 \in Places(segs[M], s))
                         /\ b[last] # 0
  BY <1>3 DEF Match
<1> HIDE DEF p, c, a, e, M
<1>6. (\E f : Fits(r, c, s, f)) <=> \E g : Lies(r, c, a, e, M, s, g)
  BY <1>2, <1>3, FitsLies, LiesFits
<1>7. R \in Nat /\ N \in Nat /\ M \in Nat
  BY <1>3, LenProperties DEF Cuts
<1>8. CASE M = 0
  <2>1. segs = <<>>
    BY <1>3, <1>8, EmptySeq
  <2> DEFINE g == [m \in 1 .. M |-> 1]
  <2>2. r[1] = c /\ r[R] = c
    BY <1>2, <1>3, <1>8, CutsAtEnds
  <2>3. 1 .. M = {}
    BY <1>8
  <2>4. Lies(r, c, a, e, M, s, g)
    BY <2>2, <2>3 DEF Lies
  <2> QED
    BY <1>4, <1>5, <1>6, <2>1, <2>4 DEF p
<1>9. CASE M # 0
  <2>1. segs # <<>>
    BY <1>3, <1>9, EmptySeq
  <2>2. /\ first \in {0, 1} /\ last \in {M - 1, M} /\ first <= last /\ M >= 1
        /\ first \in Nat /\ last \in Nat
    BY <1>7, <1>9
  <2>3. from \in Nat /\ end \in Int
    <3>1. 1 \in 1 .. M /\ M \in 1 .. M
      BY <1>7, <1>9
    <3>2. Len(segs[1]) \in Nat /\ Len(segs[M]) \in Nat
      BY <1>3, <3>1, LenProperties
    <3> HIDE DEF first, last
    <3> QED
      BY <1>7, <3>2
  <2> HIDE DEF first, last, from, end
  <2>4. \A i \in first .. last : i # first => i \in 1 .. M
    BY <1>7, <2>2
  <2> DEFINE step == [x \in (first .. last) \X Nat |->
                         IF x[1] = first THEN 0 ELSE Behind(segs[x[1]], s, x[2], end)]
  <2>5. step \in [(first .. last) \X Nat -> Nat]
    <3> SUFFICES ASSUME NEW i \in first .. last, NEW x \in Nat, i # first
                 PROVE  Behind(segs[i], s, x, end) \in Nat
      OBVIOUS
    <3>1. segs[i] \in Seq(S)
      BY <1>3, <2>4
    <3> QED
      BY <2>3, <3>1, BehindIs
  <2>6. \A i \in first .. last : \A x \in Nat :
           i # first => step[<<i, x>>] = Behind(segs[i], s, x, end)
    OBVIOUS
  <2> HIDE DEF step
  <2>7. PICK d \in [first .. last -> Nat] :
           \A i \in first .. last : d[i] = IF i = first THEN from ELSE step[<<i, d[i - 1]>>]
    <3> HIDE DEF segs
    <3>1. first \in Nat /\ last \in Nat /\ first <= last /\ from \in Nat
      BY <2>2, <2>3
    <3> DEFINE A == first
               B == last
               x == from
    <3>2. A \in Nat /\ B \in Nat /\ A <= B /\ x \in Nat /\ step \in [(A .. B) \X Nat -> Nat]
      BY <2>5, <3>1
    <3> HIDE DEF A, B, x
    <3>3. \E d : Stepped(Nat, A, B, x, step, d)
      BY <3>2, ChainExists
    <3>4. PICK d : Stepped(Nat, A, B, x, step, d)
      BY <3>3
    <3>5. Stepped(Nat, first, last, from, step, d)
      BY <3>4 DEF A, B, x
    <3> QED
      BY <3>5 DEF Stepped
  <2>8. d = [i \in first .. last |-> IF i = first THEN from ELSE Behind(segs[i], s, d[i - 1], end)]
    <3>1. \A i \in first .. last : i # first => i - 1 \in first .. last
      BY <2>2
    <3>2. ASSUME NEW i \in first .. last
          PROVE  d[i] = IF i = first THEN from ELSE Behind(segs[i], s, d[i - 1], end)
      <4> HIDE DEF segs
      <4>1. CASE i = first
        BY <2>7, <4>1
      <4>2. CASE i # first
        <5>1. d[i - 1] \in Nat
          BY <2>7, <3>1, <4>2
        <5>2. step[<<i, d[i - 1]>>] = Behind(segs[i], s, d[i - 1], end)
          BY <2>6, <4>2, <5>1
        <5> QED
          BY <2>7, <4>2, <5>2
      <4> QED
        BY <4>1, <4>2
    <3> QED
      BY <2>7, <3>2
  <2>9. b = [i \in first .. last |-> IF i = first THEN from ELSE Behind(segs[i], s, b[i - 1], end)]
    BY <2>8
  <2> HIDE DEF b
  <2>10. \A i \in first .. last : b[i] = IF i = first THEN from ELSE Behind(segs[i], s, b[i - 1], end)
    BY <2>9
  <2>11. /\ first = (IF r[1] = c THEN 0 ELSE 1)
         /\ last = (IF r[R] = c \/ M = first THEN M ELSE M - 1)
         /\ from = (IF r[1] = c THEN 1 ELSE 1 + Len(segs[1]))
         /\ end = (IF last = M THEN N ELSE N - Len(segs[M]))
    BY <1>3 DEF first, last, from, end
  <2> HIDE DEF segs
  <2>12. (/\ r[1] = c \/ 1 \in Places(segs[1], s)
          /\ last = M \/ (from <= end + 1 /\ end + 1 \in Places(segs[M], s))
          /\ b[last] # 0)
         <=> \E g : Lies(r, c, a, e, M, s, g)
    <3>1. Cuts(r, c, a, e, M)
      BY <1>3
    <3>2. \A m \in 1 .. M : /\ segs[m] \in Seq(S) /\ Len(segs[m]) = e[m] - a[m]
                            /\ \A i \in 1 .. e[m] - a[m] : segs[m][i] = r[a[m] + i - 1]
      BY <1>3
    <3>3. Chain(S, r, c, a, e, M, segs, s, first, last, from, end, b)
      BY <1>1, <1>2, <1>9, <2>10, <2>11, <3>1, <3>2 DEF Chain
    <3> QED
      BY <3>3, ChainIsLies
  <2> QED
    BY <1>3, <1>4, <1>5, <1>6, <2>1, <2>12 DEF p
<1> QED
  BY <1>8, <1>9

----------------------------------------------------------------------------
(* Which of two rules is the more specific: the weight of a pattern        *)

\* Where the characters of all parts are, and where those of s that are no separators.
PartPlaces(segs) == UNION {{m} \X DOMAIN segs[m] : m \in DOMAIN segs}
Others(s, c) == {k \in DOMAIN s : s[k] # c}

\* The parts as sequences of their own.
CutsInto(s, c, a, e, M, segs) ==
    /\ Cuts(s, c, a, e, M) /\ DOMAIN segs = 1 .. M
    /\ \A m \in 1 .. M : DOMAIN segs[m] = 1 .. e[m] - a[m]

\* Every character that is no separator has one place in one part.
LEMMA CutsCount ==
    ASSUME NEW S, NEW r \in Seq(S), NEW c, NEW a, NEW e, NEW M, NEW segs,
           CutsInto(r, c, a, e, M, segs)
    PROVE  Cardinality(PartPlaces(segs)) = Cardinality(Others(r, c))
<1> SUFFICES ASSUME Cuts(r, c, a, e, M), DOMAIN segs = 1 .. M,
                    \A m \in 1 .. M : DOMAIN segs[m] = 1 .. e[m] - a[m]
             PROVE  Cardinality(PartPlaces(segs)) = Cardinality(Others(r, c))
  BY DEF CutsInto
<1> DEFINE P == UNION {{m} \X DOMAIN segs[m] : m \in DOMAIN segs}
           L == {k \in DOMAIN r : r[k] # c}
           f == [x \in P |-> a[x[1]] + x[2] - 1]
           N == Len(r)
<1>1. N \in Nat /\ DOMAIN r = 1 .. N
  BY LenProperties
<1>2. /\ M \in Nat /\ \A m \in 1 .. M : a[m] \in 1 .. N /\ e[m] \in 1 .. N + 1 /\ a[m] < e[m]
      /\ \A m \in 1 .. M : \A j \in a[m] .. e[m] - 1 : r[j] # c
      /\ \A m, k \in 1 .. M : m < k => e[m] < a[k]
      /\ \A j \in 1 .. N : r[j] # c => \E m \in 1 .. M : a[m] <= j /\ j < e[m]
  BY DEF Cuts
<1>3. \A x : x \in P <=> \E m \in 1 .. M : \E i \in 1 .. e[m] - a[m] : x = <<m, i>>
  <2> SUFFICES ASSUME NEW x
               PROVE  x \in P <=> \E m \in 1 .. M : \E i \in 1 .. e[m] - a[m] : x = <<m, i>>
    OBVIOUS
  <2>1. x \in P <=> \E m \in 1 .. M : x \in {m} \X DOMAIN segs[m]
    OBVIOUS
  <2>2. ASSUME NEW m \in 1 .. M
        PROVE  x \in {m} \X DOMAIN segs[m] <=> \E i \in 1 .. e[m] - a[m] : x = <<m, i>>
    <3>1. DOMAIN segs[m] = 1 .. e[m] - a[m]
      OBVIOUS
    <3> DEFINE I == 1 .. e[m] - a[m]
    <3> HIDE DEF I
    <3>2. x \in {m} \X I <=> \E i \in I : x = <<m, i>>
      OBVIOUS
    <3> QED
      BY <3>1, <3>2 DEF I
  <2> HIDE DEF P
  <2> QED
    BY <2>1, <2>2
<1>4. \A m \in 1 .. M : \A i \in 1 .. e[m] - a[m] : <<m, i>> \in P
  BY <1>3
<1>5. \A m \in 1 .. M : \A i \in 1 .. e[m] - a[m] : f[<<m, i>>] = a[m] + i - 1
  BY <1>4
<1>6. \A m \in 1 .. M : \A i \in 1 .. e[m] - a[m] :
         a[m] + i - 1 \in a[m] .. e[m] - 1 /\ a[m] + i - 1 \in 1 .. N
  <2> SUFFICES ASSUME NEW m \in 1 .. M, NEW i \in 1 .. e[m] - a[m]
               PROVE  a[m] + i - 1 \in a[m] .. e[m] - 1 /\ a[m] + i - 1 \in 1 .. N
    OBVIOUS
  <2>1. a[m] \in 1 .. N /\ e[m] \in 1 .. N + 1 /\ a[m] < e[m]
    BY <1>2
  <2> HIDE DEF N
  <2> QED
    BY <1>1, <2>1
<1>7. f \in [P -> L]
  <2>1. ASSUME NEW x \in P PROVE f[x] \in L
    <3>1. PICK m \in 1 .. M : \E i \in 1 .. e[m] - a[m] : x = <<m, i>>
      BY <1>3
    <3>2. PICK i \in 1 .. e[m] - a[m] : x = <<m, i>>
      BY <3>1
    <3> DEFINE j == a[m] + i - 1
    <3>3. j \in a[m] .. e[m] - 1 /\ j \in 1 .. N /\ f[x] = j
      BY <1>5, <1>6, <3>2
    <3> HIDE DEF j, f, P
    <3> QED
      BY <1>1, <1>2, <3>3
  <2>2. f = [x \in P |-> f[x]]
    OBVIOUS
  <2> HIDE DEF f, P, L
  <2> QED
    BY <2>1, <2>2
<1> HIDE DEF f, P
<1>8. \A x, y \in P : f[x] = f[y] => x = y
  <2> SUFFICES ASSUME NEW x \in P, NEW y \in P, f[x] = f[y] PROVE x = y
    OBVIOUS
  <2>1. PICK m \in 1 .. M : \E i \in 1 .. e[m] - a[m] : x = <<m, i>>
    BY <1>3
  <2>2. PICK i \in 1 .. e[m] - a[m] : x = <<m, i>>
    BY <2>1
  <2>3. PICK k \in 1 .. M : \E i1 \in 1 .. e[k] - a[k] : y = <<k, i1>>
    BY <1>3
  <2>4. PICK h \in 1 .. e[k] - a[k] : y = <<k, h>>
    BY <2>3
  <2>5. a[m] + i - 1 = a[k] + h - 1
    BY <1>5, <2>2, <2>4
  <2>6. a[m] + i - 1 \in a[m] .. e[m] - 1 /\ a[k] + h - 1 \in a[k] .. e[k] - 1
    BY <1>6
  <2>7. a[m] \in Nat /\ e[m] \in Nat /\ a[k] \in Nat /\ e[k] \in Nat
    BY <1>1, <1>2
  <2> DEFINE j == a[m] + i - 1
  <2>8. j \in a[m] .. e[m] - 1 /\ j \in a[k] .. e[k] - 1
    BY <2>5, <2>6
  <2> HIDE DEF j
  <2>9. m = k
    <3>1. ~(m < k)
      <4> SUFFICES ASSUME m < k PROVE FALSE
        OBVIOUS
      <4>1. e[m] < a[k]
        BY <1>2
      <4> QED
        BY <2>7, <2>8, <4>1
    <3>2. ~(k < m)
      <4> SUFFICES ASSUME k < m PROVE FALSE
        OBVIOUS
      <4>1. e[k] < a[m]
        BY <1>2
      <4> QED
        BY <2>7, <2>8, <4>1
    <3> QED
      BY <1>2, <3>1, <3>2
  <2>10. i = h
    <3>1. i \in Int /\ h \in Int /\ a[m] + i - 1 = a[m] + h - 1
      BY <2>5, <2>9
    <3> QED
      BY <2>7, <3>1
  <2> QED
    BY <2>2, <2>4, <2>9, <2>10
<1>9. \A t \in L : \E x \in P : f[x] = t
  <2> SUFFICES ASSUME NEW t \in L PROVE \E x \in P : f[x] = t
    OBVIOUS
  <2>1. t \in 1 .. N /\ r[t] # c
    BY <1>1
  <2>2. PICK m \in 1 .. M : a[m] <= t /\ t < e[m]
    BY <1>2, <2>1
  <2>3. a[m] \in Nat /\ e[m] \in Nat /\ t \in Nat
    BY <1>1, <1>2, <2>1
  <2> DEFINE i == t - a[m] + 1
  <2>4. i \in 1 .. e[m] - a[m] /\ a[m] + i - 1 = t
    BY <2>2, <2>3
  <2> HIDE DEF i
  <2> QED
    BY <1>4, <1>5, <2>4
<1>10. IsFiniteSet(L)
  <2>1. L \in SUBSET (1 .. N) /\ IsFiniteSet(1 .. N)
    BY <1>1, FS_Interval
  <2> HIDE DEF L
  <2> QED
    BY <2>1, FS_Subset
<1> HIDE DEF L
<1>11. f \in Injection(P, L) /\ f \in Surjection(P, L)
  BY <1>7, <1>8, <1>9 DEF Injection, Surjection, IsInjective
<1>12. Cardinality(P) = Cardinality(L)
  BY <1>10, <1>11, FS_Injection
<1> QED
  BY <1>12 DEF P, L, PartPlaces, Others

\* The literal characters can be counted.
LEMMA CountOf ==
    ASSUME NEW S, NEW r \in Seq(S), NEW c
    PROVE  Cardinality({k \in DOMAIN r : r[k] # c}) \in Nat
<1> DEFINE L == {k \in DOMAIN r : r[k] # c}
<1>1. DOMAIN r = 1 .. Len(r) /\ Len(r) \in Nat
  BY LenProperties
<1>2. L \in SUBSET (1 .. Len(r)) /\ IsFiniteSet(1 .. Len(r))
  BY <1>1, FS_Interval
<1> HIDE DEF L
<1>3. IsFiniteSet(L)
  BY <1>2, FS_Subset
<1> QED
  BY <1>3, FS_CardinalityType DEF L

\* patternWeight counts what stands for itself, and then the anchored ends.
LEMMA WeightIs ==
    ASSUME NEW S, NEW r \in Seq(S), r # <<>>
    PROVE  /\ Weight(Compile(r)) = 4 * Literals(r) + Anchors(r)
           /\ Literals(r) \in Nat /\ Anchors(r) \in 0 .. 3
<1> DEFINE p == Compile(r)
           c == "*"
           a == CutAt(r, c)
           e == CutEnd(r, c)
           M == Cardinality(CutStarts(r, c))
           segs == p.segs
           P == UNION {{m} \X DOMAIN segs[m] : m \in DOMAIN segs}
<1>1. LET p1 == Compile(r)
          a1 == CutAt(r, "*")
          e1 == CutEnd(r, "*")
          M1 == Cardinality(CutStarts(r, "*"))
      IN  /\ p1.raw = r /\ Cuts(r, "*", a1, e1, M1)
          /\ p1.segs \in Seq(Seq(S)) /\ Len(p1.segs) = M1 /\ DOMAIN p1.segs = 1 .. M1
          /\ \A m \in 1 .. M1 : /\ p1.segs[m] \in Seq(S) /\ Len(p1.segs[m]) = e1[m] - a1[m]
                                /\ \A i \in 1 .. e1[m] - a1[m] : p1.segs[m][i] = r[a1[m] + i - 1]
          /\ p1.leading = (r[1] = "*") /\ p1.trailing = (r[Len(r)] = "*")
  BY CompiledIs
<1>2. /\ Cuts(r, c, a, e, M) /\ DOMAIN segs = 1 .. M
      /\ \A m \in 1 .. M : segs[m] \in Seq(S) /\ Len(segs[m]) = e[m] - a[m]
      /\ p.leading = (r[1] = c) /\ p.trailing = (r[Len(r)] = c)
  BY <1>1
<1>3. Weight(p) = 4 * Cardinality(P) + (IF p.leading THEN 0 ELSE 2) + (IF p.trailing THEN 0 ELSE 1)
  BY DEF Weight
<1>4. Literals(r) = Cardinality({k \in DOMAIN r : r[k] # c})
  BY DEF Literals
<1>5. Anchors(r) = (IF r[1] = c THEN 0 ELSE 2) + (IF r[Len(r)] = c THEN 0 ELSE 1)
  <2>1. Head(r) = r[1] /\ Last(r) = r[Len(r)]
    BY HeadTailProperties DEF Last
  <2> QED
    BY <2>1 DEF Anchors
<1> HIDE DEF p, c, a, e, M, segs
<1>6. \A m \in 1 .. M : DOMAIN segs[m] = 1 .. e[m] - a[m]
  <2> SUFFICES ASSUME NEW m \in 1 .. M PROVE DOMAIN segs[m] = 1 .. e[m] - a[m]
    OBVIOUS
  <2> DEFINE seg == segs[m]
  <2>1. seg \in Seq(S) /\ Len(seg) = e[m] - a[m]
    BY <1>2
  <2> HIDE DEF seg
  <2>2. DOMAIN seg = 1 .. Len(seg)
    BY <2>1, LenProperties
  <2> QED
    BY <2>1, <2>2 DEF seg
<1>7. Cardinality(P) = Cardinality({k \in DOMAIN r : r[k] # c})
  <2>1. Cardinality(PartPlaces(segs)) = Cardinality(Others(r, c))
    <3>1. CutsInto(r, c, a, e, M, segs)
      BY <1>2, <1>6 DEF CutsInto
    <3> QED
      BY <3>1, CutsCount
  <2> QED
    BY <2>1 DEF PartPlaces, Others
<1>8. Literals(r) \in Nat
  BY <1>4, CountOf
<1> DEFINE l == Literals(r)
           w == Weight(p)
           t == Anchors(r)
           x == r[1] = c
           y == r[Len(r)] = c
<1>9. /\ w = 4 * l + (IF x THEN 0 ELSE 2) + (IF y THEN 0 ELSE 1)
      /\ t = (IF x THEN 0 ELSE 2) + (IF y THEN 0 ELSE 1)
  <2> HIDE DEF P
  <2> QED
    BY <1>2, <1>3, <1>4, <1>5, <1>7
<1> HIDE DEF l, w, t, x, y
<1>10. l \in Nat
  BY <1>8 DEF l
<1>11. w = 4 * l + t /\ t \in 0 .. 3
  BY <1>9, <1>10
<1> QED
  BY <1>8, <1>11 DEF w, l, t, p

\* Two names begin alike if they do so character by character.
LEMMA SameStart ==
    ASSUME NEW S, NEW s \in Seq(S), NEW t \in Seq(S), NEW j \in Nat, j <= Len(s), j <= Len(t)
    PROVE  SubSeq(s, 1, j) = SubSeq(t, 1, j) <=> \A i \in 1 .. j : s[i] = t[i]
<1> DEFINE u == SubSeq(s, 1, j)
           v == SubSeq(t, 1, j)
<1>1. /\ u \in Seq(S) /\ Len(u) = j /\ \A i \in 1 .. j : u[i] = s[i]
      /\ v \in Seq(S) /\ Len(v) = j /\ \A i \in 1 .. j : v[i] = t[i]
  <2>1. \A i \in 1 .. j : 1 + i - 1 = i
    OBVIOUS
  <2> QED
    BY <2>1, SubSeqProperties, LenProperties
<1> HIDE DEF u, v
<1>2. ASSUME \A i \in 1 .. j : s[i] = t[i] PROVE u = v
  BY <1>1, <1>2, SeqEqual
<1>3. u = v => \A i \in 1 .. j : s[i] = t[i]
  BY <1>1
<1> QED
  BY <1>2, <1>3 DEF u, v

\* Two texts differ at a place, or one goes on where the other ends.
LEMMA SmallerIs ==
    ASSUME NEW S, NEW s \in Seq(S), NEW t \in Seq(S)
    PROVE  Smaller(s, t) <=>
              \/ Len(s) <= Len(t) /\ (\A i \in 1 .. Len(s) : s[i] = t[i]) /\ s # t
              \/ \E k \in 1 .. Len(s) : /\ k <= Len(t) /\ Rank[s[k]] < Rank[t[k]]
                                        /\ \A i \in 1 .. k - 1 : s[i] = t[i]
<1>1. Len(s) \in Nat /\ Len(t) \in Nat /\ DOMAIN s = 1 .. Len(s) /\ DOMAIN t = 1 .. Len(t)
  BY LenProperties
<1>2. IsStrictPrefix(s, t) <=>
         Len(s) <= Len(t) /\ (\A i \in 1 .. Len(s) : s[i] = t[i]) /\ s # t
  <2>1. CASE Len(s) <= Len(t)
    <3>1. SubSeq(s, 1, Len(s)) = SubSeq(t, 1, Len(s)) <=> \A i \in 1 .. Len(s) : s[i] = t[i]
      BY <1>1, <2>1, SameStart
    <3> QED
      BY <2>1, <3>1 DEF IsStrictPrefix, IsPrefix
  <2>2. CASE ~(Len(s) <= Len(t))
    BY <2>2 DEF IsStrictPrefix, IsPrefix
  <2> QED
    BY <2>1, <2>2
<1>3. ASSUME NEW k \in 1 .. Len(s), k <= Len(t)
      PROVE  SubSeq(s, 1, k - 1) = SubSeq(t, 1, k - 1) <=> \A i \in 1 .. k - 1 : s[i] = t[i]
  <2> DEFINE j == k - 1
  <2>1. j \in Nat /\ j <= Len(s) /\ j <= Len(t)
    BY <1>1, <1>3
  <2> HIDE DEF j
  <2>2. SubSeq(s, 1, j) = SubSeq(t, 1, j) <=> \A i \in 1 .. j : s[i] = t[i]
    BY <2>1, SameStart
  <2> QED
    BY <2>2 DEF j
<1>4. \A k : k \in DOMAIN s \cap DOMAIN t <=> k \in 1 .. Len(s) /\ k <= Len(t)
  BY <1>1
<1>5. (\E k \in DOMAIN s \cap DOMAIN t :
          SubSeq(s, 1, k - 1) = SubSeq(t, 1, k - 1) /\ Rank[s[k]] < Rank[t[k]])
      <=> \E k \in 1 .. Len(s) : /\ k <= Len(t) /\ Rank[s[k]] < Rank[t[k]]
                                 /\ \A i \in 1 .. k - 1 : s[i] = t[i]
  BY <1>3, <1>4
<1> QED
  BY <1>2, <1>5 DEF Smaller

\* The order of Go's strings is total.
LEMMA SmallerOrders ==
    ASSUME NEW s \in Seq(Chars), NEW t \in Seq(Chars), s # t
    PROVE  (Smaller(s, t) \/ Smaller(t, s)) /\ ~(Smaller(s, t) /\ Smaller(t, s))
<1>1. Len(s) \in Nat /\ Len(t) \in Nat
  BY LenProperties
<1>2. /\ Smaller(s, t) <=>
           \/ Len(s) <= Len(t) /\ (\A i \in 1 .. Len(s) : s[i] = t[i]) /\ s # t
           \/ \E k \in 1 .. Len(s) : /\ k <= Len(t) /\ Rank[s[k]] < Rank[t[k]]
                                     /\ \A i \in 1 .. k - 1 : s[i] = t[i]
      /\ Smaller(t, s) <=>
           \/ Len(t) <= Len(s) /\ (\A i \in 1 .. Len(t) : t[i] = s[i]) /\ t # s
           \/ \E k \in 1 .. Len(t) : /\ k <= Len(s) /\ Rank[t[k]] < Rank[s[k]]
                                     /\ \A i \in 1 .. k - 1 : t[i] = s[i]
  BY SmallerIs
<1>3. /\ \A k \in 1 .. Len(s) : s[k] \in Chars
      /\ \A k \in 1 .. Len(t) : t[k] \in Chars
  BY ElementOfSeq
<1>4. \A c, d \in Chars : Rank[c] \in Nat /\ (Rank[c] = Rank[d] => c = d)
  BY RankAssumption
<1>5. Smaller(s, t) \/ Smaller(t, s)
  <2> DEFINE T == {k \in 1 .. Len(s) : k <= Len(t) /\ s[k] # t[k]}
             k == Min(T)
  <2>1. CASE T = {}
    <3>1. \A i \in 1 .. Len(s) : i <= Len(t) => s[i] = t[i]
      BY <2>1
    <3> HIDE DEF T
    <3>2. CASE Len(s) <= Len(t)
      <4>1. \A i \in 1 .. Len(s) : s[i] = t[i]
        BY <1>1, <3>1, <3>2
      <4> QED
        BY <1>2, <3>2, <4>1
    <3>3. CASE Len(t) <= Len(s)
      <4>1. \A i \in 1 .. Len(t) : t[i] = s[i]
        BY <1>1, <3>1, <3>3
      <4> QED
        BY <1>2, <3>3, <4>1
    <3> QED
      BY <1>1, <3>2, <3>3
  <2>2. CASE T # {}
    <3>1. T \in SUBSET Nat
      OBVIOUS
    <3> HIDE DEF T
    <3>2. k \in T /\ \A y \in T : k <= y
      BY <2>2, <3>1, LeastNumber
    <3> HIDE DEF k
    <3>3. k \in 1 .. Len(s) /\ k <= Len(t) /\ s[k] # t[k] /\ k \in 1 .. Len(t) /\ k <= Len(s)
      BY <1>1, <3>2 DEF T
    <3>4. \A i \in 1 .. k - 1 : s[i] = t[i]
      <4> SUFFICES ASSUME NEW i \in 1 .. k - 1, s[i] # t[i] PROVE FALSE
        OBVIOUS
      <4>1. i \in 1 .. Len(s) /\ i <= Len(t) /\ ~(k <= i)
        BY <1>1, <3>3
      <4> QED
        BY <3>2, <4>1 DEF T
    <3> DEFINE x == Rank[s[k]]
               y == Rank[t[k]]
    <3>5. x \in Nat /\ y \in Nat /\ x # y
      BY <1>3, <1>4, <3>3
    <3>6. x < y \/ y < x
      <4> HIDE DEF x, y
      <4> QED
        BY <3>5
    <3> QED
      BY <1>2, <3>3, <3>4, <3>6
  <2> QED
    BY <2>1, <2>2
<1>6. ASSUME Smaller(s, t), Smaller(t, s) PROVE FALSE
  <2>1. CASE /\ Len(s) <= Len(t) /\ \A i \in 1 .. Len(s) : s[i] = t[i]
    <3>1. CASE Len(t) <= Len(s)
      <4>1. Len(s) = Len(t)
        BY <1>1, <2>1, <3>1
      <4>2. s = t
        BY <2>1, <4>1, SeqEqual
      <4> QED
        BY <4>2
    <3>2. CASE ~(Len(t) <= Len(s))
      <4>1. PICK k \in 1 .. Len(t) : k <= Len(s) /\ Rank[t[k]] < Rank[s[k]]
        BY <1>2, <1>6, <3>2
      <4>2. k \in 1 .. Len(s)
        BY <1>1, <4>1
      <4>3. s[k] = t[k] /\ Rank[t[k]] \in Nat
        BY <1>3, <1>4, <2>1, <4>2
      <4> QED
        BY <4>1, <4>3
    <3> QED
      BY <3>1, <3>2
  <2>2. CASE ~(/\ Len(s) <= Len(t) /\ \A i \in 1 .. Len(s) : s[i] = t[i])
    <3>1. PICK k \in 1 .. Len(s) : /\ k <= Len(t) /\ Rank[s[k]] < Rank[t[k]]
                                   /\ \A i \in 1 .. k - 1 : s[i] = t[i]
      BY <1>2, <1>6, <2>2
    <3>2. k \in 1 .. Len(t) /\ k \in Nat
      BY <1>1, <3>1
    <3>3. Rank[s[k]] \in Nat /\ Rank[t[k]] \in Nat
      BY <1>3, <1>4, <3>2
    <3> DEFINE x == Rank[s[k]]
               y == Rank[t[k]]
    <3>4. s[k] # t[k] /\ ~(y < x)
      <4>1. x \in Nat /\ y \in Nat /\ x < y
        BY <3>1, <3>3
      <4> HIDE DEF x, y
      <4>2. x # y /\ ~(y < x)
        BY <4>1
      <4> QED
        BY <4>2 DEF x, y
    <3> HIDE DEF x, y
    <3>5. PICK h \in 1 .. Len(t) : /\ h <= Len(s) /\ Rank[t[h]] < Rank[s[h]]
                                   /\ \A i \in 1 .. h - 1 : t[i] = s[i]
      <4>1. ~(\A i \in 1 .. Len(t) : t[i] = s[i])
        BY <3>2, <3>4
      <4> QED
        BY <1>2, <1>6, <4>1
    <3>6. h \in 1 .. Len(s) /\ h \in Nat
      BY <1>1, <3>5
    <3>7. h # k
      BY <3>4, <3>5 DEF x, y
    <3>8. CASE k < h
      <4>1. k \in 1 .. h - 1
        BY <3>1, <3>2, <3>6, <3>8
      <4> QED
        BY <3>4, <3>5, <4>1
    <3>9. CASE h < k
      <4>1. h \in 1 .. k - 1
        BY <3>5, <3>2, <3>6, <3>9
      <4>2. s[h] = t[h] /\ Rank[t[h]] \in Nat
        BY <1>3, <1>4, <3>1, <3>6, <4>1
      <4> QED
        BY <3>5, <4>2
    <3> QED
      BY <3>2, <3>6, <3>7, <3>8, <3>9
  <2> QED
    BY <2>1, <2>2
<1> QED
  BY <1>5, <1>6

\* The two flags only decide between patterns with as many literals.
LEMMA WeightOrders ==
    ASSUME NEW v \in Nat, NEW w \in Nat, NEW x \in 0 .. 3, NEW y \in 0 .. 3
    PROVE  /\ 4 * v + x > 4 * w + y <=> v > w \/ (v = w /\ x > y)
           /\ 4 * v + x = 4 * w + y <=> v = w /\ x = y
  OBVIOUS

\* What the comparison of build does not put first is less specific.
LEMMA SortedMeansSpecific ==
    ASSUME NEW r \in Seq(Chars), NEW q \in Seq(Chars), r # <<>>, q # <<>>, r # q,
           ~Before(Compile(q), Compile(r))
    PROVE  MoreSpecific(r, q)
<1> DEFINE v == Literals(r)
           x == Anchors(r)
           w == Literals(q)
           y == Anchors(q)
<1>1. /\ Weight(Compile(r)) = 4 * v + x /\ v \in Nat /\ x \in 0 .. 3
      /\ Weight(Compile(q)) = 4 * w + y /\ w \in Nat /\ y \in 0 .. 3
  BY WeightIs
<1>2. Compile(r).raw = r /\ Compile(q).raw = q
  BY DEF Compile
<1> HIDE DEF v, x, w, y
<1>3. ~(4 * w + y > 4 * v + x) /\ ~(4 * w + y = 4 * v + x /\ Smaller(q, r))
  BY <1>1, <1>2 DEF Before
<1>4. Smaller(r, q) \/ Smaller(q, r)
  BY SmallerOrders
<1>5. ~(w > v) /\ ~(w = v /\ y > x) /\ ~(w = v /\ x = y /\ Smaller(q, r))
  BY <1>1, <1>3
<1>6. v > w \/ (v = w /\ x > y) \/ (v = w /\ x = y /\ Smaller(r, q))
  BY <1>1, <1>4, <1>5
<1> QED
  BY <1>6 DEF MoreSpecific, v, x, w, y

\* Of two rules one is more specific.
LEMMA OneIsMoreSpecific ==
    ASSUME NEW r \in Seq(Chars), NEW q \in Seq(Chars), r # <<>>, q # <<>>, r # q,
           MoreSpecific(r, q)
    PROVE  ~MoreSpecific(q, r)
<1> DEFINE v == Literals(r)
           x == Anchors(r)
           w == Literals(q)
           y == Anchors(q)
<1>1. v \in Nat /\ x \in 0 .. 3 /\ w \in Nat /\ y \in 0 .. 3
  BY WeightIs
<1>2. ~(Smaller(r, q) /\ Smaller(q, r))
  BY SmallerOrders
<1>3. /\ v > w \/ (v = w /\ x > y) \/ (v = w /\ x = y /\ Smaller(r, q))
      /\ MoreSpecific(q, r) => w > v \/ (w = v /\ y > x) \/ (w = v /\ y = x /\ Smaller(q, r))
  BY DEF MoreSpecific
<1> HIDE DEF v, x, w, y
<1> QED
  BY <1>1, <1>2, <1>3

----------------------------------------------------------------------------
(* The look-up: the rules of a table of names, and what they answer        *)

\* The rules of a table are about names, and there are finitely many.
Named(rs) == DOMAIN rs \subseteq Seq(Chars) /\ IsFiniteSet(DOMAIN rs)

\* The wildcards of a table, compiled, and an order of them sort.Slice may leave.
WildRules(rs) == {r \in DOMAIN rs : HasWildcard(r)}
Compiled(rs) == {Compile(r) : r \in WildRules(rs)}
Sorted(w, rs) == /\ w \in SetToSeqs(Compiled(rs))
                 /\ \A j, k \in DOMAIN w : j < k => ~Before(w[k], w[j])

\* A wildcard is the pattern it was compiled from.
LEMMA WildRuleIs ==
    ASSUME NEW rs, Named(rs), NEW r \in WildRules(rs)
    PROVE  r \in Seq(Chars) /\ HasWildcard(r) /\ r # <<>> /\ Compile(r).raw = r /\ r \in DOMAIN rs
<1>1. r \in Seq(Chars) /\ HasWildcard(r) /\ r \in DOMAIN rs
  BY DEF Named, WildRules
<1>2. r # <<>>
  BY <1>1 DEF HasWildcard, ToSet
<1>3. Compile(r).raw = r
  BY DEF Compile
<1> QED
  BY <1>1, <1>2, <1>3

\* The sorted list has the wildcards of the table and nothing else.
LEMMA SortedIs ==
    ASSUME NEW rs, Named(rs), NEW w, Sorted(w, rs)
    PROVE  /\ Len(w) \in Nat /\ DOMAIN w = 1 .. Len(w)
           /\ \A k \in DOMAIN w : \E r \in WildRules(rs) : w[k] = Compile(r)
           /\ \A r \in WildRules(rs) : \E k \in DOMAIN w : w[k] = Compile(r)
<1> DEFINE W == WildRules(rs)
           C == Compiled(rs)
           N == Cardinality(C)
           f == [r \in W |-> Compile(r)]
<1>1. IsFiniteSet(W)
  <2>1. W \in SUBSET DOMAIN rs /\ IsFiniteSet(DOMAIN rs)
    BY DEF WildRules, Named
  <2> QED
    BY <2>1, FS_Subset
<1>2. f \in Surjection(W, C)
  <2>1. f \in [W -> C] /\ \A t \in C : \E s \in W : f[s] = t
    BY DEF Compiled
  <2> HIDE DEF f, W, C
  <2> QED
    BY <2>1 DEF Surjection
<1> HIDE DEF W, C, f
<1>3. IsFiniteSet(C) /\ N \in Nat
  <2>1. IsFiniteSet(C)
    BY <1>1, <1>2, FS_Surjection
  <2> QED
    BY <2>1, FS_CardinalityType
<1>4. w \in [1 .. N -> C] /\ \A i, j \in 1 .. N : i # j => w[i] # w[j]
  BY DEF Sorted, SetToSeqs, C
<1> HIDE DEF N
<1>5. w \in Injection(1 .. N, C)
  BY <1>4 DEF Injection, IsInjective
<1>6. Cardinality(1 .. N) = N
  BY <1>3, FS_Interval
<1>7. w \in Surjection(1 .. N, C)
  <2>1. Cardinality(1 .. N) = Cardinality(C) <=> w \in Surjection(1 .. N, C)
    BY <1>3, <1>5, FS_Injection
  <2> QED
    BY <1>6, <2>1 DEF N
<1>8. \A t \in C : \E k \in 1 .. N : w[k] = t
  BY <1>7 DEF Surjection
<1>9. w \in Seq(C) /\ Len(w) = N /\ DOMAIN w = 1 .. N
  BY <1>3, <1>4, FunctionIsSeq
<1>10. \A k \in 1 .. N : w[k] \in C
  BY <1>4
<1>11. \A t : t \in C <=> \E r \in WildRules(rs) : t = Compile(r)
  BY DEF C, Compiled
<1> QED
  BY <1>3, <1>8, <1>9, <1>10, <1>11

\* Nothing that was tried matches: the table has nothing for the name.
LEMMA WildMissed ==
    ASSUME name \in Seq(Chars), NEW rs, Named(rs), NEW w, Sorted(w, rs),
           ~(name \in DOMAIN rs /\ ~HasWildcard(name)),
           \A m \in DOMAIN w : ~Match(w[m], name)
    PROVE  Hits(rs) = {}
<1>1. ASSUME NEW r \in DOMAIN rs, HasWildcard(r) PROVE ~Glob(r, name)
  <2>1. r \in WildRules(rs)
    BY <1>1 DEF WildRules
  <2>2. PICK k \in DOMAIN w : w[k] = Compile(r)
    BY <2>1, SortedIs
  <2>3. r \in Seq(Chars)
    BY <2>1, WildRuleIs
  <2>4. ~Match(Compile(r), name)
    BY <2>2
  <2> QED
    BY <1>1, <2>3, <2>4, MatchIsGlob
<1> QED
  BY <1>1 DEF Hits

\* The first of the sorted wildcards that matches is the most specific one.
LEMMA WildFound ==
    ASSUME name \in Seq(Chars), NEW rs, Named(rs), NEW w, Sorted(w, rs),
           ~(name \in DOMAIN rs /\ ~HasWildcard(name)),
           NEW k \in DOMAIN w, Match(w[k], name),
           \A m \in DOMAIN w : m < k => ~Match(w[m], name)
    PROVE  /\ Hits(rs) # {} /\ BestOf(rs) = w[k].raw /\ HasWildcard(w[k].raw)
<1>1. /\ Len(w) \in Nat /\ DOMAIN w = 1 .. Len(w)
      /\ \A i \in DOMAIN w : \E r \in WildRules(rs) : w[i] = Compile(r)
      /\ \A r \in WildRules(rs) : \E i \in DOMAIN w : w[i] = Compile(r)
  BY SortedIs
<1>2. PICK r \in WildRules(rs) : w[k] = Compile(r)
  BY <1>1
<1>3. r \in Seq(Chars) /\ HasWildcard(r) /\ r # <<>> /\ w[k].raw = r /\ r \in DOMAIN rs
  BY <1>2, WildRuleIs
<1>4. Hits(rs) = {x \in DOMAIN rs : HasWildcard(x) /\ Glob(x, name)}
  BY DEF Hits
<1>5. r \in Hits(rs)
  <2>1. Glob(r, name)
    BY <1>2, <1>3, MatchIsGlob
  <2> QED
    BY <1>3, <1>4, <2>1
<1>6. ASSUME NEW q \in Hits(rs) \ {r}
      PROVE  q \in Seq(Chars) /\ q # <<>> /\ MoreSpecific(r, q)
  <2>1. q \in WildRules(rs) /\ Glob(q, name) /\ q # r
    BY <1>4, <1>6 DEF WildRules
  <2>2. q \in Seq(Chars) /\ HasWildcard(q) /\ q # <<>> /\ Compile(q).raw = q
    BY <2>1, WildRuleIs
  <2>3. Match(Compile(q), name)
    BY <2>1, <2>2, MatchIsGlob
  <2>4. PICK i \in DOMAIN w : w[i] = Compile(q)
    BY <1>1, <2>1
  <2>5. ~(i < k) /\ i # k
    BY <1>2, <1>3, <2>1, <2>2, <2>3, <2>4
  <2>6. k < i
    BY <1>1, <2>5
  <2>7. ~Before(Compile(q), Compile(r))
    BY <1>2, <2>4, <2>6 DEF Sorted
  <2> QED
    BY <1>3, <2>1, <2>2, <2>7, SortedMeansSpecific
<1>7. ASSUME NEW x \in Hits(rs), \A q \in Hits(rs) \ {x} : MoreSpecific(x, q)
      PROVE  x = r
  <2> SUFFICES ASSUME x # r PROVE FALSE
    OBVIOUS
  <2>1. MoreSpecific(x, r) /\ x \in Hits(rs) \ {r}
    BY <1>5, <1>7
  <2>2. MoreSpecific(r, x) /\ x \in Seq(Chars) /\ x # <<>>
    BY <1>6, <2>1
  <2> QED
    BY <1>3, <2>1, <2>2, OneIsMoreSpecific
<1>8. BestOf(rs) = r
  <2> DEFINE Best(x) == \A q \in Hits(rs) \ {x} : MoreSpecific(x, q)
             H == Hits(rs)
  <2>1. r \in H /\ Best(r) /\ \A x \in H : Best(x) => x = r
    BY <1>5, <1>6, <1>7
  <2>2. BestOf(rs) = CHOOSE x \in H : Best(x)
    BY DEF BestOf
  <2> HIDE DEF Best, H
  <2>3. (CHOOSE x \in H : Best(x)) = r
    BY <2>1
  <2> QED
    BY <2>2, <2>3
<1> QED
  BY <1>3, <1>5, <1>8

\* A rule for the name itself is its only hit.
LEMMA ExactFound ==
    ASSUME NEW rs, name \in DOMAIN rs, ~HasWildcard(name)
    PROVE  Hits(rs) = {name} /\ BestOf(rs) = name
<1>1. Hits(rs) = {name}
  BY DEF Hits
<1>2. BestOf(rs) = CHOOSE x \in {name} : \A q \in {name} \ {x} : MoreSpecific(x, q)
  BY <1>1 DEF BestOf
<1>3. \A x \in {name} : x = name
  OBVIOUS
<1>4. \A q \in {name} \ {name} : MoreSpecific(name, q)
  OBVIOUS
<1> QED
  BY <1>1, <1>2, <1>3, <1>4

\* What is cut out of a text is one of the same characters.
LEMMA SubSeqWithin ==
    ASSUME NEW S, NEW s \in Seq(S), NEW i \in Int, NEW j \in Int, 1 <= i, j <= Len(s)
    PROVE  SubSeq(s, i, j) \in Seq(S)
<1>1. Len(s) \in Nat /\ \A k \in i .. j : s[k] \in S
  BY LenProperties, ElementOfSeq
<1> QED
  BY <1>1, SubSeqProperties

\* The two sides of a separator.
LEMMA SidesWithin ==
    ASSUME NEW S, NEW s \in Seq(S), NEW c
    PROVE  /\ SubSeq(s, 1, IndexOf(s, c) - 1) \in Seq(S)
           /\ Trim(SubSeq(s, 1, IndexOf(s, c) - 1)) \in Seq(S)
           /\ From(s, IndexOf(s, c) + 1) \in Seq(S)
           /\ Trim(From(s, IndexOf(s, c) + 1)) \in Seq(S)
<1> DEFINE x == IndexOf(s, c)
           y == x - 1
           z == x + 1
<1>1. x \in 0 .. Len(s) /\ z \in Nat /\ z >= 1 /\ Len(s) \in Nat
  BY IndexWithin, LenProperties
<1> HIDE DEF x
<1>2. y \in Int /\ y <= Len(s)
  BY <1>1
<1> HIDE DEF y, z
<1>3. SubSeq(s, 1, y) \in Seq(S)
  BY <1>2, SubSeqWithin
<1>4. From(s, z) \in Seq(S)
  BY <1>1, FromWithin
<1>5. Trim(SubSeq(s, 1, y)) \in Seq(S) /\ Trim(From(s, z)) \in Seq(S)
  BY <1>3, <1>4, TrimShape
<1> QED
  BY <1>3, <1>4, <1>5 DEF x, y, z

\* So are the items of a list, of which there are finitely many.
LEMMA ItemsWithin ==
    ASSUME NEW S, NEW s \in Seq(S), NEW c
    PROVE  /\ IsFiniteSet(DOMAIN Items(s, c))
           /\ \A m \in DOMAIN Items(s, c) : Items(s, c)[m] \in Seq(S)
<1> DEFINE F == Filled(s, c)
           at == Ascending(F)
<1>1. F \in SUBSET (1 .. Len(s)) /\ IsFiniteSet(F) /\ Len(s) \in Nat
  BY FilledWithin, LenProperties
<1>2. F \in SUBSET Nat
  <2>1. \A k \in 1 .. Len(s) : k \in Nat
    BY <1>1
  <2> HIDE DEF F
  <2> QED
    BY <1>1, <2>1
<1>3. at \in Seq(F) /\ Len(at) = Cardinality(F)
  BY <1>1, <1>2, AscendingMembers
<1> DEFINE items == [m \in DOMAIN at |-> Trim(PartAt(s, c, at[m]))]
<1>4. Items(s, c) = items
  BY DEF Items
<1>5. \A k \in F : Trim(PartAt(s, c, k)) \in Seq(S)
  <2> SUFFICES ASSUME NEW k \in F PROVE Trim(PartAt(s, c, k)) \in Seq(S)
    OBVIOUS
  <2>1. k \in Starts(s, c)
    BY DEF Filled
  <2>2. PartAt(s, c, k) \in Seq(S)
    BY <2>1, NextPart
  <2> QED
    BY <2>2, TrimShape
<1> HIDE DEF F
<1>6. DOMAIN at = 1 .. Len(at) /\ Len(at) \in Nat /\ \A m \in DOMAIN at : at[m] \in F
  BY <1>3, LenProperties, ElementOfSeq
<1>7. IsFiniteSet(DOMAIN at)
  <2> HIDE DEF at
  <2> QED
    BY <1>6, FS_Interval
<1> QED
  BY <1>4, <1>5, <1>6, <1>7

\* What is named in front of the equals signs are finitely many texts.
LEMMA MapListIsNamed ==
    ASSUME NEW e, NEW key, e[key] \in Seq(Chars)
    PROVE  Named(EnvMapList(e, key))
<1> DEFINE segs == Items(e[key], ";")
           D == DOMAIN segs
           f == [j \in D |-> Trim(SubSeq(segs[j], 1, IndexOf(segs[j], "=") - 1))]
           F == {f[j] : j \in D}
<1>1. IsFiniteSet(D) /\ \A j \in D : segs[j] \in Seq(Chars)
  BY ItemsWithin
<1>2. \A j \in D : f[j] \in Seq(Chars)
  <2> SUFFICES ASSUME NEW j \in D PROVE f[j] \in Seq(Chars)
    OBVIOUS
  <2> DEFINE seg == segs[j]
  <2>1. seg \in Seq(Chars) /\ f[j] = Trim(SubSeq(seg, 1, IndexOf(seg, "=") - 1))
    BY <1>1
  <2> HIDE DEF seg, f
  <2> QED
    BY <2>1, SidesWithin
<1>3. DOMAIN EnvMapList(e, key) \subseteq F
  BY DEF EnvMapList
<1>4. IsFiniteSet(F)
  <2>1. f \in Surjection(D, F)
    <3>1. f \in [D -> F] /\ \A t \in F : \E j \in D : f[j] = t
      OBVIOUS
    <3> HIDE DEF f, D, F
    <3> QED
      BY <3>1 DEF Surjection
  <2> HIDE DEF f, D, F
  <2> QED
    BY <1>1, <2>1, FS_Surjection
<1>5. F \subseteq Seq(Chars)
  <2> HIDE DEF f, D
  <2> QED
    BY <1>2
<1> HIDE DEF F
<1>6. IsFiniteSet(DOMAIN EnvMapList(e, key))
  BY <1>3, <1>4, FS_Subset
<1> QED
  BY <1>3, <1>5, <1>6 DEF Named

\* The names in front of the colons of X-Model-Map likewise.
LEMMA HeaderIsNamed ==
    ASSUME header \in Seq(Chars)
    PROVE  Named(HeaderRules)
<1> DEFINE D == Filled(header, ";")
           f == [k \in D |-> NameAt(k)]
           F == {f[k] : k \in D}
<1>1. IsFiniteSet(D)
  BY FilledWithin
<1>2. \A k \in D : f[k] \in Seq(Chars)
  <2> SUFFICES ASSUME NEW k \in D PROVE NameAt(k) \in Seq(Chars)
    OBVIOUS
  <2>1. k \in Starts(header, ";")
    BY DEF Filled
  <2>2. PartAt(header, ";", k) \in Seq(Chars)
    BY <2>1, NextPart
  <2>3. SegAt(k) \in Seq(Chars)
    BY <2>2, TrimShape DEF SegAt
  <2> QED
    BY <2>3, SidesWithin DEF NameAt
<1>3. DOMAIN HeaderRules = F
  BY DEF HeaderRules, RulesAt
<1>4. IsFiniteSet(F)
  <2>1. f \in Surjection(D, F)
    <3>1. f \in [D -> F] /\ \A t \in F : \E k \in D : f[k] = t
      OBVIOUS
    <3> HIDE DEF f, D, F
    <3> QED
      BY <3>1 DEF Surjection
  <2> HIDE DEF f, D, F
  <2> QED
    BY <1>1, <2>1, FS_Surjection
<1>5. F \subseteq Seq(Chars)
  <2> HIDE DEF f, D
  <2> QED
    BY <1>2
<1> QED
  BY <1>3, <1>4, <1>5 DEF Named

\* The parts of blanks are blank.
LEMMA AllInPart ==
    ASSUME NEW S, NEW s \in Seq(S), NEW c, NEW d, \A i \in DOMAIN s : s[i] = d,
           NEW k \in Starts(s, c)
    PROVE  \A i \in DOMAIN PartAt(s, c, k) : PartAt(s, c, k)[i] = d
<1> DEFINE part == PartAt(s, c, k)
           l == Len(part)
<1>1. /\ part \in Seq(S) /\ l \in Nat /\ k \in 1 .. Len(s) + 1 /\ k + l \in k .. Len(s) + 1
      /\ \A i \in 1 .. l : part[i] = s[k + i - 1]
  <2>1. part \in Seq(S) /\ Len(part) \in Nat /\ k \in 1 .. Len(s) + 1
    BY PartIs
  <2>2. k + Len(part) \in k .. Len(s) + 1
    BY PartIs
  <2>3. \A i \in 1 .. Len(part) : part[i] = s[k + i - 1]
    BY PartIs
  <2> QED
    BY <2>1, <2>2, <2>3
<1> HIDE DEF part, l
<1>2. ASSUME NEW i \in 1 .. l PROVE part[i] = d
  <2> DEFINE j == k + i - 1
  <2>1. j \in 1 .. Len(s)
    <3>1. Len(s) \in Nat /\ k \in Nat /\ i \in Nat /\ i >= 1 /\ i <= l
      BY <1>1, LenProperties
    <3>2. k + l <= Len(s) + 1 /\ 1 <= k
      BY <1>1
    <3> QED
      BY <1>1, <3>1, <3>2
  <2>2. part[i] = s[j] /\ j \in DOMAIN s
    BY <1>1, <2>1, LenProperties
  <2> HIDE DEF j
  <2> QED
    BY <2>2
<1>3. DOMAIN part = 1 .. l
  BY <1>1, LenProperties DEF l
<1>4. \A i \in DOMAIN part : part[i] = d
  BY <1>2, <1>3
<1> QED
  BY <1>4 DEF part

\* A blank header has no rules.
LEMMA BlankHeader ==
    ASSUME header \in Seq(Chars), Trim(header) = <<>>
    PROVE  Hits(HeaderRules) = {}
<1>1. Solid(header) = {}
  <2> SUFFICES ASSUME Solid(header) # {} PROVE FALSE
    OBVIOUS
  <2> DEFINE x == Min(Solid(header))
             y == Max(Solid(header))
  <2>1. x \in 1 .. Len(header) /\ y \in 1 .. Len(header) /\ x <= y
    BY SolidEnds
  <2>2. Trim(header) = SubSeq(header, x, y)
    BY DEF Trim, Solid
  <2> HIDE DEF x, y
  <2>3. Len(header) \in Nat
    BY LenProperties
  <2>4. Len(SubSeq(header, x, y)) = y - x + 1
    <3>1. x \in Int /\ y \in Int /\ \A i \in x .. y : header[i] \in Chars
      BY <2>1, <2>3, ElementOfSeq
    <3>2. x <= y + 1
      BY <2>1, <2>3
    <3>3. Len(SubSeq(header, x, y)) = IF x <= y THEN y - x + 1 ELSE 0
      BY <3>1, <3>2, SubSeqProperties
    <3> QED
      BY <2>1, <3>3
  <2>5. y - x + 1 # 0
    BY <2>1, <2>3
  <2>6. Len(<<>>) = 0
    OBVIOUS
  <2> QED
    BY <2>2, <2>4, <2>5, <2>6
<1>2. \A i \in DOMAIN header : header[i] = " "
  BY <1>1 DEF Solid
<1>3. \A k \in Starts(header, ";") : Trim(PartAt(header, ";", k)) = <<>>
  <2> SUFFICES ASSUME NEW k \in Starts(header, ";") PROVE Trim(PartAt(header, ";", k)) = <<>>
    OBVIOUS
  <2>1. \A i \in DOMAIN PartAt(header, ";", k) : PartAt(header, ";", k)[i] = " "
    BY <1>2, AllInPart
  <2>2. {i \in DOMAIN PartAt(header, ";", k) : PartAt(header, ";", k)[i] # " "} = {}
    BY <2>1
  <2> QED
    BY <2>2 DEF Trim
<1>4. Filled(header, ";") = {}
  BY <1>3 DEF Filled
<1>5. DOMAIN HeaderRules = {}
  BY <1>4 DEF HeaderRules, RulesAt
<1> QED
  BY <1>5 DEF Hits

\* What the escapes of a text stand for are characters.
LEMMA UnescapeWithin ==
    ASSUME NEW s \in Seq(Chars)
    PROVE  Unescape(s) \in Seq(Chars)
<1> DEFINE Before1(k) == {i \in 1 .. k - 1 : \A j \in i .. k - 1 : s[j] = "\\"}
           escapes == {k \in 1 .. Len(s) - 1 : s[k] = "\\" /\ Cardinality(Before1(k)) % 2 = 0}
           Meant(c) == CASE c = "n" -> "\n" [] c = "t" -> "\t"
                         [] c = "r" -> "\r" [] OTHER -> c
           K == DOMAIN s \ escapes
           kept == Ascending(K)
           N == Len(kept)
           f == [m \in DOMAIN kept |->
                    IF kept[m] - 1 \in escapes THEN Meant(s[kept[m]]) ELSE s[kept[m]]]
<1>1. Unescape(s) = f
  BY DEF Unescape
<1> HIDE DEF escapes
<1>2. K \in SUBSET Nat /\ IsFiniteSet(K) /\ K \in SUBSET DOMAIN s
  <2>1. K \in SUBSET DOMAIN s /\ DOMAIN s = 1 .. Len(s) /\ Len(s) \in Nat
    BY LenProperties
  <2> HIDE DEF K
  <2>2. IsFiniteSet(K)
    <3>1. K \in SUBSET (1 .. Len(s)) /\ IsFiniteSet(1 .. Len(s))
      BY <2>1, FS_Interval
    <3> QED
      BY <3>1, FS_Subset
  <2>3. K \in SUBSET Nat
    BY <2>1
  <2> QED
    BY <2>1, <2>2, <2>3
<1> HIDE DEF K
<1>3. kept \in Seq(K)
  BY <1>2, AscendingMembers
<1> HIDE DEF kept
<1>4. N \in Nat /\ DOMAIN kept = 1 .. N /\ \A m \in 1 .. N : kept[m] \in K
  BY <1>3, LenProperties, ElementOfSeq
<1>5. \A k \in K : s[k] \in Chars
  BY <1>2, LenProperties, ElementOfSeq
<1>6. \A c \in Chars : Meant(c) \in Chars
  BY EscapeAssumption
<1> HIDE DEF Meant
<1>7. f \in [1 .. N -> Chars]
  BY <1>4, <1>5, <1>6
<1> HIDE DEF f, N
<1> QED
  BY <1>1, <1>4, <1>7, FunctionIsSeq

\* What a line assigns is a text.
LEMMA ValueWithin ==
    ASSUME NEW v \in Seq(Chars)
    PROVE  Value(v) \in Seq(Chars)
<1> DEFINE hash == {k \in 1 .. Len(v) - 1 : v[k] = " " /\ v[k + 1] = "#"}
           inner == SubSeq(v, 2, Len(v) - 1)
           plain == Trim(SubSeq(v, 1, Min(hash) - 1))
<1>1. Value(v) \in {Unescape(inner), inner, v}
      \/ (hash # {} /\ Value(v) = plain)
  BY DEF Value
<1>2. Len(v) \in Nat
  BY LenProperties
<1>3. inner \in Seq(Chars)
  <2> DEFINE y == Len(v) - 1
  <2>1. y \in Int /\ y <= Len(v) /\ 2 \in Int /\ 1 <= 2
    BY <1>2
  <2> HIDE DEF y
  <2>2. SubSeq(v, 2, y) \in Seq(Chars)
    BY <2>1, SubSeqWithin
  <2> QED
    BY <2>2 DEF y
<1>4. ASSUME hash # {} PROVE plain \in Seq(Chars)
  <2> DEFINE x == Min(hash)
             y == x - 1
  <2>0. hash \in SUBSET Nat /\ \A k \in hash : k <= Len(v)
    <3>1. hash \subseteq 1 .. Len(v) - 1
      OBVIOUS
    <3> HIDE DEF hash
    <3> DEFINE z == Len(v)
    <3>2. hash \subseteq 1 .. z - 1 /\ z \in Nat
      BY <1>2, <3>1
    <3> HIDE DEF z
    <3>3. \A k \in 1 .. z - 1 : k \in Nat /\ k <= z
      BY <3>2
    <3> QED
      BY <3>2, <3>3 DEF z
  <2> HIDE DEF hash
  <2>1. x \in hash
    BY <1>4, <2>0, LeastNumber
  <2> HIDE DEF x
  <2>2. y \in Int /\ y <= Len(v) /\ 1 \in Int
    BY <1>2, <2>0, <2>1
  <2> HIDE DEF y
  <2>3. SubSeq(v, 1, y) \in Seq(Chars)
    BY <2>2, SubSeqWithin
  <2>4. Trim(SubSeq(v, 1, y)) \in Seq(Chars)
    BY <2>3, TrimShape
  <2> QED
    BY <2>4 DEF x, y
<1>5. Unescape(inner) \in Seq(Chars)
  BY <1>3, UnescapeWithin
<1> HIDE DEF hash, inner, plain
<1> QED
  BY <1>1, <1>3, <1>4, <1>5

\* The value a line of .env assigns is of characters.
LEMMA ParseLineWithin ==
    ASSUME NEW l \in Seq(Chars)
    PROVE  \A a \in ParseLine(l) : a.val \in Seq(Chars)
<1> DEFINE s == Trim(l)
           body == IF IsPrefix(<<"export", " ">>, s) THEN From(s, 3) ELSE s
           val == Value(Trim(From(body, IndexOf(body, "=") + 1)))
<1>1. \A a \in ParseLine(l) : a.val = val
  <2> DEFINE key == Trim(SubSeq(body, 1, IndexOf(body, "=") - 1))
  <2>1. ParseLine(l) \subseteq {[key |-> key, val |-> val]}
    BY DEF ParseLine
  <2> HIDE DEF val, key
  <2> QED
    BY <2>1
<1>2. s \in Seq(Chars)
  BY TrimShape
<1> HIDE DEF s
<1>3. body \in Seq(Chars)
  <2>1. From(s, 3) \in Seq(Chars)
    <3>1. 3 \in Nat /\ 3 >= 1
      OBVIOUS
    <3> QED
      BY <1>2, <3>1, FromWithin
  <2> QED
    BY <1>2, <2>1
<1> HIDE DEF body
<1>4. Trim(From(body, IndexOf(body, "=") + 1)) \in Seq(Chars)
  BY <1>3, SidesWithin
<1>5. val \in Seq(Chars)
  BY <1>4, ValueWithin
<1> QED
  BY <1>1, <1>5

\* What the look-up has found out: which table is asked and that the other one has
\* nothing, that the wildcards are sorted, and that none of those tried matches.
LookInv ==
    /\ \A k \in Keys : env[k] \in Seq(Chars)
    /\ epc = "ready" => Named(config.models)
    /\ pc # "wait" => Named(static.rules)
    /\ pc \notin {"wait", "parse"} =>
          \/ table = "header" /\ Trim(header) # <<>>
          \/ table = "static" /\ rules = static.rules /\ Hits(HeaderRules) = {}
    /\ pc \in {"wait", "parse", "build", "exact"} => n = 1
    /\ pc \in {"exact", "wild"} => Sorted(wild, rules)
    /\ pc = "wild" => /\ ~(name \in DOMAIN rules /\ ~HasWildcard(name))
                      /\ n \in Nat \ {0} /\ \A m \in DOMAIN wild : m < n => ~Match(wild[m], name)
    /\ MostSpecificWins

\* The rules for a name do not change while the name does not.
LEMMA HitsStay ==
    ASSUME UNCHANGED name
    PROVE  \A rs : Hits(rs)' = Hits(rs) /\ BestOf(rs)' = BestOf(rs)
<1>1. \A rs : Hits(rs)' = Hits(rs)
  BY DEF Hits
<1> QED
  BY <1>1 DEF BestOf

\* What MostSpecificWins says, table by table.
Decides(rs) ==
    /\ answer = rs[BestOf(rs)]
    /\ kind = IF HasWildcard(BestOf(rs)) THEN "wildcard" ELSE "exact"
NoRuleDecides == /\ answer = static.fallback
                 /\ kind = IF answer = <<>> THEN "none" ELSE "fallback"

\* MostSpecificWins asks one table after the other.
LEMMA WinsMeans ==
    MostSpecificWins <=>
        (pc = "done" =>
            IF Hits(HeaderRules) # {} THEN Decides(HeaderRules)
            ELSE IF Hits(static.rules) # {} THEN Decides(static.rules) ELSE NoRuleDecides)
<1>1. CASE Hits(HeaderRules) # {}
  BY <1>1 DEF MostSpecificWins, Decides, NoRuleDecides
<1>2. CASE Hits(HeaderRules) = {}
  BY <1>2 DEF MostSpecificWins, Decides, NoRuleDecides
<1> QED
  BY <1>1, <1>2

\* The same about the next state, of which the header and the name are those of this one.
LEMMA WinsNext ==
    ASSUME UNCHANGED <<header, name>>,
           pc' = "done" =>
              IF Hits(HeaderRules) # {} THEN Decides(HeaderRules)'
              ELSE IF Hits(static'.rules) # {} THEN Decides(static.rules)' ELSE NoRuleDecides'
    PROVE  MostSpecificWins'
<1>1. HeaderRules' = HeaderRules
  BY HeaderStays
<1>2. \A rs : Hits(rs)' = Hits(rs)
  BY HitsStay
<1>3. Hits(HeaderRules)' = Hits(HeaderRules) /\ Hits(static.rules)' = Hits(static'.rules)
  BY <1>1, <1>2
<1>4. (MostSpecificWins <=>
        (pc = "done" =>
            IF Hits(HeaderRules) # {} THEN Decides(HeaderRules)
            ELSE IF Hits(static.rules) # {} THEN Decides(static.rules) ELSE NoRuleDecides))'
  BY WinsMeans, PTL
<1> QED
  BY <1>3, <1>4

\* What does not touch the look-up keeps LookInv.
LEMMA LookStays ==
    ASSUME LookInv, UNCHANGED <<env, epc, config, mapvars>>
    PROVE  LookInv'
<1>1. HeaderRules' = HeaderRules
  BY HeaderStays DEF mapvars, given
<1>2. \A rs : Hits(rs)' = Hits(rs) /\ BestOf(rs)' = BestOf(rs)
  BY HitsStay DEF mapvars, given
<1>3. UNCHANGED <<header, name, static, pc, table, rules, wild, n, kind, answer>>
  BY DEF mapvars, given
<1>4. Hits(HeaderRules)' = Hits(HeaderRules)
  BY <1>1, <1>2
<1>5. MostSpecificWins'
  <2>1. pc = "done" =>
            IF Hits(HeaderRules) # {} THEN Decides(HeaderRules)
            ELSE IF Hits(static.rules) # {} THEN Decides(static.rules) ELSE NoRuleDecides
    BY WinsMeans DEF LookInv
  <2>2. Decides(HeaderRules)' <=> Decides(HeaderRules)
    BY <1>1, <1>2, <1>3 DEF Decides
  <2>3. Decides(static.rules)' <=> Decides(static.rules)
    BY <1>2, <1>3 DEF Decides
  <2>4. NoRuleDecides' <=> NoRuleDecides
    BY <1>3 DEF NoRuleDecides
  <2> QED
    BY <1>3, <2>1, <2>2, <2>3, <2>4, WinsNext
<1> QED
  BY <1>3, <1>4, <1>5 DEF LookInv

\* LoadDotEnv and Load keep the texts, and the names of the configuration are such.
LEMMA TextsStay ==
    ASSUME Given, EnvInv, LookInv, EnvNext
    PROVE  /\ \A k \in Keys : env'[k] \in Seq(Chars)
           /\ epc' = "ready" => Named(config'.models)
<1>0. \A k \in Keys : env[k] \in Seq(Chars)
  BY DEF LookInv
<1>1. CASE LoadLine
  <2>1. /\ epc = "lines" /\ ln <= Len(file) /\ epc' = epc
        /\ env' = [k \in Keys |->
                 IF env[k] = <<>> /\ \E a \in ParseLine(file[ln]) : a.key = <<k>>
                 THEN (CHOOSE a \in ParseLine(file[ln]) : TRUE).val
                 ELSE env[k]]
    BY <1>1 DEF LoadLine
  <2>2. file \in Seq(Seq(Chars)) /\ Len(file) \in Nat /\ ln \in 1 .. Len(file) + 1
    BY LenProperties DEF Given, EnvInv
  <2>3. ln \in 1 .. Len(file)
    BY <2>1, <2>2
  <2>4. file[ln] \in Seq(Chars)
    BY <2>2, <2>3, ElementOfSeq
  <2>5. \A a \in ParseLine(file[ln]) : a.val \in Seq(Chars)
    BY <2>4, ParseLineWithin
  <2>6. ASSUME NEW k \in Keys, \E a \in ParseLine(file[ln]) : a.key = <<k>>
        PROVE  (CHOOSE a \in ParseLine(file[ln]) : TRUE).val \in Seq(Chars)
    <3>1. (CHOOSE a \in ParseLine(file[ln]) : TRUE) \in ParseLine(file[ln])
      BY <2>6
    <3> QED
      BY <2>5, <3>1
  <2>7. \A k \in Keys : env'[k] \in Seq(Chars)
    BY <1>0, <2>1, <2>6
  <2> QED
    BY <2>1, <2>7
<1>2. CASE BadLine
  BY <1>0, <1>2 DEF BadLine
<1>3. CASE Load
  <2>1. config' = ConfigOf(env) /\ env' = env
    BY <1>3 DEF Load
  <2>2. config'.models = EnvMapList(env, "MODEL_MAP")
    BY <2>1 DEF ConfigOf
  <2>3. "MODEL_MAP" \in Keys
    BY DEF Keys
  <2>4. env["MODEL_MAP"] \in Seq(Chars)
    BY <1>0, <2>3
  <2>5. Named(EnvMapList(env, "MODEL_MAP"))
    BY <2>4, MapListIsNamed
  <2> QED
    BY <1>0, <2>1, <2>2, <2>5
<1> QED
  BY <1>1, <1>2, <1>3 DEF EnvNext

\* The rules that are looked up are those of one of the two tables.
LEMMA TableIsNamed ==
    ASSUME header \in Seq(Chars), MapInv, LookInv, pc \in {"build", "exact", "wild"},
           invalid = <<>>
    PROVE  /\ Named(rules)
           /\ table = "header" => rules = HeaderRules
           /\ table # "header" => table = "static" /\ rules = static.rules /\ Hits(HeaderRules) = {}
<1>1. \/ table = "header" /\ Trim(header) # <<>>
      \/ table = "static" /\ rules = static.rules /\ Hits(HeaderRules) = {}
  BY DEF LookInv
<1>2. table = "header" => rules = HeaderRules
  BY <1>1 DEF MapInv, HeaderFits
<1>3. Named(static.rules)
  BY DEF LookInv
<1> QED
  BY <1>1, <1>2, <1>3, HeaderIsNamed

\* The answer the table at hand gives is the one that counts.
LEMMA TableDecides ==
    ASSUME header \in Seq(Chars), MapInv, LookInv, pc \in {"exact", "wild"},
           UNCHANGED <<header, name, static>>, Hits(rules) # {},
           answer' = rules[BestOf(rules)],
           kind' = IF HasWildcard(BestOf(rules)) THEN "wildcard" ELSE "exact"
    PROVE  MostSpecificWins'
<1>1. invalid = <<>>
  BY DEF MapInv
<1>2. /\ table = "header" => rules = HeaderRules
      /\ table # "header" => rules = static.rules /\ Hits(HeaderRules) = {}
  BY <1>1, TableIsNamed
<1>3. \A rs : Decides(rs)' <=> /\ answer' = rs[BestOf(rs)]
                              /\ kind' = IF HasWildcard(BestOf(rs)) THEN "wildcard" ELSE "exact"
  BY HitsStay DEF Decides
<1>4. HeaderRules' = HeaderRules
  BY HeaderStays
<1>5. Decides(HeaderRules)' <=> /\ answer' = HeaderRules[BestOf(HeaderRules)]
                                /\ kind' = IF HasWildcard(BestOf(HeaderRules)) THEN "wildcard"
                                           ELSE "exact"
  BY <1>3, <1>4
<1>6. Decides(static.rules)' <=> /\ answer' = static.rules[BestOf(static.rules)]
                                 /\ kind' = IF HasWildcard(BestOf(static.rules)) THEN "wildcard"
                                            ELSE "exact"
  BY <1>3
<1>7. CASE table = "header"
  BY <1>2, <1>5, <1>7, WinsNext
<1>8. CASE table # "header"
  BY <1>2, <1>6, <1>8, WinsNext
<1> QED
  BY <1>7, <1>8

\* Nothing in the table at hand matches any more.
LEMMA NothingLeft ==
    ASSUME Given, MapInv, LookInv, pc = "wild", n > Len(wild)
    PROVE  Hits(rules) = {}
<1>1. invalid = <<>> /\ header \in Seq(Chars) /\ name \in Seq(Chars)
  BY DEF MapInv, Given
<1>2. Named(rules)
  BY <1>1, TableIsNamed
<1>3. /\ Sorted(wild, rules) /\ ~(name \in DOMAIN rules /\ ~HasWildcard(name)) /\ n \in Nat
      /\ \A m \in DOMAIN wild : m < n => ~Match(wild[m], name)
  BY DEF LookInv
<1>4. Len(wild) \in Nat /\ DOMAIN wild = 1 .. Len(wild)
  BY <1>2, <1>3, SortedIs
<1>5. \A m \in DOMAIN wild : m < n
  <2> DEFINE l == Len(wild)
             k == n
  <2>1. l \in Nat /\ k \in Nat /\ k > l /\ DOMAIN wild = 1 .. l
    BY <1>3, <1>4
  <2> HIDE DEF l, k
  <2>2. \A m \in 1 .. l : m < k
    BY <2>1
  <2> QED
    BY <2>1, <2>2 DEF k
<1> QED
  BY <1>1, <1>2, <1>3, <1>5, WildMissed

\* A step of the look-up keeps LookInv.
LEMMA LookMapStep ==
    ASSUME Given, MapInv, LookInv, MapNext, UNCHANGED envvars
    PROVE  LookInv'
<1>0. header \in Seq(Chars) /\ name \in Seq(Chars)
  BY DEF Given
<1>g. UNCHANGED <<env, epc, config, header, name, static>>
  BY DEF MapNext, NoHeader, ParseSegment, EndParse, Build, LookupExact, NotExact, LookupWild,
         LookupFallback, HeaderMiss, UseStatic, Answer, given, envvars
<1>p. pc # "wait"
  BY DEF MapNext, NoHeader, ParseSegment, EndParse, Build, LookupExact, NotExact, LookupWild,
         LookupFallback, HeaderMiss
<1>h. HeaderRules' = HeaderRules /\ Hits(HeaderRules)' = Hits(HeaderRules)
  <2>1. HeaderRules' = HeaderRules
    BY <1>g, HeaderStays
  <2> QED
    BY <1>g, <2>1, HitsStay
\* What holds wherever the look-up is.
<1>c. /\ \A k \in Keys : env'[k] \in Seq(Chars)
      /\ epc' = "ready" => Named(config'.models)
      /\ Named(static'.rules)
  BY <1>g, <1>p DEF LookInv
\* A step that leaves the table behind it.
<1>t. ASSUME pc \notin {"wait", "parse"}, table' = table, rules' = rules
      PROVE  \/ table' = "header" /\ Trim(header') # <<>>
             \/ table' = "static" /\ rules' = static'.rules /\ Hits(HeaderRules)' = {}
  BY <1>g, <1>h, <1>t DEF LookInv
<1>n. ASSUME pc' # "done" PROVE MostSpecificWins'
  BY <1>n DEF MostSpecificWins
<1>1. CASE NoHeader
  <2>1. /\ pc' = "build" /\ table' = "static" /\ rules' = static.rules /\ n' = 1
        /\ Trim(header) = <<>>
    BY <1>1 DEF NoHeader, UseStatic
  <2>2. Hits(HeaderRules) = {}
    BY <1>0, <2>1, BlankHeader
  <2> QED
    BY <1>c, <1>g, <1>h, <1>n, <2>1, <2>2 DEF LookInv
<1>2. CASE ParseSegment
  <2>1. pc = "parse" /\ pc' = "parse" /\ n' = n
    BY <1>2 DEF ParseSegment
  <2>2. n' = 1
    BY <2>1 DEF LookInv
  <2> QED
    BY <1>c, <1>n, <2>1, <2>2 DEF LookInv
<1>3. CASE EndParse
  <2>1. pc = "parse" /\ pc' = "build" /\ table' = table /\ n' = n /\ Trim(header) # <<>>
    BY <1>3 DEF EndParse
  <2>2. n' = 1 /\ table = "header"
    BY <2>1 DEF LookInv, MapInv
  <2>3. table' = "header" /\ Trim(header') # <<>>
    BY <1>g, <2>1, <2>2
  <2> QED
    BY <1>c, <1>n, <2>1, <2>2, <2>3 DEF LookInv
<1>4. CASE Build
  <2>1. /\ pc = "build" /\ pc' \in {"exact", "refused"} /\ table' = table /\ rules' = rules
        /\ n' = n
    BY <1>4 DEF Build
  <2>2. Sorted(wild', rules)
    BY <1>4 DEF Build, Sorted, Compiled, WildRules
  <2>3. n' = 1
    BY <2>1 DEF LookInv
  <2>4. \/ table' = "header" /\ Trim(header') # <<>>
        \/ table' = "static" /\ rules' = static'.rules /\ Hits(HeaderRules)' = {}
    BY <1>t, <2>1
  <2> QED
    BY <1>c, <1>n, <2>1, <2>2, <2>3, <2>4 DEF LookInv
<1>5. CASE LookupExact
  <2>1. /\ pc = "exact" /\ pc' = "done" /\ table' = table /\ rules' = rules
        /\ name \in DOMAIN rules /\ ~HasWildcard(name)
        /\ kind' = "exact" /\ answer' = rules[name]
    BY <1>5 DEF LookupExact, Answer
  <2>2. Hits(rules) = {name} /\ BestOf(rules) = name
    BY <2>1, ExactFound
  <2>3. MostSpecificWins'
    BY <1>0, <1>g, <2>1, <2>2, TableDecides
  <2>4. \/ table' = "header" /\ Trim(header') # <<>>
        \/ table' = "static" /\ rules' = static'.rules /\ Hits(HeaderRules)' = {}
    BY <1>t, <2>1
  <2> QED
    BY <1>c, <2>1, <2>3, <2>4 DEF LookInv
<1>6. CASE NotExact
  <2>1. /\ pc = "exact" /\ pc' = "wild" /\ table' = table /\ rules' = rules /\ wild' = wild
        /\ n' = n /\ (name \notin DOMAIN rules \/ HasWildcard(name))
    BY <1>6 DEF NotExact
  <2>2. Sorted(wild, rules) /\ n = 1 /\ invalid = <<>>
    BY <2>1 DEF LookInv, MapInv
  <2>3. Named(rules)
    BY <1>0, <2>1, <2>2, TableIsNamed
  <2>4. Len(wild) \in Nat /\ DOMAIN wild = 1 .. Len(wild)
    BY <2>2, <2>3, SortedIs
  <2>5. \A m \in DOMAIN wild : ~(m < 1)
    <3> DEFINE l == Len(wild)
    <3>1. l \in Nat /\ DOMAIN wild = 1 .. l
      BY <2>4
    <3> HIDE DEF l
    <3>2. \A m \in 1 .. l : ~(m < 1)
      BY <3>1
    <3> QED
      BY <3>1, <3>2
  <2>6. \/ table' = "header" /\ Trim(header') # <<>>
        \/ table' = "static" /\ rules' = static'.rules /\ Hits(HeaderRules)' = {}
    BY <1>t, <2>1
  <2>7. n' \in Nat \ {0} /\ \A m \in DOMAIN wild' : m < n' => ~Match(wild'[m], name')
    BY <2>1, <2>2, <2>5
  <2>8. ~(name' \in DOMAIN rules' /\ ~HasWildcard(name'))
    BY <1>g, <2>1
  <2> QED
    BY <1>c, <1>n, <2>1, <2>2, <2>6, <2>7, <2>8 DEF LookInv
<1>7. CASE LookupWild
  <2>1. /\ pc = "wild" /\ n <= Len(wild) /\ table' = table /\ rules' = rules /\ wild' = wild
        /\ IF Match(wild[n], name)
           THEN pc' = "done" /\ kind' = "wildcard" /\ answer' = rules[wild[n].raw]
           ELSE pc' = "wild" /\ n' = n + 1
    BY <1>7 DEF LookupWild, Answer
  <2>2. /\ Sorted(wild, rules) /\ ~(name \in DOMAIN rules /\ ~HasWildcard(name))
        /\ n \in Nat \ {0} /\ invalid = <<>>
        /\ \A m \in DOMAIN wild : m < n => ~Match(wild[m], name)
    BY <2>1 DEF LookInv, MapInv
  <2>3. Named(rules)
    BY <1>0, <2>1, <2>2, TableIsNamed
  <2>4. Len(wild) \in Nat /\ DOMAIN wild = 1 .. Len(wild)
    BY <2>2, <2>3, SortedIs
  <2>5. n \in DOMAIN wild
    <3> DEFINE l == Len(wild)
               k == n
    <3>1. l \in Nat /\ k \in Nat /\ k # 0 /\ k <= l /\ DOMAIN wild = 1 .. l
      BY <2>1, <2>2, <2>4
    <3> HIDE DEF l, k
    <3>2. k \in 1 .. l
      BY <3>1
    <3> QED
      BY <3>1, <3>2 DEF k
  <2>6. \/ table' = "header" /\ Trim(header') # <<>>
        \/ table' = "static" /\ rules' = static'.rules /\ Hits(HeaderRules)' = {}
    BY <1>t, <2>1
  <2>7. CASE Match(wild[n], name)
    <3>1. Hits(rules) # {} /\ BestOf(rules) = wild[n].raw /\ HasWildcard(wild[n].raw)
      BY <1>0, <2>2, <2>3, <2>5, <2>7, WildFound
    <3>2. answer' = rules[BestOf(rules)] /\ kind' = "wildcard"
      BY <2>1, <2>7, <3>1
    <3>3. MostSpecificWins'
      BY <1>0, <1>g, <2>1, <3>1, <3>2, TableDecides
    <3> QED
      BY <1>c, <2>1, <2>6, <2>7, <3>3 DEF LookInv
  <2>8. CASE ~Match(wild[n], name)
    <3>1. n' \in Nat \ {0} /\ \A m \in DOMAIN wild : m < n' => m < n \/ m = n
      <4> DEFINE k == n
                 l == Len(wild)
      <4>1. n' = k + 1 /\ k \in Nat /\ DOMAIN wild = 1 .. l /\ l \in Nat
        BY <2>1, <2>2, <2>4, <2>8
      <4> HIDE DEF k, l
      <4>2. k + 1 \in Nat \ {0} /\ \A m \in 1 .. l : m < k + 1 => m < k \/ m = k
        BY <4>1
      <4> QED
        BY <4>1, <4>2 DEF k
    <3>2. \A m \in DOMAIN wild' : m < n' => ~Match(wild'[m], name')
      BY <1>g, <2>1, <2>2, <2>8, <3>1
    <3>3. ~(name' \in DOMAIN rules' /\ ~HasWildcard(name'))
      BY <1>g, <2>1, <2>2
    <3> QED
      BY <1>c, <1>n, <2>1, <2>2, <2>6, <2>8, <3>1, <3>2, <3>3 DEF LookInv
  <2> QED
    BY <2>7, <2>8
<1>8. CASE LookupFallback
  <2>1. /\ pc = "wild" /\ pc' = "done" /\ n > Len(wild) /\ table = "static"
        /\ table' = table /\ rules' = rules
        /\ IF static.fallback = <<>> THEN kind' = "none" /\ answer' = <<>>
           ELSE kind' = "fallback" /\ answer' = static.fallback
    BY <1>8 DEF LookupFallback, Answer
  <2>2. Hits(rules) = {}
    BY <2>1, NothingLeft
  <2>3. invalid = <<>>
    BY <2>1 DEF MapInv
  <2>4. rules = static.rules /\ Hits(HeaderRules) = {}
    BY <1>0, <2>1, <2>3, TableIsNamed
  <2>5. answer' = static'.fallback /\ kind' = IF answer' = <<>> THEN "none" ELSE "fallback"
    BY <1>g, <2>1
  <2>6. NoRuleDecides'
    BY <2>5 DEF NoRuleDecides
  <2>7. Hits(static'.rules) = {}
    BY <1>g, <2>2, <2>4
  <2>8. MostSpecificWins'
    BY <1>g, <2>4, <2>6, <2>7, WinsNext
  <2>9. \/ table' = "header" /\ Trim(header') # <<>>
        \/ table' = "static" /\ rules' = static'.rules /\ Hits(HeaderRules)' = {}
    BY <1>t, <2>1
  <2> QED
    BY <1>c, <2>1, <2>8, <2>9 DEF LookInv
<1>9. CASE HeaderMiss
  <2>1. /\ pc = "wild" /\ pc' = "build" /\ n > Len(wild) /\ table = "header"
        /\ table' = "static" /\ rules' = static.rules /\ n' = 1
    BY <1>9 DEF HeaderMiss, UseStatic
  <2>2. Hits(rules) = {}
    BY <2>1, NothingLeft
  <2>3. invalid = <<>>
    BY <2>1 DEF MapInv
  <2>4. rules = HeaderRules
    BY <1>0, <2>1, <2>3, TableIsNamed
  <2>5. Hits(HeaderRules)' = {}
    BY <1>h, <2>2, <2>4
  <2>6. rules' = static'.rules
    BY <1>g, <2>1
  <2> QED
    BY <1>c, <1>n, <2>1, <2>5, <2>6 DEF LookInv
<1> QED
  BY <1>1, <1>2, <1>3, <1>4, <1>5, <1>6, <1>7, <1>8, <1>9 DEF MapNext

\* LookInv holds where the request begins.
LEMMA LookBegins ==
    ASSUME OutBegin
    PROVE  LookInv
<1>1. PICK s : OutInit(s)
  BY DEF OutBegin
<1>2. environ \in [Keys -> Seq(Chars)]
  BY DEF OutBegin, Given
<1>3. env = environ /\ epc = "lines" /\ pc = "wait" /\ n = 1
  BY <1>1 DEF OutInit, EnvInit, MapInit
<1> QED
  BY <1>2, <1>3 DEF LookInv, MostSpecificWins

\* A step of the request, whatever it is, keeps LookInv.
LEMMA LookStep ==
    ASSUME OutInv, LookInv, [OutNext]_outvars
    PROVE  LookInv'
<1>0. Given /\ EnvInv /\ MapInv /\ RouteInv
  BY DEF OutInv
<1>1. CASE Configure
  <2>1. EnvNext /\ UNCHANGED mapvars /\ opc = "load"
    BY <1>1 DEF Configure
  <2>2. pc' = "wait" /\ n' = 1
    BY <1>0, <2>1 DEF RouteInv, LookInv, mapvars, given
  <2>3. /\ \A k \in Keys : env'[k] \in Seq(Chars)
        /\ epc' = "ready" => Named(config'.models)
    BY <1>0, <2>1, TextsStay
  <2> QED
    BY <2>2, <2>3 DEF LookInv, MostSpecificWins
<1>2. CASE Arrive
  <2>1. /\ opc = "arrive" /\ UNCHANGED envvars /\ n' = n
        /\ static' = [rules |-> config.models, fallback |-> config.fallback]
        /\ pc' = pc \/ pc' = "parse"
    BY <1>2 DEF Arrive
  <2>2. pc = "wait" /\ epc = "ready"
    BY <1>0, <2>1 DEF RouteInv
  <2>3. n' = 1 /\ Named(static'.rules)
    BY <2>1, <2>2 DEF LookInv
  <2>4. /\ \A k \in Keys : env'[k] \in Seq(Chars)
        /\ epc' = "ready" => Named(config'.models)
    BY <2>1 DEF LookInv, envvars
  <2> QED
    BY <2>1, <2>2, <2>3, <2>4 DEF LookInv, MostSpecificWins
<1>3. CASE MapModel
  <2>1. MapNext /\ UNCHANGED envvars
    BY <1>3 DEF MapModel
  <2> QED
    BY <1>0, <2>1, LookMapStep
<1>4. CASE Pick \/ FindCapabilities \/ RouteFiles \/ SendRequest \/ ReplyToClient \/ UNCHANGED outvars
  <2>1. UNCHANGED envvars /\ UNCHANGED mapvars
    BY <1>4 DEF Pick, FindCapabilities, RouteFiles, SendRequest, ReplyToClient, outvars
  <2>2. UNCHANGED <<env, epc, config>>
    BY <2>1 DEF envvars
  <2> QED
    BY <2>1, <2>2, LookStays
<1> QED
  BY <1>1, <1>2, <1>3, <1>4 DEF OutNext

\* What the look-up knows of the tables where it is, whatever it will answer.
THEOREM LookInvHolds == OutSpec => []LookInv
<1>1. OutBegin => LookInv
  BY LookBegins
<1>2. OutInv /\ LookInv /\ [OutNext]_outvars => LookInv'
  BY LookStep
<1> QED
  BY <1>1, <1>2, OutInvHolds, PTL DEF OutSpec

\* A model is mapped by the header's rules, else by the configuration's, and of each
\* by the exact rule, else by the most specific of the wildcards that match, in
\* whatever order they come out of the map: which pattern.match says they do and
\* patternWeight and the tie-break say is first (mapping.go:244-317,
\* pattern.go:33-133, gateway.go:436-437).
THEOREM MostSpecificAnswers == OutSpec => []MostSpecificWins
<1>1. LookInv => MostSpecificWins
  BY DEF LookInv
<1> QED
  BY <1>1, LookInvHolds, PTL

----------------------------------------------------------------------------
(* Addresses: what is in front of the first slash, and the rest            *)

\* A character is found at its first place, or it is not there.
LEMMA IndexFirst ==
    ASSUME NEW S, NEW s \in Seq(S), NEW c
    PROVE  /\ IndexOf(s, c) = 0 => \A j \in 1 .. Len(s) : s[j] # c
           /\ IndexOf(s, c) # 0 => /\ IndexOf(s, c) \in 1 .. Len(s) /\ s[IndexOf(s, c)] = c
                                   /\ \A j \in 1 .. IndexOf(s, c) - 1 : s[j] # c
<1> DEFINE T == {k \in DOMAIN s : s[k] = c}
<1>1. Len(s) \in Nat /\ DOMAIN s = 1 .. Len(s)
  BY LenProperties
<1>2. T \in SUBSET Nat /\ \A j : j \in T <=> j \in 1 .. Len(s) /\ s[j] = c
  BY <1>1
<1>3. CASE T = {}
  <2>1. IndexOf(s, c) = 0
    BY <1>3 DEF IndexOf
  <2> QED
    BY <1>2, <1>3, <2>1
<1>4. CASE T # {}
  <2>1. IndexOf(s, c) = Min(T)
    BY <1>4 DEF IndexOf
  <2> HIDE DEF T
  <2>2. Min(T) \in T /\ \A y \in T : Min(T) <= y
    BY <1>2, <1>4, LeastNumber
  <2> DEFINE m == Min(T)
  <2>3. m \in 1 .. Len(s) /\ s[m] = c
    BY <1>2, <2>2
  <2>4. \A j \in 1 .. m - 1 : s[j] # c
    <3> SUFFICES ASSUME NEW j \in 1 .. m - 1, s[j] = c PROVE FALSE
      OBVIOUS
    <3>0. \A y \in T : m <= y
      BY <2>2
    <3> HIDE DEF m
    <3>1. j \in 1 .. Len(s) /\ ~(m <= j)
      BY <1>1, <2>3
    <3>2. j \in T
      BY <1>2, <3>1
    <3> QED
      BY <3>0, <3>1, <3>2
  <2>5. m # 0
    BY <1>1, <2>3
  <2> QED
    BY <2>1, <2>3, <2>4, <2>5
<1> QED
  BY <1>3, <1>4

\* There is one such place.
LEMMA IndexIs ==
    ASSUME NEW S, NEW s \in Seq(S), NEW c, NEW k \in 1 .. Len(s), s[k] = c,
           \A j \in 1 .. k - 1 : s[j] # c
    PROVE  IndexOf(s, c) = k
<1> DEFINE x == IndexOf(s, c)
<1>1. /\ x = 0 => \A j \in 1 .. Len(s) : s[j] # c
      /\ x # 0 => x \in 1 .. Len(s) /\ s[x] = c /\ \A j \in 1 .. x - 1 : s[j] # c
  BY IndexFirst
<1> HIDE DEF x
<1>2. x \in 1 .. Len(s) /\ s[x] = c /\ \A j \in 1 .. x - 1 : s[j] # c
  BY <1>1
<1>3. Len(s) \in Nat
  BY LenProperties
<1>4. ~(x < k)
  <2> SUFFICES ASSUME x < k PROVE FALSE
    OBVIOUS
  <2>1. x \in 1 .. k - 1
    BY <1>2, <1>3
  <2> QED
    BY <1>2, <2>1
<1>5. ~(k < x)
  <2> SUFFICES ASSUME k < x PROVE FALSE
    OBVIOUS
  <2>1. k \in 1 .. x - 1
    BY <1>2, <1>3
  <2> QED
    BY <1>2, <2>1
<1>6. x = k
  BY <1>2, <1>3, <1>4, <1>5
<1> QED
  BY <1>6 DEF x

LEMMA IndexNone ==
    ASSUME NEW S, NEW s \in Seq(S), NEW c, \A j \in 1 .. Len(s) : s[j] # c
    PROVE  IndexOf(s, c) = 0
BY IndexFirst

\* A text in two halves: what is in front of the first c, and what begins with it.
Front1(s, c) == IF IndexOf(s, c) = 0 THEN s ELSE SubSeq(s, 1, IndexOf(s, c) - 1)
Back1(s, c) == IF IndexOf(s, c) = 0 THEN <<>> ELSE From(s, IndexOf(s, c))

LEMMA Halves ==
    ASSUME NEW S, NEW s \in Seq(S), NEW c
    PROVE  /\ Front1(s, c) \in Seq(S) /\ Back1(s, c) \in Seq(S)
           /\ s = Front1(s, c) \o Back1(s, c)
           /\ \A j \in 1 .. Len(Front1(s, c)) : Front1(s, c)[j] # c
           /\ Back1(s, c) # <<>> => Back1(s, c)[1] = c
<1> DEFINE x == IndexOf(s, c)
           h == Front1(s, c)
           q == Back1(s, c)
<1>1. Len(s) \in Nat
  BY LenProperties
<1>2. CASE x = 0
  <2>1. h = s /\ q = <<>>
    BY <1>2 DEF Front1, Back1
  <2>2. \A j \in 1 .. Len(s) : s[j] # c
    BY <1>2, IndexFirst
  <2> QED
    BY <2>1, <2>2, ConcatEmptySeq, EmptySeq
<1>3. CASE x # 0
  <2>1. x \in 1 .. Len(s) /\ s[x] = c /\ \A j \in 1 .. x - 1 : s[j] # c
    BY <1>3, IndexFirst
  <2>2. h = SubSeq(s, 1, x - 1) /\ q = SubSeq(s, x, Len(s))
    BY <1>3 DEF Front1, Back1, From
  <2> HIDE DEF x, h, q
  <2>3. /\ x - 1 \in Int /\ x \in Int /\ 1 \in Int /\ Len(s) \in Int /\ x <= Len(s)
        /\ \A i \in 1 .. x - 1 : i \in 1 .. Len(s)
        /\ \A i \in x .. Len(s) : i \in 1 .. Len(s)
        /\ (IF 1 <= x - 1 THEN (x - 1) - 1 + 1 ELSE 0) = x - 1
        /\ 1 \in 1 .. Len(s) - x + 1 /\ x + 1 - 1 = x
        /\ (x - 1) - 1 + 1 = x - 1 /\ \A i \in 1 .. x - 1 : 1 + i - 1 = i
    BY <1>1, <2>1
  <2>4. \A i \in 1 .. Len(s) : s[i] \in S
    BY ElementOfSeq
  <2>5. /\ h \in Seq(S) /\ Len(h) = x - 1
        /\ \A i \in 1 .. (x - 1) - 1 + 1 : h[i] = s[1 + i - 1]
    BY <2>2, <2>3, <2>4, SubSeqProperties
  <2>6. q \in Seq(S) /\ q[1] = s[x + 1 - 1]
    BY <2>2, <2>3, <2>4, SubSeqProperties
  <2>7. h \o q = s
    <3>1. 1 \in 1 .. Len(s) + 1 /\ x - 1 \in 1 - 1 .. Len(s) /\ Len(s) \in x - 1 .. Len(s)
          /\ (x - 1) + 1 = x
      BY <1>1, <2>1
    <3>2. SubSeq(s, 1, x - 1) \o SubSeq(s, (x - 1) + 1, Len(s)) = SubSeq(s, 1, Len(s))
      BY <3>1, ConcatAdjacentSubSeq
    <3> QED
      BY <2>2, <3>1, <3>2, SubSeqFull
  <2>8. \A j \in 1 .. Len(h) : h[j] # c
    <3>1. \A i \in 1 .. x - 1 : h[i] = s[i]
      BY <2>3, <2>5
    <3> QED
      BY <2>1, <2>5, <3>1
  <2>9. q[1] = c
    BY <2>1, <2>3, <2>6
  <2> QED
    BY <2>5, <2>6, <2>7, <2>8, <2>9 DEF h, q
<1> QED
  BY <1>2, <1>3

\* A text that was put together can be cut where it was.
LEMMA CutApart ==
    ASSUME NEW S, NEW h \in Seq(S), NEW q \in Seq(S)
    PROVE  /\ SubSeq(h \o q, 1, Len(h)) = h
           /\ SubSeq(h \o q, Len(h) + 1, Len(h \o q)) = q
<1> DEFINE s == h \o q
           lo == Len(h) + 1
           hi == Len(s)
           u == SubSeq(s, 1, Len(h))
           v == SubSeq(s, lo, hi)
<1>1. /\ s \in Seq(S) /\ Len(s) = Len(h) + Len(q)
      /\ \A i \in 1 .. Len(h) + Len(q) : s[i] = IF i <= Len(h) THEN h[i] ELSE q[i - Len(h)]
  BY ConcatProperties
<1>2. Len(h) \in Nat /\ Len(q) \in Nat /\ hi \in Nat
  BY <1>1, LenProperties
<1>3. \A i \in 1 .. hi : s[i] \in S
  BY <1>1, ElementOfSeq
<1> HIDE DEF s
<1>4. u = h
  <2>1. /\ Len(h) \in Int /\ (IF 1 <= Len(h) THEN Len(h) - 1 + 1 ELSE 0) = Len(h)
        /\ Len(h) - 1 + 1 = Len(h) /\ \A i \in 1 .. Len(h) : 1 + i - 1 = i
    BY <1>2
  <2>2. \A i \in 1 .. Len(h) : i \in 1 .. Len(h) + Len(q) /\ i <= Len(h)
    BY <1>2
  <2>3. \A i \in 1 .. Len(h) : s[i] = h[i] /\ h[i] \in S
    BY <1>1, <2>2, ElementOfSeq
  <2>4. u \in Seq(S) /\ Len(u) = Len(h) /\ \A i \in 1 .. Len(h) - 1 + 1 : u[i] = s[1 + i - 1]
    BY <2>1, <2>3, SubSeqProperties
  <2>5. \A i \in 1 .. Len(u) : u[i] = h[i]
    BY <2>1, <2>3, <2>4
  <2> HIDE DEF u
  <2> QED
    BY <2>4, <2>5, SeqEqual
<1>5. v = q
  <2>1. lo \in Int /\ hi \in Int /\ hi - lo + 1 = Len(q)
    BY <1>1, <1>2
  <2>2. (IF lo <= hi THEN hi - lo + 1 ELSE 0) = Len(q)
    BY <1>1, <1>2
  <2>3. \A i \in lo .. hi : i \in 1 .. hi
    BY <1>2
  <2>4. \A i \in 1 .. Len(q) : /\ lo + i - 1 \in 1 .. Len(h) + Len(q)
                              /\ ~(lo + i - 1 <= Len(h)) /\ (lo + i - 1) - Len(h) = i
    BY <1>2
  <2>5. \A i \in lo .. hi : s[i] \in S
    BY <1>3, <2>3
  <2> HIDE DEF lo, hi
  <2>6. /\ v \in Seq(S) /\ Len(v) = (IF lo <= hi THEN hi - lo + 1 ELSE 0)
        /\ \A i \in 1 .. hi - lo + 1 : v[i] = s[lo + i - 1]
    BY <2>1, <2>5, SubSeqProperties
  <2>7. \A i \in 1 .. Len(q) : s[lo + i - 1] = q[i]
    BY <1>1, <2>4
  <2>8. \A i \in 1 .. Len(v) : v[i] = q[i]
    BY <2>1, <2>2, <2>6, <2>7
  <2> HIDE DEF v
  <2> QED
    BY <2>2, <2>6, <2>8, SeqEqual
<1> QED
  BY <1>4, <1>5 DEF s

\* A text can be put together in one way only.
LEMMA HalvesAre ==
    ASSUME NEW S, NEW h \in Seq(S), NEW q \in Seq(S), NEW c,
           \A j \in 1 .. Len(h) : h[j] # c, q # <<>> => q[1] = c
    PROVE  Front1(h \o q, c) = h /\ Back1(h \o q, c) = q
<1> DEFINE s == h \o q
           x == IndexOf(s, c)
<1>1. /\ s \in Seq(S) /\ Len(s) = Len(h) + Len(q)
      /\ \A i \in 1 .. Len(h) + Len(q) : s[i] = IF i <= Len(h) THEN h[i] ELSE q[i - Len(h)]
  BY ConcatProperties
<1>2. Len(h) \in Nat /\ Len(q) \in Nat
  BY LenProperties
<1>3. CASE q = <<>>
  <2>1. s = h
    BY <1>3, ConcatEmptySeq
  <2>2. x = 0
    BY <2>1, IndexNone
  <2> QED
    BY <1>3, <2>1, <2>2 DEF Front1, Back1
<1>4. CASE q # <<>>
  <2>1. Len(q) \in Nat \ {0}
    BY <1>4, EmptySeq
  <2> DEFINE k == Len(h) + 1
  <2>2. k \in 1 .. Len(s) /\ k \in 1 .. Len(h) + Len(q) /\ ~(k <= Len(h)) /\ k - Len(h) = 1
        /\ k - 1 = Len(h)
    BY <1>1, <1>2, <2>1
  <2>3. \A j \in 1 .. Len(h) : j \in 1 .. Len(h) + Len(q) /\ j <= Len(h)
    BY <1>2
  <2> HIDE DEF s, k
  <2>4. s[k] = c
    BY <1>1, <1>4, <2>2
  <2>5. \A j \in 1 .. k - 1 : s[j] # c
    BY <1>1, <2>2, <2>3
  <2>6. x = k
    BY <1>1, <2>2, <2>4, <2>5, IndexIs
  <2>7. x # 0 /\ x - 1 = Len(h)
    BY <1>2, <2>6 DEF k
  <2>8. Front1(s, c) = SubSeq(s, 1, Len(h)) /\ Back1(s, c) = SubSeq(s, k, Len(s))
    BY <2>6, <2>7 DEF Front1, Back1, From
  <2>9. SubSeq(s, 1, Len(h)) = h /\ SubSeq(s, k, Len(s)) = q
    BY CutApart DEF s, k
  <2>11. Front1(s, c) = h /\ Back1(s, c) = q
    BY <2>8, <2>9
  <2> QED
    BY <2>11 DEF s
<1> QED
  BY <1>3, <1>4

\* What TrimRight cuts off are separators ...
LEMMA TrimRightCuts ==
    ASSUME NEW S, NEW s \in Seq(S), NEW c
    PROVE  /\ TrimRight(s, c) \in Seq(S)
           /\ \E z \in Seq(S) : s = TrimRight(s, c) \o z /\ \A i \in 1 .. Len(z) : z[i] = c
<1> DEFINE T == {k \in DOMAIN s : s[k] # c}
<1>1. Len(s) \in Nat /\ DOMAIN s = 1 .. Len(s)
  BY LenProperties
<1>2. T \in SUBSET (0 .. Len(s)) /\ \A j : j \in T <=> j \in 1 .. Len(s) /\ s[j] # c
  BY <1>1
<1>3. CASE T = {}
  <2>1. TrimRight(s, c) = <<>>
    BY <1>3 DEF TrimRight
  <2>2. \A i \in 1 .. Len(s) : s[i] = c
    BY <1>2, <1>3
  <2>3. <<>> \in Seq(S) /\ s = <<>> \o s
    BY ConcatEmptySeq, EmptySeq
  <2> QED
    BY <2>1, <2>2, <2>3
<1>4. CASE T # {}
  <2> DEFINE m == Max(T)
             z == SubSeq(s, m + 1, Len(s))
  <2>1. TrimRight(s, c) = SubSeq(s, 1, m)
    BY <1>4 DEF TrimRight
  <2> HIDE DEF T
  <2>2. m \in T /\ \A y \in T : m >= y
    BY <1>1, <1>2, <1>4, GreatestNumber
  <2>3. m \in 1 .. Len(s)
    BY <1>2, <2>2
  <2> HIDE DEF m
  <2>4. /\ 1 \in Int /\ m \in Int /\ m + 1 \in Int /\ Len(s) \in Int /\ m <= Len(s)
        /\ \A i \in 1 .. m : i \in 1 .. Len(s)
    BY <1>1, <2>3
  <2>14. \A i \in m + 1 .. Len(s) : i \in 1 .. Len(s) /\ ~(m >= i)
    BY <1>1, <2>3
  <2>15. /\ (IF m + 1 <= Len(s) THEN Len(s) - (m + 1) + 1 ELSE 0) = Len(s) - m
         /\ Len(s) - (m + 1) + 1 = Len(s) - m
    BY <2>4
  <2>16. \A i \in 1 .. Len(s) - m : (m + 1) + i - 1 \in m + 1 .. Len(s)
    BY <2>4
  <2>12. 1 \in 1 .. Len(s) + 1 /\ m \in 1 - 1 .. Len(s) /\ Len(s) \in m .. Len(s)
    BY <1>1, <2>3
  <2>5. \A i \in 1 .. Len(s) : s[i] \in S
    BY ElementOfSeq
  <2>6. SubSeq(s, 1, m) \in Seq(S)
    BY <2>4, <2>5, SubSeqProperties
  <2>13. \A i \in m + 1 .. Len(s) : s[i] \in S
    BY <2>14, <2>5
  <2>7. /\ z \in Seq(S) /\ Len(z) = Len(s) - m
        /\ \A i \in 1 .. Len(s) - (m + 1) + 1 : z[i] = s[(m + 1) + i - 1]
    <3> DEFINE lo == m + 1
               hi == Len(s)
    <3>1. lo \in Int /\ hi \in Int /\ \A i \in lo .. hi : s[i] \in S
      BY <2>4, <2>13
    <3>2. (IF lo <= hi THEN hi - lo + 1 ELSE 0) = hi - m
      BY <2>15
    <3> HIDE DEF lo, hi
    <3>3. /\ SubSeq(s, lo, hi) \in Seq(S)
          /\ Len(SubSeq(s, lo, hi)) = IF lo <= hi THEN hi - lo + 1 ELSE 0
          /\ \A i \in 1 .. hi - lo + 1 : SubSeq(s, lo, hi)[i] = s[lo + i - 1]
      BY <3>1, SubSeqProperties
    <3>4. Len(SubSeq(s, lo, hi)) = hi - m
      BY <3>2, <3>3
    <3> QED
      BY <3>3, <3>4 DEF lo, hi
  <2>8. \A i \in m + 1 .. Len(s) : s[i] = c
    BY <1>2, <2>2, <2>14
  <2>9. \A i \in 1 .. Len(z) : z[i] = c
    BY <2>7, <2>8, <2>15, <2>16
  <2>10. SubSeq(s, 1, m) \o SubSeq(s, m + 1, Len(s)) = s
    BY <2>12, ConcatAdjacentSubSeq, SubSeqFull
  <2> HIDE DEF z
  <2>11. s = SubSeq(s, 1, m) \o z
    BY <2>10 DEF z
  <2> QED
    BY <2>1, <2>6, <2>7, <2>9, <2>11
<1> QED
  BY <1>3, <1>4

\* ... and more of them at the end do not matter.
LEMMA TrimRightMore ==
    ASSUME NEW S, NEW s \in Seq(S), NEW z \in Seq(S), NEW c, \A i \in 1 .. Len(z) : z[i] = c
    PROVE  TrimRight(s \o z, c) = TrimRight(s, c)
<1> DEFINE t == s \o z
           T == {k \in DOMAIN s : s[k] # c}
           U == {k \in DOMAIN t : t[k] # c}
<1>1. /\ t \in Seq(S) /\ Len(t) = Len(s) + Len(z)
      /\ \A i \in 1 .. Len(s) + Len(z) : t[i] = IF i <= Len(s) THEN s[i] ELSE z[i - Len(s)]
  BY ConcatProperties
<1>2. /\ Len(s) \in Nat /\ DOMAIN s = 1 .. Len(s) /\ Len(z) \in Nat
      /\ DOMAIN t = 1 .. Len(s) + Len(z)
  BY <1>1, LenProperties
<1> HIDE DEF t
<1>3. /\ \A i \in 1 .. Len(s) : i \in 1 .. Len(s) + Len(z) /\ i <= Len(s)
      /\ \A i \in 1 .. Len(s) + Len(z) : i \in 1 .. Len(s) \/ (~(i <= Len(s)) /\ i - Len(s) \in 1 .. Len(z))
  BY <1>2
<1>4. \A i \in 1 .. Len(s) : t[i] = s[i]
  BY <1>1, <1>3
<1>5. \A i \in 1 .. Len(s) + Len(z) : i \in 1 .. Len(s) \/ t[i] = c
  BY <1>1, <1>3
<1>6. U = T
  BY <1>2, <1>3, <1>4, <1>5
<1>7. CASE T = {}
  BY <1>6, <1>7 DEF TrimRight, t
<1>8. CASE T # {}
  <2> DEFINE m == Max(T)
  <2>1. TrimRight(s, c) = SubSeq(s, 1, m) /\ TrimRight(t, c) = SubSeq(t, 1, m)
    BY <1>6, <1>8 DEF TrimRight
  <2>2. T \in SUBSET (0 .. Len(s)) /\ \A j \in T : j \in 1 .. Len(s)
    BY <1>2
  <2> HIDE DEF T
  <2>3. m \in T
    BY <1>2, <1>8, <2>2, GreatestNumber
  <2>4. m \in 1 .. Len(s)
    BY <2>2, <2>3
  <2> HIDE DEF m
  <2>5. 1 \in 1 .. Len(s)
    BY <1>2, <2>4
  <2>6. SubSeq(s \o z, 1, m) = SubSeq(s, 1, m)
    BY <2>4, <2>5, SubSeqOfConcat1
  <2> QED
    BY <2>1, <2>6 DEF t
<1> QED
  BY <1>7, <1>8

\* An address without the slashes at its end says the same, but for those of its path.
LEMMA TrimmedHalves ==
    ASSUME NEW S, NEW s \in Seq(S), NEW c
    PROVE  LET t == TrimRight(s, c)
           IN  /\ t \in Seq(S) /\ Front1(t, c) = Front1(s, c)
               /\ TrimRight(Back1(t, c), c) = TrimRight(Back1(s, c), c)
<1> DEFINE t == TrimRight(s, c)
<1>1. t \in Seq(S)
  BY TrimRightCuts
<1>2. PICK z \in Seq(S) : s = t \o z /\ \A i \in 1 .. Len(z) : z[i] = c
  BY TrimRightCuts
<1> HIDE DEF t
<1> DEFINE h == Front1(t, c)
           q == Back1(t, c)
<1>3. /\ h \in Seq(S) /\ q \in Seq(S) /\ t = h \o q
      /\ \A j \in 1 .. Len(h) : h[j] # c
      /\ (q # <<>> => q[1] = c)
  BY <1>1, Halves
<1> HIDE DEF h, q
<1>4. q \o z \in Seq(S) /\ s = h \o (q \o z)
  BY <1>2, <1>3, ConcatProperties, ConcatAssociative
<1>5. q \o z # <<>> => (q \o z)[1] = c
  <2>1. CASE q = <<>>
    <3>1. q \o z = z
      BY <2>1, ConcatEmptySeq
    <3>2. z # <<>> => 1 \in 1 .. Len(z)
      BY EmptySeq
    <3> QED
      BY <1>2, <3>1, <3>2
  <2>2. CASE q # <<>>
    <3>1. Len(q) \in Nat \ {0} /\ Len(z) \in Nat
      BY <1>3, <2>2, EmptySeq, LenProperties
    <3>2. 1 \in 1 .. Len(q) + Len(z) /\ 1 <= Len(q)
      BY <3>1
    <3>3. (q \o z)[1] = q[1]
      BY <1>3, <3>2, ConcatProperties
    <3> QED
      BY <1>3, <2>2, <3>3
  <2> QED
    BY <2>1, <2>2
<1>6. Front1(s, c) = h /\ Back1(s, c) = q \o z
  <2> DEFINE w == q \o z
  <2>1. w \in Seq(S) /\ (w # <<>> => w[1] = c) /\ s = h \o w
    BY <1>4, <1>5
  <2> HIDE DEF w
  <2>2. Front1(h \o w, c) = h /\ Back1(h \o w, c) = w
    BY <1>3, <2>1, HalvesAre
  <2> QED
    BY <2>1, <2>2 DEF w
<1>7. TrimRight(q \o z, c) = TrimRight(q, c)
  BY <1>2, <1>3, TrimRightMore
<1>8. Front1(t, c) = Front1(s, c) /\ TrimRight(Back1(t, c), c) = TrimRight(Back1(s, c), c)
  BY <1>6, <1>7 DEF h, q
<1> QED
  BY <1>1, <1>8 DEF t

\* A text that begins with a word and a mark.
LEMMA MarkedIs ==
    ASSUME NEW S, NEW x \in S, NEW m \in S, x # m, NEW s \in Seq(S)
    PROVE  LET t == <<x, m>> \o s
           IN  /\ t \in Seq(S) /\ IndexOf(t, m) = 2 /\ From(t, 3) = s /\ SubSeq(t, 1, 1) = <<x>>
               /\ Len(t) = Len(s) + 2 /\ t[1] = x /\ t[2] = m
<1> DEFINE p == <<x, m>>
           t == p \o s
<1>1. p \in Seq(S) /\ Len(p) = 2 /\ p[1] = x /\ p[2] = m
  OBVIOUS
<1>2. Len(s) \in Nat
  BY LenProperties
<1> HIDE DEF p
<1>3. /\ t \in Seq(S) /\ Len(t) = Len(p) + Len(s)
      /\ \A i \in 1 .. Len(p) + Len(s) : t[i] = IF i <= Len(p) THEN p[i] ELSE s[i - Len(p)]
  BY <1>1, ConcatProperties
<1>4. SubSeq(t, Len(p) + 1, Len(t)) = s
  BY <1>1, CutApart
<1> HIDE DEF t
<1>5. Len(t) = Len(s) + 2 /\ t[1] = x /\ t[2] = m
  BY <1>1, <1>2, <1>3
<1>6. 2 \in 1 .. Len(t) /\ \A j \in 1 .. 2 - 1 : t[j] # m
  <2>1. \A j \in 1 .. 2 - 1 : j = 1
    OBVIOUS
  <2> QED
    BY <1>2, <1>5, <2>1
<1>7. IndexOf(t, m) = 2
  BY <1>3, <1>5, <1>6, IndexIs
<1>8. From(t, 3) = s
  BY <1>1, <1>4 DEF From
<1>9. SubSeq(t, 1, 1) = <<x>>
  <2> DEFINE u == SubSeq(t, 1, 1)
  <2>1. \A i \in 1 .. 1 : t[i] \in S
    BY <1>5
  <2>2. u \in Seq(S) /\ Len(u) = 1 /\ u[1] = t[1]
    BY <2>1, SubSeqProperties
  <2>3. <<x>> \in Seq(S) /\ Len(<<x>>) = 1 /\ \A i \in 1 .. 1 : u[i] = <<x>>[i]
    BY <1>5, <2>2
  <2> HIDE DEF u
  <2>4. u = <<x>>
    BY <2>2, <2>3, SeqEqual
  <2> QED
    BY <2>4 DEF u
<1> QED
  BY <1>3, <1>5, <1>7, <1>8, <1>9 DEF t, p

\* What Address says of a text that has a mark, and of one that has none.
LEMMA AddressIs ==
    ASSUME NEW t
    PROVE  LET v == From(t, IndexOf(t, "://") + 1)
           IN  /\ Address(t).host = Front1(v, "/") /\ Address(t).path = Back1(v, "/")
               /\ Address(t).scheme = IF IndexOf(t, "://") = 0 THEN <<"https">>
                                      ELSE SubSeq(t, 1, IndexOf(t, "://") - 1)
               /\ Address(t) = [scheme |-> Address(t).scheme, host |-> Address(t).host,
                                path |-> Address(t).path]
BY DEF Address, Front1, Back1

LEMMA MarkedAddress ==
    ASSUME NEW S, "://" \in S, NEW x \in S, x # "://", NEW s \in Seq(S)
    PROVE  Address(<<x, "://">> \o s) =
              [scheme |-> <<x>>, host |-> Front1(s, "/"), path |-> Back1(s, "/")]
<1> DEFINE t == <<x, "://">> \o s
<1>1. IndexOf(t, "://") = 2 /\ From(t, 3) = s /\ SubSeq(t, 1, 1) = <<x>>
  BY MarkedIs
<1> HIDE DEF t
<1>2. 2 + 1 = 3 /\ 2 - 1 = 1 /\ 2 # 0
  OBVIOUS
<1>3. Address(t).host = Front1(s, "/") /\ Address(t).path = Back1(s, "/")
      /\ Address(t).scheme = <<x>>
      /\ Address(t) = [scheme |-> Address(t).scheme, host |-> Address(t).host,
                       path |-> Address(t).path]
  BY <1>1, <1>2, AddressIs
<1>4. Address(t) = [scheme |-> <<x>>, host |-> Front1(s, "/"), path |-> Back1(s, "/")]
  BY <1>3
<1> QED
  BY <1>4 DEF t

\* What is left of the path behind a base that has one.
Unversioned(p) ==
    LET behind == {k \in 3 .. Len(p) : IsVersion(p[2]) /\ p[k] = "/"}
    IN  IF behind = {} THEN p ELSE From(p, Min(behind))

\* joinUpstreamPath looks at the first segment, which is a version if it begins with one.
LEMMA JoinIs ==
    ASSUME NEW S, NEW p \in Seq(S), p # <<>>, p[1] = "/", NEW own
    PROVE  JoinUpstreamPath(own, p) = own \o (IF own = <<>> THEN p ELSE Unversioned(p))
<1> DEFINE q == Tail(p)
           slash == IndexOf(q, "/")
           behind == {k \in 3 .. Len(p) : IsVersion(p[2]) /\ p[k] = "/"}
<1>1. /\ Len(p) \in Nat \ {0} /\ q \in Seq(S) /\ Len(q) = Len(p) - 1
      /\ \A i \in 1 .. Len(q) : q[i] = p[i + 1]
  BY EmptySeq, HeadTailProperties
<1>2. /\ slash = 0 => \A j \in 1 .. Len(q) : q[j] # "/"
      /\ slash # 0 => slash \in 1 .. Len(q) /\ q[slash] = "/" /\ \A j \in 1 .. slash - 1 : q[j] # "/"
  BY <1>1, IndexFirst
<1>3. JoinUpstreamPath(own, p) = IF own # <<>> /\ slash > 1 /\ IsVersion(p[2])
                                 THEN own \o From(p, slash + 1) ELSE own \o p
  BY DEF JoinUpstreamPath
<1>4. behind \in SUBSET Nat /\ \A k : k \in behind <=> k \in 3 .. Len(p) /\ IsVersion(p[2]) /\ p[k] = "/"
  BY <1>1
<1>5. Unversioned(p) = IF behind = {} THEN p ELSE From(p, Min(behind))
  BY DEF Unversioned
<1> HIDE DEF q, slash, behind
<1>6. CASE slash > 1 /\ IsVersion(p[2])
  <2>1. /\ slash \in 1 .. Len(q) /\ q[slash] = "/" /\ \A j \in 1 .. slash - 1 : q[j] # "/"
        /\ slash \in Nat /\ slash >= 2
    <3>1. slash # 0
      BY <1>6
    <3> QED
      BY <1>1, <1>2, <1>6, <3>1
  <2>2. slash + 1 \in 3 .. Len(p) /\ p[slash + 1] = "/"
    BY <1>1, <2>1
  <2>3. slash + 1 \in behind
    BY <1>4, <1>6, <2>2
  <2>4. Min(behind) \in behind /\ \A y \in behind : Min(behind) <= y
    BY <1>4, <2>3, LeastNumber
  <2>5. Min(behind) = slash + 1
    <3> DEFINE b == Min(behind)
    <3>1. b \in 3 .. Len(p) /\ p[b] = "/" /\ b <= slash + 1
      BY <1>4, <2>3, <2>4
    <3> HIDE DEF b
    <3>2. b - 1 \in 1 .. Len(q) /\ q[b - 1] = p[b - 1 + 1] /\ b - 1 + 1 = b
      BY <1>1, <3>1
    <3>3. b - 1 \notin 1 .. slash - 1
      BY <2>1, <3>1, <3>2
    <3>4. b = slash + 1
      BY <1>1, <2>1, <3>1, <3>3
    <3> QED
      BY <3>4 DEF b
  <2> QED
    BY <1>3, <1>5, <1>6, <2>3, <2>5
<1>7. CASE ~(slash > 1 /\ IsVersion(p[2]))
  <2>1. behind = {}
    <3> SUFFICES ASSUME NEW k \in behind PROVE FALSE
      OBVIOUS
    <3>1. k \in 3 .. Len(p) /\ IsVersion(p[2]) /\ p[k] = "/"
      BY <1>4
    <3>2. k - 1 \in 1 .. Len(q) /\ q[k - 1] = p[k - 1 + 1] /\ k - 1 + 1 = k /\ 1 \in 1 .. Len(q)
          /\ 1 + 1 = 2
      BY <1>1, <3>1
    <3>3. slash # 0 /\ ~(slash > 1)
      BY <1>2, <1>7, <3>1, <3>2
    <3>4. slash = 1
      BY <1>1, <1>2, <3>3
    <3>5. p[2] = "/"
      BY <1>1, <1>2, <3>2, <3>4
    <3> QED
      BY <3>1, <3>5 DEF IsVersion
  <2> QED
    BY <1>3, <1>5, <1>7, <2>1
<1> QED
  BY <1>6, <1>7

LEMMA UnversionedWithin ==
    ASSUME NEW S, NEW p \in Seq(S)
    PROVE  Unversioned(p) \in Seq(S)
<1> DEFINE behind == {k \in 3 .. Len(p) : IsVersion(p[2]) /\ p[k] = "/"}
<1>1. Unversioned(p) = IF behind = {} THEN p ELSE From(p, Min(behind))
  BY DEF Unversioned
<1>2. Len(p) \in Nat
  BY LenProperties
<1>3. behind \in SUBSET Nat /\ \A k \in behind : k >= 1
  BY <1>2
<1> HIDE DEF behind
<1>4. behind # {} => Min(behind) \in Nat /\ Min(behind) >= 1
  BY <1>3, LeastNumber
<1>5. behind # {} => From(p, Min(behind)) \in Seq(S)
  BY <1>4, FromWithin
<1> QED
  BY <1>1, <1>5

\* The path that is sent begins with a slash, as the one that came in does.
LEMMA JoinedPath ==
    ASSUME NEW S, NEW q \in Seq(S), q # <<>> => q[1] = "/", NEW p \in Seq(S), p # <<>>, p[1] = "/"
    PROVE  LET own == TrimRight(q, "/")
           IN  /\ own \in Seq(S) /\ JoinUpstreamPath(own, p) \in Seq(S)
               /\ JoinUpstreamPath(own, p)[1] = "/"
               /\ JoinUpstreamPath(own, p) = own \o (IF own = <<>> THEN p ELSE Unversioned(p))
<1> DEFINE own == TrimRight(q, "/")
           w == IF own = <<>> THEN p ELSE Unversioned(p)
<1>1. own \in Seq(S)
  BY TrimRightCuts
<1>2. PICK z \in Seq(S) : q = own \o z
  BY TrimRightCuts
<1> HIDE DEF own
<1>3. JoinUpstreamPath(own, p) = own \o w
  BY JoinIs
<1>4. w \in Seq(S)
  BY UnversionedWithin
<1>5. own \o w \in Seq(S)
  <2> HIDE DEF w
  <2> QED
    BY <1>1, <1>4, ConcatProperties
<1>6. (own \o w)[1] = "/"
  <2>1. CASE own = <<>>
    <3>1. own \o w = p
      BY <2>1, ConcatEmptySeq
    <3> QED
      BY <3>1
  <2>2. CASE own # <<>>
    <3> HIDE DEF w
    <3>1. Len(own) \in Nat \ {0} /\ Len(w) \in Nat /\ Len(z) \in Nat
      BY <1>1, <1>2, <1>4, <2>2, EmptySeq, LenProperties
    <3>2. 1 \in 1 .. Len(own) + Len(w) /\ 1 \in 1 .. Len(own) + Len(z) /\ 1 <= Len(own)
      BY <3>1
    <3>3. (own \o w)[1] = own[1]
      BY <1>1, <1>4, <3>2, ConcatProperties
    <3>4. (own \o z)[1] = own[1]
      BY <1>1, <1>2, <3>2, ConcatProperties
    <3>5. q # <<>>
      BY <1>1, <1>2, <2>2, ConcatEqualIffEmpty
    <3> QED
      BY <1>2, <3>3, <3>4, <3>5
  <2> QED
    BY <2>1, <2>2
<1>7. own \in Seq(S) /\ JoinUpstreamPath(own, p) \in Seq(S) /\ JoinUpstreamPath(own, p)[1] = "/"
      /\ JoinUpstreamPath(own, p) = own \o w
  <2> HIDE DEF w
  <2> QED
    BY <1>1, <1>3, <1>5, <1>6
<1> QED
  BY <1>7 DEF own

LEMMA NothingIsCut ==
    \A c : TrimRight(<<>>, c) = <<>>
<1>1. \A c : {k \in DOMAIN <<>> : <<>>[k] # c} = {}
  OBVIOUS
<1> QED
  BY <1>1 DEF TrimRight

\* buildURL: the address that is sent is the base's, with the path behind its own.
LEMMA BuiltAddress ==
    ASSUME NEW S, "://" \in S, NEW x \in S, x # "://", NEW s \in Seq(S),
           NEW p \in Seq(S), p # <<>>, p[1] = "/"
    PROVE  LET own == TrimRight(Back1(s, "/"), "/")
           IN  Address(BuildURL(<<x, "://">> \o s, p)) =
                  [scheme |-> <<x>>, host |-> Front1(s, "/"),
                   path |-> own \o (IF own = <<>> THEN p ELSE Unversioned(p))]
<1> DEFINE front == <<x, "://">>
           b == front \o s
           h == Front1(s, "/")
           q == Back1(s, "/")
           own == TrimRight(q, "/")
           j == JoinUpstreamPath(own, p)
<1>1. /\ h \in Seq(S) /\ q \in Seq(S) /\ s = h \o q
      /\ \A i \in 1 .. Len(h) : h[i] # "/"
      /\ q # <<>> => q[1] = "/"
  BY Halves
<1>2. b \in Seq(S) /\ IndexOf(b, "://") = 2 /\ From(b, 3) = s /\ Len(b) = Len(s) + 2
  BY MarkedIs
<1>3. front \in Seq(S) /\ Len(front) = 2
  OBVIOUS
<1>4. j \in Seq(S) /\ j[1] = "/" /\ j = own \o (IF own = <<>> THEN p ELSE Unversioned(p))
  BY <1>1, JoinedPath
<1>5. Address(front \o (h \o j)) = [scheme |-> <<x>>, host |-> h, path |-> j]
  <2> HIDE DEF h, j
  <2>1. h \o j \in Seq(S)
    BY <1>1, <1>4, ConcatProperties
  <2>2. Front1(h \o j, "/") = h /\ Back1(h \o j, "/") = j
    <3>1. /\ h \in Seq(S) /\ j \in Seq(S) /\ \A i \in 1 .. Len(h) : h[i] # "/"
          /\ j # <<>> => j[1] = "/"
      BY <1>1, <1>4
    <3> QED
      BY ONLY <3>1, HalvesAre
  <2> QED
    BY <2>1, <2>2, MarkedAddress
<1>6. BuildURL(b, p) = front \o (h \o j)
  <2> DEFINE slash == IndexOf(s, "/")
  <2>1. BuildURL(b, p) = IF slash = 0 THEN b \o p
                         ELSE SubSeq(b, 1, 2 + slash - 1)
                              \o JoinUpstreamPath(TrimRight(From(s, slash), "/"), p)
    <3> HIDE DEF b
    <3>1. 2 + 1 = 3
      OBVIOUS
    <3> QED
      BY <1>2, <3>1 DEF BuildURL
  <2>2. CASE slash = 0
    <3>1. h = s /\ q = <<>>
      BY <2>2 DEF Front1, Back1
    <3>2. own = <<>>
      BY <3>1, NothingIsCut
    <3> HIDE DEF front, own, h, q, j
    <3>3. j = p
      BY <1>4, <3>2, ConcatEmptySeq
    <3>4. (front \o s) \o p = front \o (s \o p)
      BY <1>3, ConcatAssociative
    <3> QED
      BY <2>1, <2>2, <3>1, <3>3, <3>4
  <2>3. CASE slash # 0
    <3>1. h = SubSeq(s, 1, slash - 1) /\ q = From(s, slash)
      BY <2>3 DEF Front1, Back1
    <3>2. slash \in 1 .. Len(s) /\ Len(s) \in Nat
      BY <2>3, IndexFirst, LenProperties
    <3>3. Len(h) = slash - 1
      <4>1. \A i \in 1 .. slash - 1 : i \in 1 .. Len(s)
        BY <3>2
      <4>2. \A i \in 1 .. slash - 1 : s[i] \in S
        BY <4>1, ElementOfSeq
      <4>3. slash - 1 \in Int /\ (IF 1 <= slash - 1 THEN (slash - 1) - 1 + 1 ELSE 0) = slash - 1
        BY <3>2
      <4> HIDE DEF slash
      <4>4. Len(SubSeq(s, 1, slash - 1)) = IF 1 <= slash - 1 THEN (slash - 1) - 1 + 1 ELSE 0
        BY <4>2, <4>3, SubSeqProperties
      <4> QED
        BY <3>1, <4>3, <4>4
    <3> HIDE DEF front, slash, own, h, q, j
    <3>4. 2 + slash - 1 = 2 + Len(h)
      BY <3>2, <3>3
    <3>5. front \o h \in Seq(S) /\ Len(front \o h) = 2 + Len(h) /\ b = (front \o h) \o q
      <4>1. front \o h \in Seq(S) /\ Len(front \o h) = Len(front) + Len(h)
        BY <1>1, <1>3, ConcatProperties
      <4>2. front \o (h \o q) = (front \o h) \o q
        <5>1. front \in Seq(S) /\ h \in Seq(S) /\ q \in Seq(S)
          BY <1>1, <1>3
        <5> QED
          BY ONLY <5>1, ConcatAssociative
      <4> QED
        BY <1>1, <1>3, <4>1, <4>2
    <3>6. SubSeq((front \o h) \o q, 1, Len(front \o h)) = front \o h
      BY <1>1, <3>5, CutApart
    <3>7. SubSeq(b, 1, 2 + slash - 1) = front \o h
      BY <3>4, <3>5, <3>6
    <3>8. BuildURL(b, p) = (front \o h) \o j
      BY <2>1, <2>3, <3>1, <3>7 DEF own, j
    <3>9. (front \o h) \o j = front \o (h \o j)
      <4>1. front \in Seq(S) /\ h \in Seq(S) /\ j \in Seq(S)
        BY <1>1, <1>3, <1>4
      <4> QED
        BY ONLY <4>1, ConcatAssociative
    <3> QED
      BY <3>8, <3>9
  <2> QED
    BY <2>2, <2>3
<1>7. Address(BuildURL(b, p)) = [scheme |-> <<x>>, host |-> h, path |-> j]
  BY <1>5, <1>6
<1> HIDE DEF j
<1> QED
  BY <1>4, <1>7

\* What an address that can be used is: scheme, mark and the rest, which says what the
\* text it comes from says.
Says(b, S, named) ==
    \E x \in {"http", "https"}, s \in Seq(S) :
        /\ b = <<x, "://">> \o s
        /\ named.scheme = <<x>> /\ named.host = Front1(s, "/")
        /\ TrimRight(named.path, "/") = TrimRight(Back1(s, "/"), "/")

Words == STRING \cup {"http", "https", "://"}

LEMMA SomeWords ==
    /\ "://" \in Words /\ \A x \in {"http", "https"} : x \in Words /\ x # "://"
    /\ \A s \in Seq(STRING) : s \in Seq(Words)
<1>1. "://" \in Words /\ \A x \in {"http", "https"} : x \in Words /\ x # "://"
  BY DEF Words
<1>2. STRING \subseteq Words
  BY DEF Words
<1>3. \A s \in Seq(STRING) : s \in Seq(Words)
  BY <1>2, SeqMonotonic
<1> QED
  BY <1>1, <1>3

LEMMA TwoOfThem ==
    ASSUME NEW S, NEW x \in S, NEW m \in S
    PROVE  <<x>> \o <<m>> = <<x, m>>
<1> DEFINE a == <<x>>
           c == <<m>>
           d == <<x, m>>
<1>1. /\ a \in Seq(S) /\ Len(a) = 1 /\ a[1] = x /\ c \in Seq(S) /\ Len(c) = 1 /\ c[1] = m
      /\ d \in Seq(S) /\ Len(d) = 2 /\ d[1] = x /\ d[2] = m
  OBVIOUS
<1> HIDE DEF a, c, d
<1>2. /\ a \o c \in Seq(S) /\ Len(a \o c) = Len(a) + Len(c)
      /\ \A i \in 1 .. Len(a) + Len(c) :
            (a \o c)[i] = IF i <= Len(a) THEN a[i] ELSE c[i - Len(a)]
  BY <1>1, ConcatProperties
<1>3. 1 + 1 = 2 /\ 2 - 1 = 1 /\ 1 \in 1 .. 2 /\ 2 \in 1 .. 2 /\ 1 <= 1 /\ ~(2 <= 1)
      /\ \A i \in 1 .. 2 : i = 1 \/ i = 2
  OBVIOUS
<1>4. Len(a \o c) = 2 /\ (a \o c)[1] = x /\ (a \o c)[2] = m
  BY <1>1, <1>2, <1>3
<1>5. a \o c = d
  BY <1>1, <1>2, <1>3, <1>4, SeqEqual
<1> QED
  BY <1>5 DEF a, c, d

\* normalizeBase changes what a text says in no other way than to cut slashes off its end.
LEMMA NormalizedSays ==
    ASSUME NEW t \in Seq(Words), NEW b \in NormalizeBase(t)
    PROVE  LET named == Address(Trim(t))
           IN  /\ Says(b, Words, named)
               /\ named.host # <<>> /\ " " \notin ToSet(named.host)
<1> DEFINE v == Trim(t)
           mark == IndexOf(v, "://")
           scheme == IF mark = 0 THEN <<"https">> ELSE SubSeq(v, 1, mark - 1)
           behind == From(v, mark + 1)
           s == TrimRight(behind, "/")
           host == Front1(s, "/")
           named == Address(v)
<1>1. v \in Seq(Words)
  BY TrimShape
<1>2. /\ scheme \in {<<"http">>, <<"https">>} /\ host # <<>> /\ " " \notin ToSet(host)
      /\ b = scheme \o <<"://">> \o s
  BY DEF NormalizeBase, Front1
<1>3. named.host = Front1(behind, "/") /\ named.path = Back1(behind, "/") /\ named.scheme = scheme
  BY AddressIs
<1> HIDE DEF v, named
<1>4. behind \in Seq(Words)
  <2>1. mark + 1 \in Nat /\ mark + 1 >= 1
    BY <1>1, IndexWithin
  <2> HIDE DEF mark
  <2> QED
    BY <1>1, <2>1, FromWithin
<1> HIDE DEF mark, scheme, behind
<1>5. /\ s \in Seq(Words) /\ Front1(s, "/") = Front1(behind, "/")
      /\ TrimRight(Back1(s, "/"), "/") = TrimRight(Back1(behind, "/"), "/")
  BY <1>4, TrimmedHalves
<1> HIDE DEF s, host
<1>6. PICK x \in {"http", "https"} : scheme = <<x>>
  BY <1>2
<1>7. <<x>> \o <<"://">> = <<x, "://">>
  <2>1. x \in Words /\ "://" \in Words
    BY SomeWords
  <2> QED
    BY ONLY <2>1, TwoOfThem
<1>8. b = <<x, "://">> \o s
  BY <1>2, <1>6, <1>7
<1>9. Says(b, Words, named)
  <2>1. /\ b = <<x, "://">> \o s /\ named.scheme = <<x>> /\ named.host = Front1(s, "/")
        /\ TrimRight(named.path, "/") = TrimRight(Back1(s, "/"), "/")
    BY <1>3, <1>5, <1>6, <1>8
  <2> QED
    BY <1>5, <2>1 DEF Says
<1>10. named.host = host
  BY <1>3, <1>5 DEF host
<1> QED
  BY <1>2, <1>9, <1>10 DEF named, v

\* Nor does anything change what an address of the configuration says.
LEMMA PresetSays ==
    ASSUME NEW b \in Seq(Words), b # <<>>, CheckBase(b)
    PROVE  Says(b, Words, Address(b))
<1>1. PICK x \in {"http", "https"} : Len(b) > 2 /\ IsPrefix(<<x, "://">>, b)
  BY DEF CheckBase
<1> DEFINE front == <<x, "://">>
           s == From(b, 3)
<1>2. x \in Words /\ x # "://" /\ "://" \in Words
  BY SomeWords
<1>3. front \in Seq(Words) /\ Len(front) = 2
  BY <1>2
<1>4. SubSeq(b, 1, 2) = front
  <2>1. SubSeq(b, 1, Len(front)) = SubSeq(front, 1, Len(front))
    BY <1>1 DEF IsPrefix
  <2> HIDE DEF front
  <2>2. SubSeq(front, 1, Len(front)) = front
    BY <1>3, SubSeqFull
  <2> QED
    BY <1>3, <2>1, <2>2
<1>5. Len(b) \in Nat /\ 1 \in 1 .. Len(b) + 1 /\ 2 \in 1 - 1 .. Len(b) /\ Len(b) \in 2 .. Len(b)
      /\ 2 + 1 = 3
  BY <1>1, LenProperties
<1>6. b = front \o s
  <2>1. SubSeq(b, 1, 2) \o SubSeq(b, 2 + 1, Len(b)) = SubSeq(b, 1, Len(b))
    BY <1>5, ConcatAdjacentSubSeq
  <2> HIDE DEF front
  <2> QED
    BY <1>4, <1>5, <2>1, SubSeqFull DEF From
<1>7. s \in Seq(Words)
  BY FromWithin
<1> HIDE DEF s
<1>8. Address(front \o s) = [scheme |-> <<x>>, host |-> Front1(s, "/"), path |-> Back1(s, "/")]
  BY <1>2, <1>7, MarkedAddress
<1>9. Address(b) = [scheme |-> <<x>>, host |-> Front1(s, "/"), path |-> Back1(s, "/")]
  BY <1>6, <1>8
<1>10. /\ Address(b).scheme = <<x>> /\ Address(b).host = Front1(s, "/")
       /\ TrimRight(Address(b).path, "/") = TrimRight(Back1(s, "/"), "/")
  <2> HIDE DEF front
  <2> DEFINE r == [scheme |-> <<x>>, host |-> Front1(s, "/"), path |-> Back1(s, "/")]
  <2>1. r.scheme = <<x>> /\ r.host = Front1(s, "/") /\ r.path = Back1(s, "/")
    OBVIOUS
  <2>2. Address(b) = r
    BY <1>9
  <2> HIDE DEF r
  <2> QED
    BY <2>1, <2>2
<1> QED
  BY <1>6, <1>7, <1>10 DEF Says

\* The address that is sent is the one that is meant, with the path behind its own.
LEMMA AddressSent ==
    ASSUME NEW t, NEW b, Says(b, Words, Address(t)), NEW p, IsPath(p)
    PROVE  LET named == Address(t)
               own == TrimRight(named.path, "/")
           IN  /\ named.scheme \in {<<"http">>, <<"https">>}
               /\ Address(BuildURL(b, p)) =
                     [named EXCEPT !.path = own \o (IF own = <<>> THEN p ELSE Unversioned(p))]
<1> DEFINE named == Address(t)
           own == TrimRight(named.path, "/")
           w == own \o (IF own = <<>> THEN p ELSE Unversioned(p))
<1>1. PICK x \in {"http", "https"}, s \in Seq(Words) :
         /\ b = <<x, "://">> \o s
         /\ named.scheme = <<x>> /\ named.host = Front1(s, "/")
         /\ TrimRight(named.path, "/") = TrimRight(Back1(s, "/"), "/")
  BY DEF Says
<1>2. /\ "://" \in Words /\ x \in Words /\ x # "://" /\ s \in Seq(Words)
      /\ p \in Seq(Words) /\ p # <<>> /\ p[1] = "/"
  <2>1. p \in Seq(STRING) /\ p # <<>> /\ Head(p) = "/"
    BY DEF IsPath
  <2> QED
    BY <2>1, SomeWords
<1>3. named = [scheme |-> named.scheme, host |-> named.host, path |-> named.path]
  BY AddressIs
<1>4. Address(BuildURL(<<x, "://">> \o s, p)) =
         [scheme |-> <<x>>, host |-> Front1(s, "/"),
          path |-> TrimRight(Back1(s, "/"), "/")
                   \o (IF TrimRight(Back1(s, "/"), "/") = <<>> THEN p ELSE Unversioned(p))]
  BY ONLY <1>2, BuiltAddress
<1>5. own = TrimRight(Back1(s, "/"), "/")
  BY <1>1
<1>6. Address(BuildURL(b, p)) = [scheme |-> named.scheme, host |-> named.host, path |-> w]
  BY <1>1, <1>4, <1>5
<1>7. [named EXCEPT !.path = w] = [scheme |-> named.scheme, host |-> named.host, path |-> w]
  <2> HIDE DEF named, w
  <2> QED
    BY <1>3
<1>8. named.scheme \in {<<"http">>, <<"https">>}
  BY <1>1
<1> QED
  BY <1>6, <1>7, <1>8

\* The bases of a configuration that Load accepts.
BasesAre(c) ==
    /\ Valid(c)
    /\ c.base \in Seq(STRING) /\ c.bases \in [Protocols -> Seq(STRING)]

LEMMA ProtocolIs ==
    \A p : Protocol(p) \in Protocols \cup {"other"}
BY DEF Protocol, Protocols

LEMMA PresetIs ==
    ASSUME NEW c, BasesAre(c), NEW p
    PROVE  LET preset == IF Protocol(p) # "other" /\ c.bases[Protocol(p)] # <<>>
                         THEN c.bases[Protocol(p)] ELSE c.base
               same == IF Protocol(p) \in DOMAIN c.bases /\ c.bases[Protocol(p)] # <<>>
                       THEN c.bases[Protocol(p)] ELSE c.base
           IN  /\ same = preset /\ preset \in Seq(STRING) /\ CheckBase(preset)
<1>1. DOMAIN c.bases = Protocols /\ "other" \notin Protocols
  BY DEF BasesAre, Protocols
<1>2. Protocol(p) \in DOMAIN c.bases <=> Protocol(p) # "other"
  BY <1>1, ProtocolIs
<1>3. \A q \in Protocols : c.bases[q] \in Seq(STRING) /\ CheckBase(c.bases[q])
  BY DEF BasesAre, Valid
<1>4. c.base \in Seq(STRING) /\ CheckBase(c.base)
  BY DEF BasesAre, Valid
<1> QED
  BY <1>1, <1>2, <1>3, <1>4

\* SentWhereDeclared of any request.
GoesWhereDeclared(h, p, r, c) ==
    LET wish == Trim(Get(h, "X-Upstream-Base"))
        wished == c.allowBase /\ wish # <<>>
        preset == IF Protocol(p) # "other" /\ c.bases[Protocol(p)] # <<>>
                  THEN c.bases[Protocol(p)] ELSE c.base
        named == Address(IF wished THEN wish ELSE preset)
        usable == named.host # <<>> /\ " " \notin ToSet(named.host)
        own == TrimRight(named.path, "/")
        behind == {k \in 3 .. Len(p) : IsVersion(p[2]) /\ p[k] = "/"}
    IN  /\ named.scheme \in {<<"http">>, <<"https">>}
        /\ wished => usable
        /\ usable => Address(r.url) =
                        [named EXCEPT !.path = own \o IF own = <<>> \/ behind = {} THEN p
                                                      ELSE From(p, Min(behind))]

\* The right place: what buildRequest makes of the base that resolveBase returned.
LEMMA RightPlace ==
    ASSUME NEW c, BasesAre(c), NEW h, Get(h, "X-Upstream-Base") \in Seq(STRING),
           NEW p, IsPath(p), NEW b \in ResolveBase(h, c, Protocol(p)),
           NEW r, r.url = BuildURL(b, p)
    PROVE  GoesWhereDeclared(h, p, r, c)
<1> DEFINE text == Get(h, "X-Upstream-Base")
           wish == Trim(text)
           wished == c.allowBase /\ wish # <<>>
           preset == IF Protocol(p) # "other" /\ c.bases[Protocol(p)] # <<>>
                     THEN c.bases[Protocol(p)] ELSE c.base
           t == IF wished THEN wish ELSE preset
           named == Address(t)
           own == TrimRight(named.path, "/")
           usable == named.host # <<>> /\ " " \notin ToSet(named.host)
           behind == {k \in 3 .. Len(p) : IsVersion(p[2]) /\ p[k] = "/"}
<1>1. b \in IF wished THEN NormalizeBase(text) ELSE {preset} \ {<<>>}
  BY PresetIs DEF ResolveBase
<1>2. Says(b, Words, named) /\ (wished => usable)
  <2>1. CASE wished
    <3>1. b \in NormalizeBase(text) /\ text \in Seq(Words) /\ t = Trim(text)
      BY <1>1, <2>1, SomeWords
    <3> QED
      BY <3>1, NormalizedSays
  <2>2. CASE ~wished
    <3>1. b = preset /\ preset # <<>> /\ t = preset
      BY <1>1, <2>2
    <3>2. preset \in Seq(Words) /\ CheckBase(preset)
      BY PresetIs, SomeWords
    <3>3. Says(preset, Words, Address(preset))
      BY <3>1, <3>2, PresetSays
    <3> QED
      BY <2>2, <3>1, <3>3
  <2> QED
    BY <2>1, <2>2
<1>3. /\ named.scheme \in {<<"http">>, <<"https">>}
      /\ Address(BuildURL(b, p)) =
            [named EXCEPT !.path = own \o (IF own = <<>> THEN p ELSE Unversioned(p))]
  <2>1. Says(b, Words, Address(t)) /\ IsPath(p)
    BY <1>2
  <2> HIDE DEF t
  <2> QED
    BY ONLY <2>1, AddressSent
<1>4. (IF own = <<>> THEN p ELSE Unversioned(p))
         = (IF own = <<>> \/ behind = {} THEN p ELSE From(p, Min(behind)))
  BY DEF Unversioned
<1>5. /\ named.scheme \in {<<"http">>, <<"https">>}
      /\ wished => usable
      /\ usable => Address(r.url) =
                      [named EXCEPT !.path = own \o IF own = <<>> \/ behind = {} THEN p
                                                    ELSE From(p, Min(behind))]
  <2> DEFINE one == IF own = <<>> THEN p ELSE Unversioned(p)
             two == IF own = <<>> \/ behind = {} THEN p ELSE From(p, Min(behind))
  <2>1. one = two
    BY <1>4
  <2>2. Address(r.url) = [named EXCEPT !.path = own \o one]
    BY <1>3
  <2> HIDE DEF one, own, named
  <2>3. Address(r.url) = [named EXCEPT !.path = own \o two]
    BY <2>1, <2>2
  <2> QED
    BY <1>2, <1>3, <2>3 DEF own, named
<1> QED
  BY <1>5 DEF GoesWhereDeclared

----------------------------------------------------------------------------
(* Lists of texts                                                          *)

\* Sequences of one kind put together are one of that kind.
LEMMA FlattenWithin ==
    ASSUME NEW S, NEW ss \in Seq(Seq(S))
    PROVE  FlattenSeq(ss) \in Seq(S)
<1> DEFINE N == Len(ss)
           V == Seq(S)
           b == CHOOSE b : b = [i \in 1 .. N |-> IF i = 1 THEN ss[i] ELSE b[i - 1] \o ss[i]]
<1>1. N \in Nat /\ \A i \in 1 .. N : ss[i] \in V
  BY LenProperties, ElementOfSeq
<1>2. FlattenSeq(ss) = IF N = 0 THEN ss ELSE b[N]
  BY DEF FlattenSeq
<1>3. CASE N = 0
  <2>1. ss = <<>>
    BY <1>3, EmptySeq
  <2>2. <<>> \in Seq(S)
    BY EmptySeq
  <2> QED
    BY <1>2, <1>3, <2>1, <2>2
<1>4. CASE N # 0
  <2> HIDE DEF N
  <2>1. 1 \in Nat /\ N \in Nat /\ 1 <= N /\ 1 \in 1 .. N /\ N \in 1 .. N
        /\ \A i \in 1 .. N : i # 1 => i - 1 \in 1 .. N
    BY <1>1, <1>4
  <2> DEFINE start == ss[1]
             step == [x \in (1 .. N) \X V |-> x[2] \o ss[x[1]]]
  <2>2. start \in V
    BY <1>1, <2>1
  <2>3. step \in [(1 .. N) \X V -> V]
    <3> SUFFICES ASSUME NEW i \in 1 .. N, NEW x \in V PROVE x \o ss[i] \in V
      OBVIOUS
    <3>1. ss[i] \in V
      BY <1>1
    <3> QED
      BY <3>1, ConcatProperties
  <2>4. \A i \in 1 .. N : \A x \in V : step[<<i, x>>] = x \o ss[i]
    OBVIOUS
  <2> HIDE DEF step, start, V
  <2>5. PICK d : Stepped(V, 1, N, start, step, d)
    <3>1. \E d : Stepped(V, 1, N, start, step, d)
      BY ONLY <2>1, <2>2, <2>3, ChainExists
    <3> QED
      BY <3>1
  <2>6. /\ d \in [1 .. N -> V]
        /\ \A i \in 1 .. N : d[i] = IF i = 1 THEN start ELSE step[<<i, d[i - 1]>>]
    BY <2>5 DEF Stepped
  <2>7. \A i \in 1 .. N : d[i] = IF i = 1 THEN ss[i] ELSE d[i - 1] \o ss[i]
    <3> SUFFICES ASSUME NEW i \in 1 .. N
                 PROVE  d[i] = IF i = 1 THEN ss[i] ELSE d[i - 1] \o ss[i]
      OBVIOUS
    <3>1. CASE i = 1
      BY <2>6, <3>1 DEF start
    <3>2. CASE i # 1
      <4>1. i - 1 \in 1 .. N
        BY <2>1, <3>2
      <4>2. d[i - 1] \in V
        BY <2>6, <4>1
      <4>3. step[<<i, d[i - 1]>>] = d[i - 1] \o ss[i]
        BY <2>4, <4>2
      <4> QED
        BY <2>6, <3>2, <4>3
    <3> QED
      BY <3>1, <3>2
  <2>8. d = [i \in 1 .. N |-> IF i = 1 THEN ss[i] ELSE d[i - 1] \o ss[i]]
    BY <2>6, <2>7
  <2>9. b = [i \in 1 .. N |-> IF i = 1 THEN ss[i] ELSE b[i - 1] \o ss[i]]
    BY <2>8
  <2> HIDE DEF b
  <2> DEFINE T == {i \in 1 .. N : b[i] \notin V}
             t == Min(T)
  <2>10. T = {}
    <3> SUFFICES ASSUME T # {} PROVE FALSE
      OBVIOUS
    <3>1. T \in SUBSET Nat /\ \A i \in 1 .. N : i \in T <=> b[i] \notin V
      BY <2>1
    <3>2. T \subseteq 1 .. N
      OBVIOUS
    <3> HIDE DEF T
    <3>3. t \in T /\ \A y \in T : t <= y
      BY <3>1, LeastNumber
    <3> HIDE DEF t
    <3>4. t \in 1 .. N /\ b[t] \notin V /\ ss[t] \in V
      BY <1>1, <3>1, <3>2, <3>3
    <3>5. b[t] = IF t = 1 THEN ss[t] ELSE b[t - 1] \o ss[t]
      BY <2>9, <3>4
    <3>6. t # 1
      BY <3>4, <3>5
    <3>7. t - 1 \in 1 .. N /\ ~(t <= t - 1)
      BY <2>1, <3>4, <3>6
    <3>8. b[t - 1] \in V
      BY <3>1, <3>3, <3>7
    <3>9. b[t - 1] \o ss[t] \in V
      <4> DEFINE x == b[t - 1]
                 y == ss[t]
      <4>1. x \in Seq(S) /\ y \in Seq(S)
        BY <3>4, <3>8 DEF V
      <4> HIDE DEF x, y
      <4>2. x \o y \in Seq(S)
        BY <4>1, ConcatProperties
      <4> QED
        BY <4>2 DEF x, y, V
    <3> QED
      BY <3>4, <3>5, <3>6, <3>9
  <2>11. b[N] \in V
    BY <2>1, <2>10
  <2> QED
    BY <1>2, <1>4, <2>11 DEF V
<1> QED
  BY <1>3, <1>4

\* A list of texts that is in parts.
LEMMA ItemsAre ==
    ASSUME NEW S, NEW s \in Seq(S), NEW c
    PROVE  Items(s, c) \in Seq(Seq(S)) /\ Len(Items(s, c)) \in Nat
           /\ DOMAIN Items(s, c) = 1 .. Len(Items(s, c))
<1> DEFINE F == Filled(s, c)
           at == Ascending(F)
           items == Items(s, c)
<1>1. F \in SUBSET (1 .. Len(s)) /\ IsFiniteSet(F) /\ Len(s) \in Nat
  BY FilledWithin, LenProperties
<1>2. F \in SUBSET Nat
  <2>1. \A k \in 1 .. Len(s) : k \in Nat
    BY <1>1
  <2> HIDE DEF F
  <2> QED
    BY <1>1, <2>1
<1>3. at \in Seq(F)
  BY <1>1, <1>2, AscendingMembers
<1>4. items = [m \in DOMAIN at |-> Trim(PartAt(s, c, at[m]))]
  BY DEF Items
<1>5. \A m \in DOMAIN items : items[m] \in Seq(S)
  BY ItemsWithin
<1> HIDE DEF items, F
<1> DEFINE N == Len(at)
<1>6. N \in Nat /\ DOMAIN at = 1 .. N
  BY <1>3, LenProperties
<1> HIDE DEF at, N
<1>7. items \in [1 .. N -> Seq(S)]
  BY <1>4, <1>5, <1>6
<1>8. items \in Seq(Seq(S)) /\ Len(items) = N
  BY <1>6, <1>7, FunctionIsSeq
<1>9. DOMAIN items = 1 .. N
  BY <1>7
<1> QED
  BY <1>6, <1>8, <1>9 DEF items

\* Lists of texts, and tables of them.
Lists == Seq(Seq(STRING))
IsTable(f) == \A x \in DOMAIN f : f[x] \in Lists

\* What is behind the equals signs are lists of texts.
LEMMA MapListIsTable ==
    ASSUME NEW e, NEW key, e[key] \in Seq(STRING)
    PROVE  IsTable(EnvMapList(e, key))
<1> DEFINE segs == Items(e[key], ";")
           N == Len(segs)
           Name(s) == Trim(SubSeq(s, 1, IndexOf(s, "=") - 1))
           Part(s) == Items(From(s, IndexOf(s, "=") + 1), "|")
           Parted(name1) == [j \in DOMAIN segs |-> IF Name(segs[j]) = name1 THEN Part(segs[j]) ELSE <<>>]
           Values(name1) == FlattenSeq(Parted(name1))
           names == {Name(segs[j]) : j \in DOMAIN segs} \ {<<>>}
<1>1. EnvMapList(e, key) = [x \in {y \in names : Values(y) # <<>>} |-> Values(x)]
  BY DEF EnvMapList
<1>2. segs \in Seq(Seq(STRING)) /\ N \in Nat /\ DOMAIN segs = 1 .. N
  BY ItemsAre
<1>3. \A j \in 1 .. N : segs[j] \in Seq(STRING)
  BY <1>2, ElementOfSeq
<1> HIDE DEF segs, N, names
<1>4. ASSUME NEW j \in 1 .. N PROVE Part(segs[j]) \in Seq(Seq(STRING))
  <2> DEFINE s == segs[j]
  <2>1. s \in Seq(STRING)
    BY <1>3
  <2> HIDE DEF s
  <2>2. From(s, IndexOf(s, "=") + 1) \in Seq(STRING)
    BY <2>1, SidesWithin
  <2>3. Part(s) \in Seq(Seq(STRING))
    BY <2>2, ItemsAre
  <2> QED
    BY <2>3 DEF s
<1>5. ASSUME NEW x PROVE Values(x) \in Seq(Seq(STRING))
  <2> DEFINE f == Parted(x)
  <2>1. f \in [1 .. N -> Seq(Seq(STRING))]
    <3>1. <<>> \in Seq(Seq(STRING))
      BY EmptySeq
    <3> HIDE DEF Part, Name
    <3> QED
      BY <1>2, <1>4, <3>1
  <2> HIDE DEF f
  <2>2. f \in Seq(Seq(Seq(STRING)))
    BY <1>2, <2>1, FunctionIsSeq
  <2>3. FlattenSeq(f) \in Seq(Seq(STRING))
    BY <2>2, FlattenWithin
  <2> QED
    BY <2>3 DEF f
<1> HIDE DEF Values
<1> QED
  BY <1>1, <1>5 DEF IsTable, Lists

\* The members of a finite set in some order.
LEMMA SomeOrder ==
    ASSUME NEW S, IsFiniteSet(S)
    PROVE  LET order == CHOOSE s \in SetToSeqs(S) : TRUE
           IN  order \in [1 .. Cardinality(S) -> S] /\ Cardinality(S) \in Nat
<1> DEFINE N == Cardinality(S)
<1>1. N \in Nat /\ ExistsBijection(1 .. N, S)
  BY FS_CardinalityType
<1>2. PICK f : f \in Bijection(1 .. N, S)
  BY <1>1 DEF ExistsBijection
<1>3. f \in [1 .. N -> S] /\ \A i, j \in 1 .. N : i # j => f[i] # f[j]
  BY <1>2 DEF Bijection, Injection, IsInjective
<1>4. f \in SetToSeqs(S)
  BY <1>3 DEF SetToSeqs
<1>5. (CHOOSE s \in SetToSeqs(S) : TRUE) \in SetToSeqs(S)
  BY <1>4
<1>6. \A s \in SetToSeqs(S) : s \in [1 .. N -> S]
  BY DEF SetToSeqs
<1> QED
  BY <1>1, <1>5, <1>6

\* FromStatic puts lists of texts together.
LEMMA StaticIsTable ==
    ASSUME NEW src, IsTable(src), IsFiniteSet(DOMAIN src)
    PROVE  FromStatic(src) \in [Kinds -> Seq(Seq(STRING))]
<1> DEFINE names(k) == {x \in DOMAIN src : k \in ParseKind(x)}
           order(k) == CHOOSE s \in SetToSeqs(names(k)) : TRUE
           all(k) == [j \in DOMAIN order(k) |-> src[order(k)[j]]]
<1>1. FromStatic(src) = [k \in Kinds |-> FlattenSeq(all(k))]
  BY DEF FromStatic
<1>2. ASSUME NEW k PROVE FlattenSeq(all(k)) \in Seq(Seq(STRING))
  <2> DEFINE S == names(k)
             N == Cardinality(S)
             o == order(k)
  <2>1. S \in SUBSET DOMAIN src
    OBVIOUS
  <2> HIDE DEF S
  <2>2. IsFiniteSet(S)
    BY <2>1, FS_Subset
  <2>3. o \in [1 .. N -> S] /\ N \in Nat
    <3>1. LET r == CHOOSE s \in SetToSeqs(S) : TRUE
          IN  r \in [1 .. Cardinality(S) -> S] /\ Cardinality(S) \in Nat
      BY <2>2, SomeOrder
    <3> QED
      BY <3>1 DEF S
  <2> HIDE DEF order
  <2> DEFINE f == all(k)
  <2>4. f \in [1 .. N -> Seq(Seq(STRING))]
    <3>1. \A j \in 1 .. N : o[j] \in DOMAIN src
      BY <2>1, <2>3
    <3>2. \A j \in 1 .. N : src[o[j]] \in Seq(Seq(STRING))
      BY <3>1 DEF IsTable, Lists
    <3>3. DOMAIN o = 1 .. N
      BY <2>3
    <3> HIDE DEF N
    <3> QED
      BY <3>2, <3>3
  <2> HIDE DEF f, N
  <2>5. f \in Seq(Seq(Seq(STRING)))
    BY <2>3, <2>4, FunctionIsSeq
  <2>6. FlattenSeq(f) \in Seq(Seq(STRING))
    BY <2>5, FlattenWithin
  <2> QED
    BY <2>6 DEF f
<1> HIDE DEF all
<1> QED
  BY <1>1, <1>2

----------------------------------------------------------------------------
(* Where and how much is sent                                              *)

LEMMA OneMoreText ==
    ASSUME NEW S, NEW s \in Seq(S), NEW t \in S
    PROVE  Append(s, t) \in Seq(S) /\ <<t>> \in Seq(S)
OBVIOUS

LEMMA ListHas ==
    ASSUME NEW S, NEW s \in Seq(S)
    PROVE  \A t \in ToSet(s) : t \in S
BY LenProperties, ElementOfSeq DEF ToSet

LEMMA CharTexts ==
    \A s \in Seq(Chars) : s \in Seq(STRING)
BY RankAssumption, SeqMonotonic

\* What Load makes of texts.
LEMMA LoadedTexts ==
    ASSUME NEW e, \A k \in Keys : e[k] \in Seq(Chars)
    PROVE  LET c == ConfigOf(e)
           IN  /\ c.base \in Seq(STRING) /\ c.bases \in [Protocols -> Seq(STRING)]
               /\ IsTable(c.models) /\ c.fallback \in Lists
               /\ IsTable(c.capabilities) /\ IsFiniteSet(DOMAIN c.capabilities)
<1>1. \A k \in Keys : e[k] \in Seq(STRING)
  BY CharTexts
<1>2. ASSUME NEW k \in Keys PROVE Base(e, k) \in Seq(STRING)
  <2>1. Trim(e[k]) \in Seq(STRING)
    BY <1>1, TrimShape
  <2>2. TrimRight(Trim(e[k]), "/") \in Seq(STRING)
    BY <2>1, TrimRightCuts
  <2> QED
    BY <2>2 DEF Base, EnvStr
<1>3. /\ {"UPSTREAM_BASE", "MODEL_MAP", "MODEL_MAP_FALLBACK", "MODEL_CAPABILITY"} \subseteq Keys
      /\ \A p \in Protocols : BaseKey[p] \in Keys
  BY DEF Keys
<1> DEFINE c == ConfigOf(e)
<1>4. /\ c.base = Base(e, "UPSTREAM_BASE")
      /\ c.bases = [p \in Protocols |-> Base(e, BaseKey[p])]
      /\ c.models = EnvMapList(e, "MODEL_MAP")
      /\ c.fallback = EnvPipeList(e, "MODEL_MAP_FALLBACK")
      /\ c.capabilities = EnvMapList(e, "MODEL_CAPABILITY")
  BY DEF ConfigOf
<1> HIDE DEF c
<1>5. c.base \in Seq(STRING) /\ c.bases \in [Protocols -> Seq(STRING)]
  BY <1>2, <1>3, <1>4
<1>6. IsTable(c.models) /\ IsTable(c.capabilities)
  <2>1. e["MODEL_MAP"] \in Seq(STRING) /\ e["MODEL_CAPABILITY"] \in Seq(STRING)
    BY <1>1, <1>3
  <2>2. IsTable(EnvMapList(e, "MODEL_MAP")) /\ IsTable(EnvMapList(e, "MODEL_CAPABILITY"))
    BY <2>1, MapListIsTable
  <2> QED
    BY <1>4, <2>2
<1>7. IsFiniteSet(DOMAIN c.capabilities)
  <2>1. e["MODEL_CAPABILITY"] \in Seq(Chars)
    BY <1>3
  <2>2. Named(EnvMapList(e, "MODEL_CAPABILITY"))
    BY <2>1, MapListIsNamed
  <2> QED
    BY <1>4, <2>2 DEF Named
<1>8. c.fallback \in Lists
  <2> DEFINE t == e["MODEL_MAP_FALLBACK"]
  <2>1. t \in Seq(STRING)
    BY <1>1, <1>3
  <2> HIDE DEF t
  <2>2. Items(t, "|") \in Seq(Seq(STRING))
    BY <2>1, ItemsAre
  <2> QED
    BY <1>4, <2>2 DEF t, EnvPipeList, Lists
<1> QED
  BY <1>5, <1>6, <1>7, <1>8 DEF c

\* All that a request picks its model from are lists of texts, and until the request is
\* sent the base is the one that resolveBase finds for it.
SentInv ==
    /\ epc = "ready" => /\ BasesAre(config) /\ IsTable(config.models) /\ config.fallback \in Lists
                        /\ IsTable(config.capabilities) /\ IsFiniteSet(DOMAIN config.capabilities)
    /\ IsTable(static.rules) /\ static.fallback \in Lists
    /\ raw \in Seq(STRING) /\ IsTable(rules) /\ answer \in Lists
    /\ capStatic \in [Kinds -> Lists]
    /\ rest \in Seq(STRING) /\ caps \in [Kinds -> Lists]
    /\ model \in Seq(STRING)
    /\ opc \in {"map", "pick", "caps", "route", "send"} =>
          base \in ResolveBase(client, config, Protocol(path))
    /\ SentInFull

LEMMA SentBegins ==
    ASSUME OutBegin
    PROVE  SentInv
<1>1. PICK s : OutInit(s)
  BY DEF OutBegin
<1>2. Given
  BY DEF OutBegin
<1>3. /\ epc = "lines" /\ static = [rules |-> NoRules, fallback |-> <<>>]
      /\ raw = header /\ rules = NoRules /\ answer = <<>>
      /\ capStatic = NoCaps /\ rest = capHeader /\ caps = NoCaps /\ opc = "load" /\ model = <<>>
  BY <1>1 DEF OutInit, EnvInit, MapInit, CapInit
<1>4. header \in Seq(STRING) /\ capHeader \in Seq(STRING)
  BY <1>2, GivenTexts DEF Given
<1>5. <<>> \in Lists /\ <<>> \in Seq(STRING)
  BY EmptySeq DEF Lists
<1>6. IsTable(NoRules) /\ NoCaps \in [Kinds -> Lists]
  BY <1>5 DEF IsTable, NoRules, NoCaps
<1>7. static.rules = NoRules /\ static.fallback = <<>>
  BY <1>3
<1>8. SentInFull
  BY <1>3 DEF SentInFull
<1> QED
  BY <1>3, <1>4, <1>5, <1>6, <1>7, <1>8 DEF SentInv

\* Reading the configuration.
LEMMA SentLoads ==
    ASSUME Given, EnvInv, LookInv, SentInv, EnvNext
    PROVE  epc' = "ready" =>
              /\ BasesAre(config') /\ IsTable(config'.models) /\ config'.fallback \in Lists
              /\ IsTable(config'.capabilities) /\ IsFiniteSet(DOMAIN config'.capabilities)
<1>1. CASE LoadLine
  BY <1>1 DEF LoadLine
<1>2. CASE BadLine
  BY <1>2 DEF BadLine
<1>3. CASE Load
  <2> DEFINE c == ConfigOf(env)
  <2>1. config' = c /\ (epc' = "ready" => Valid(c))
    BY <1>3 DEF Load
  <2>2. \A k \in Keys : env[k] \in Seq(Chars)
    BY DEF LookInv
  <2>3. /\ c.base \in Seq(STRING) /\ c.bases \in [Protocols -> Seq(STRING)]
        /\ IsTable(c.models) /\ c.fallback \in Lists
        /\ IsTable(c.capabilities) /\ IsFiniteSet(DOMAIN c.capabilities)
    BY <2>2, LoadedTexts
  <2> HIDE DEF c
  <2> QED
    BY <2>1, <2>3 DEF BasesAre
<1> QED
  BY <1>1, <1>2, <1>3 DEF EnvNext

\* The look-up takes its answer from the tables.
LEMMA SentMaps ==
    ASSUME Given, MapInv, LookInv, SentInv, MapNext
    PROVE  /\ static' = static /\ raw' \in Seq(STRING) /\ IsTable(rules') /\ answer' \in Lists
<1>0. /\ raw \in Seq(STRING) /\ IsTable(rules) /\ answer \in Lists
      /\ IsTable(static.rules) /\ static.fallback \in Lists /\ <<>> \in Lists /\ <<>> \in Seq(STRING)
  BY EmptySeq DEF SentInv, Lists
<1>1. CASE NoHeader \/ HeaderMiss
  BY <1>0, <1>1 DEF NoHeader, HeaderMiss, UseStatic, given
<1>2. CASE ParseSegment
  <2> DEFINE semi == IndexOf(raw, ";")
             part == IF semi = 0 THEN raw ELSE SubSeq(raw, 1, semi - 1)
             seg == Trim(part)
             colon == IndexOf(seg, ":")
             pub == Trim(SubSeq(seg, 1, colon - 1))
             up == Trim(From(seg, colon + 1))
             good == colon > 0 /\ ValidToken(pub) /\ ValidToken(up)
  <2>1. /\ raw' = IF semi = 0 THEN <<>> ELSE From(raw, semi + 1)
        /\ rules' = IF good
                    THEN [r \in DOMAIN rules \cup {pub} |->
                             IF r # pub THEN rules[r]
                             ELSE IF r \in DOMAIN rules
                             THEN Append(rules[r], up) ELSE <<up>>]
                    ELSE rules
        /\ static' = static /\ answer' = answer
    BY <1>2 DEF ParseSegment, given
  <2>2. part \in Seq(STRING) /\ From(raw, semi + 1) \in Seq(STRING)
    BY <1>0, SidesWithin
  <2> HIDE DEF part
  <2>3. seg \in Seq(STRING)
    BY <2>2, TrimShape
  <2> HIDE DEF seg
  <2>4. up \in Seq(STRING)
    BY <2>3, SidesWithin
  <2> HIDE DEF up, pub, good, semi
  <2>5. \A r \in DOMAIN rules : rules[r] \in Lists
    BY <1>0 DEF IsTable, Lists
  <2>6. \A s \in Lists : Append(s, up) \in Lists /\ <<up>> \in Lists
    BY <2>4, OneMoreText DEF Lists
  <2>7. <<up>> \in Lists
    BY <1>0, <2>6
  <2>8. \A r \in DOMAIN rules' : rules'[r] \in Lists
    BY <2>1, <2>5, <2>6, <2>7
  <2> QED
    BY <1>0, <2>1, <2>2, <2>8 DEF IsTable, Lists
<1>3. CASE EndParse \/ Build \/ NotExact
  BY <1>0, <1>3 DEF EndParse, Build, NotExact, given
<1>4. CASE LookupExact
  <2>1. name \in DOMAIN rules /\ answer' = rules[name] /\ static' = static /\ raw' = raw
        /\ rules' = rules
    BY <1>4 DEF LookupExact, Answer, given
  <2> QED
    BY <1>0, <2>1 DEF IsTable, Lists
<1>5. CASE LookupWild
  <2>1. /\ pc = "wild" /\ n <= Len(wild) /\ static' = static /\ raw' = raw /\ rules' = rules
        /\ answer' = rules[wild[n].raw] \/ answer' = answer
    BY <1>5 DEF LookupWild, Answer, given
  <2>2. Sorted(wild, rules) /\ n \in Nat \ {0} /\ invalid = <<>> /\ header \in Seq(Chars)
    BY <2>1 DEF LookInv, MapInv, Given
  <2>3. Named(rules)
    BY <2>1, <2>2, TableIsNamed
  <2>4. /\ Len(wild) \in Nat /\ DOMAIN wild = 1 .. Len(wild)
        /\ \A k \in DOMAIN wild : \E r \in WildRules(rules) : wild[k] = Compile(r)
    BY <2>2, <2>3, SortedIs
  <2>5. n \in DOMAIN wild
    <3> DEFINE l == Len(wild)
               k == n
    <3>1. l \in Nat /\ k \in Nat /\ k # 0 /\ k <= l /\ DOMAIN wild = 1 .. l
      BY <2>1, <2>2, <2>4
    <3> HIDE DEF l, k
    <3>2. k \in 1 .. l
      BY <3>1
    <3> QED
      BY <3>1, <3>2 DEF k
  <2>6. PICK r \in WildRules(rules) : wild[n] = Compile(r)
    BY <2>4, <2>5
  <2>7. wild[n].raw = r /\ r \in DOMAIN rules
    BY <2>3, <2>6, WildRuleIs
  <2>8. rules[wild[n].raw] \in Lists
    BY <1>0, <2>7 DEF IsTable, Lists
  <2> QED
    BY <1>0, <2>1, <2>8
<1>6. CASE LookupFallback
  BY <1>0, <1>6 DEF LookupFallback, Answer, given
<1> QED
  BY <1>1, <1>2, <1>3, <1>4, <1>5, <1>6 DEF MapNext

\* The capabilities take their models from the header or from the configuration.
LEMMA SentFinds ==
    ASSUME SentInv, CapNext
    PROVE  capStatic' = capStatic /\ rest' \in Seq(STRING) /\ caps' \in [Kinds -> Lists]
<1>0. /\ capStatic \in [Kinds -> Lists] /\ rest \in Seq(STRING) /\ caps \in [Kinds -> Lists]
      /\ <<>> \in Seq(STRING)
  BY EmptySeq DEF SentInv
<1>1. CASE ParsePart
  <2> DEFINE semi == IndexOf(rest, ";")
             part == IF semi = 0 THEN rest ELSE SubSeq(rest, 1, semi - 1)
             seg == Trim(part)
             colon == IndexOf(seg, ":")
             up == Trim(From(seg, colon + 1))
             kinds == IF colon = 0 \/ up = <<>> THEN {}
                      ELSE ParseKind(SubSeq(seg, 1, colon - 1))
  <2>1. /\ rest' = IF semi = 0 THEN <<>> ELSE From(rest, semi + 1)
        /\ caps' = [k \in Kinds |-> IF k \in kinds THEN Append(caps[k], up) ELSE caps[k]]
        /\ capStatic' = capStatic
    BY <1>1 DEF ParsePart
  <2>2. part \in Seq(STRING) /\ From(rest, semi + 1) \in Seq(STRING)
    BY <1>0, SidesWithin
  <2> HIDE DEF part
  <2>3. seg \in Seq(STRING)
    BY <2>2, TrimShape
  <2> HIDE DEF seg
  <2>4. up \in Seq(STRING)
    BY <2>3, SidesWithin
  <2> HIDE DEF up, kinds, semi
  <2>5. \A s \in Lists : Append(s, up) \in Lists
    BY <2>4, OneMoreText DEF Lists
  <2>6. caps' \in [Kinds -> Lists]
    BY <1>0, <2>1, <2>5
  <2> QED
    BY <1>0, <2>1, <2>2, <2>6
<1>2. CASE ResolveCapMap
  BY <1>0, <1>2 DEF ResolveCapMap
<1>3. CASE Detect \/ Scan \/ EndScan
  BY <1>0, <1>3 DEF Detect, Scan, EndScan
<1> QED
  BY <1>1, <1>2, <1>3 DEF CapNext

\* A first value is a text.
LEMMA FieldText ==
    ASSUME NEW h, IsHeader(h), NEW f
    PROVE  Get(h, f) \in Seq(STRING)
<1>1. CASE f \in DOMAIN h
  <2>1. h[f] \in Seq(Seq(STRING)) /\ h[f] # <<>>
    BY <1>1 DEF IsHeader
  <2>2. Head(h[f]) \in Seq(STRING)
    BY <2>1, HeadTailProperties
  <2> QED
    BY <1>1, <2>2 DEF Get
<1>2. CASE f \notin DOMAIN h
  BY <1>2, EmptySeq DEF Get
<1> QED
  BY <1>1, <1>2

\* What is sent says its own length.
LEMMA LengthSent ==
    ASSUME NEW m \in Seq(STRING), NEW c
    PROVE  BuildRequest(c, BodyLength(m)).length = BodyLength(m)
           /\ BuildRequest(c, BodyLength(m)).url = BuildURL(base, path)
<1>1. BodyLength(m) # 0
  BY LenProperties DEF BodyLength
<1> DEFINE l == BodyLength(m)
<1> HIDE DEF l
<1>2. BuildRequest(c, l).length = (IF l = 0 THEN NoLength ELSE l)
      /\ BuildRequest(c, l).url = BuildURL(base, path)
  BY DEF BuildRequest
<1> QED
  BY <1>1, <1>2 DEF l

LEMMA SentStep ==
    ASSUME OutInv, LookInv, SentInv, [OutNext]_outvars
    PROVE  SentInv'
<1>0. Given /\ EnvInv /\ MapInv /\ RouteInv
  BY DEF OutInv
<1>1. CASE Configure
  <2>1. EnvNext /\ UNCHANGED <<mapvars, capvars, hdrvars, model, capUsed>>
        /\ opc' \in {"load", "arrive", "refused"}
    BY <1>1 DEF Configure
  <2>2. epc' = "ready" =>
              /\ BasesAre(config') /\ IsTable(config'.models) /\ config'.fallback \in Lists
              /\ IsTable(config'.capabilities) /\ IsFiniteSet(DOMAIN config'.capabilities)
    BY <1>0, <2>1, SentLoads
  <2>3. SentInFull'
    BY <2>1 DEF SentInFull
  <2> QED
    BY <2>1, <2>2, <2>3 DEF SentInv, mapvars, given, capvars
<1>2. CASE Arrive
  <2>1. /\ opc = "arrive" /\ opc' \in {"refused", "map"} /\ UNCHANGED envvars
        /\ static' = [rules |-> config.models, fallback |-> config.fallback]
        /\ capStatic' = FromStatic(config.capabilities)
        /\ opc' = "map" => base' \in ResolveBase(client, config, Protocol(path))
        /\ UNCHANGED <<raw, rules, answer, rest, caps, model, client, path>>
    BY <1>2 DEF Arrive
  <2>2. epc = "ready"
    BY <1>0, <2>1 DEF RouteInv
  <2>3. IsTable(static'.rules) /\ static'.fallback \in Lists
    BY <2>1, <2>2 DEF SentInv
  <2>4. capStatic' \in [Kinds -> Lists]
    BY <2>1, <2>2, StaticIsTable DEF SentInv, Lists
  <2>5. SentInFull'
    BY <2>1 DEF SentInFull
  <2>6. opc' \in {"map", "pick", "caps", "route", "send"} =>
          base' \in ResolveBase(client', config', Protocol(path'))
    BY <2>1 DEF envvars
  <2> QED
    BY <2>1, <2>3, <2>4, <2>5, <2>6 DEF SentInv, envvars
<1>3. CASE MapModel
  <2>1. /\ opc = "map" /\ opc' \in {"pick", "refused", "map"} /\ MapNext
        /\ UNCHANGED <<envvars, capvars, hdrvars, model, capUsed>>
    BY <1>3 DEF MapModel
  <2>2. static' = static /\ raw' \in Seq(STRING) /\ IsTable(rules') /\ answer' \in Lists
    BY <1>0, <2>1, SentMaps
  <2>3. SentInFull'
    BY <2>1 DEF SentInFull
  <2> QED
    BY <2>1, <2>2, <2>3 DEF SentInv, envvars, capvars, hdrvars
<1>4. CASE Pick
  <2>1. /\ opc = "pick" /\ opc' \in {"refused", "caps"}
        /\ UNCHANGED <<envvars, mapvars, hdrvars, capStatic, rest, caps>>
        /\ model' = model \/ model' \in IF kind = "none" THEN {name} ELSE ToSet(answer)
    BY <1>4 DEF Pick
  <2>2. answer \in Seq(Seq(STRING)) /\ name \in Seq(STRING) /\ model \in Seq(STRING)
    BY <1>0, CharTexts DEF SentInv, Lists, Given
  <2>3. model' \in Seq(STRING)
    BY <2>1, <2>2, ListHas
  <2>4. SentInFull'
    BY <2>1 DEF SentInFull
  <2> QED
    BY <2>1, <2>3, <2>4 DEF SentInv, envvars, mapvars, given, hdrvars
<1>5. CASE FindCapabilities
  <2>1. /\ opc = "caps" /\ CapNext /\ opc' \in {"route", "caps"}
        /\ UNCHANGED <<envvars, mapvars, hdrvars, model, capUsed>>
    BY <1>5 DEF FindCapabilities
  <2>2. capStatic' = capStatic /\ rest' \in Seq(STRING) /\ caps' \in [Kinds -> Lists]
    BY <2>1, SentFinds
  <2>3. SentInFull'
    BY <2>1 DEF SentInFull
  <2> QED
    BY <2>1, <2>2, <2>3 DEF SentInv, envvars, mapvars, given, hdrvars
<1>6. CASE RouteFiles
  <2>1. /\ opc = "route" /\ opc' = "send" /\ UNCHANGED <<envvars, mapvars, capvars, hdrvars>>
        /\ model' = model \/ model' \in ToSet(caps["file"])
    BY <1>6 DEF RouteFiles
  <2>2. caps["file"] \in Seq(Seq(STRING)) /\ model \in Seq(STRING)
    BY DEF SentInv, Lists, Kinds
  <2>3. model' \in Seq(STRING)
    BY <2>1, <2>2, ListHas
  <2>4. SentInFull'
    BY <2>1 DEF SentInFull
  <2> QED
    BY <2>1, <2>3, <2>4 DEF SentInv, envvars, mapvars, given, capvars, hdrvars
<1>7. CASE SendRequest
  <2>1. /\ opc = "send" /\ opc' = "answer" /\ UNCHANGED <<envvars, mapvars, capvars, model>>
        /\ sent' = BuildRequest(config, BodyLength(model))
        /\ UNCHANGED <<client, path, base>>
    BY <1>7 DEF SendRequest, Send
  <2>2. epc = "ready"
    BY <1>0, <2>1 DEF RouteInv
  <2>3. config = DeclaredConfig /\ DeclaredConfig' = DeclaredConfig
    BY <1>0, <2>1, <2>2, EnvStays DEF EnvInv
  <2>4. /\ BasesAre(config) /\ base \in ResolveBase(client, config, Protocol(path))
        /\ model \in Seq(STRING)
    BY <2>1, <2>2 DEF SentInv
  <2>5. sent'.length = BodyLength(model) /\ sent'.url = BuildURL(base, path)
    BY <2>1, <2>4, LengthSent
  <2>6. Get(client, "X-Upstream-Base") \in Seq(STRING) /\ IsPath(path)
    BY <1>0, FieldText DEF Given
  <2>7. GoesWhereDeclared(client, path, sent', config)
    BY <2>4, <2>5, <2>6, RightPlace
  <2>8. GoesWhereDeclared(client', path', sent', DeclaredConfig')
    BY <2>1, <2>3, <2>7
  <2>9. SentWhereDeclared(DeclaredConfig)'
    BY <2>8 DEF GoesWhereDeclared, SentWhereDeclared
  <2>10. sent'.length = BodyLength(model')
    BY <2>1, <2>5
  <2>11. SentInFull'
    BY <2>9, <2>10 DEF SentInFull, BodyLength
  <2> QED
    BY <2>1, <2>11 DEF SentInv, envvars, mapvars, given, capvars
<1>8. CASE ReplyToClient
  <2>1. /\ opc' = "done" /\ UNCHANGED <<envvars, mapvars, capvars, model>>
    BY <1>8 DEF ReplyToClient
  <2>2. SentInFull'
    BY <2>1 DEF SentInFull
  <2> QED
    BY <2>1, <2>2 DEF SentInv, envvars, mapvars, given, capvars
<1>9. CASE UNCHANGED outvars
  <2>1. /\ UNCHANGED <<envvars, mapvars, capvars, hdrvars>>
        /\ opc' = opc /\ model' = model
    BY <1>9 DEF outvars
  <2>2. DeclaredConfig' = DeclaredConfig
    BY <1>0, <2>1, EnvStays
  <2>3. opc = "answer" => /\ GoesWhereDeclared(client, path, sent, DeclaredConfig)
                          /\ sent.length = BodyLength(model)
    BY DEF SentInv, SentInFull, GoesWhereDeclared, SentWhereDeclared
  <2>4. opc' = "answer" => /\ GoesWhereDeclared(client', path', sent', DeclaredConfig')
                           /\ sent'.length = BodyLength(model')
    BY <2>1, <2>2, <2>3 DEF hdrvars
  <2>5. SentInFull'
    BY <2>4 DEF SentInFull, GoesWhereDeclared, SentWhereDeclared, BodyLength
  <2> QED
    BY <2>1, <2>5 DEF SentInv, envvars, mapvars, given, capvars, hdrvars
<1> QED
  BY <1>1, <1>2, <1>3, <1>4, <1>5, <1>6, <1>7, <1>8, <1>9 DEF OutNext

\* What a request that is not sent yet is made of, whatever will become of it.
THEOREM SentInvHolds == OutSpec => []SentInv
<1>1. OutBegin => SentInv
  BY SentBegins
<1>2. OutInv /\ LookInv /\ SentInv /\ [OutNext]_outvars => SentInv'
  BY SentStep
<1> QED
  BY <1>1, <1>2, OutInvHolds, LookInvHolds, PTL DEF OutSpec

\* What is sent goes to the upstream the request names, if it may name one, else to the
\* one the configuration names for the protocol or for all, with the path it came with
\* behind the base's own and one version at most; and the length it announces is that
\* of the body that names the model it is sent to (credential.go:124-205,
\* gateway.go:559-601, 713-768).
THEOREM SentToTheRightPlace == OutSpec => []SentInFull
<1>1. SentInv => SentInFull
  BY DEF SentInv
<1> QED
  BY <1>1, SentInvHolds, PTL
===============================================================================
