-------------------------- MODULE EventStreamProofs --------------------------
(***************************************************************************)
(* What is proved of PipeSSE for every text, every size of the reader's    *)
(* buffer and every limit for a line that is a whole number of buffers: it *)
(* keeps the promise of LineRelay; and, no line being as long as the       *)
(* limit, what the client gets is the text with its lines sanitised one by *)
(* one (RelayIsTheText), and no event that is complete is kept from it     *)
(* (EventsGoOut).  The second half stands on the first: TextInv is shown   *)
(* to survive the steps of LineRelay, which are all that PipeSSE takes.    *)
(***************************************************************************)
EXTENDS EventStream, SequenceTheorems, WellFoundedInduction, TLAPS

----------------------------------------------------------------------------
(* Texts and their first newline                                           *)

LEMMA LeastNumber ==
    ASSUME NEW T \in SUBSET Nat, T # {}
    PROVE  Min(T) \in T /\ \A y \in T : Min(T) <= y
<1>1. PICK x \in T : \A y \in T : ~(<<y, x>> \in OpToRel(<, Nat))
  BY NatLessThanWellFounded, WFMin
<1>2. \A y \in T : x <= y
  <2> SUFFICES ASSUME NEW y \in T PROVE x <= y
    OBVIOUS
  <2>1. x \in Nat /\ y \in Nat
    OBVIOUS
  <2>2. ~(y < x)
    BY <1>1, <2>1 DEF OpToRel
  <2> QED
    BY <2>1, <2>2
<1>3. \E m \in T : \A y \in T : m <= y
  BY <1>2
<1> QED
  BY <1>3 DEF Min

LEMMA FirstNewline ==
    ASSUME NEW s \in Seq(Chars)
    PROVE  /\ Newline(s) \in 0 .. Len(s)
           /\ Newline(s) = 0 => Relay!NoNewline(s)
           /\ Newline(s) > 0 => /\ s[Newline(s)] = "n"
                                /\ \A j \in 1 .. Newline(s) - 1 : s[j] # "n"
<1> DEFINE at == {k \in DOMAIN s : s[k] = "n"}
<1>1. DOMAIN s = 1 .. Len(s) /\ Len(s) \in Nat
  BY LenProperties
<1>2. CASE at = {}
  BY <1>1, <1>2 DEF Newline, Relay!NoNewline
<1>3. CASE at # {}
  <2>1. at \in SUBSET Nat
    BY <1>1
  <2>2. Min(at) \in at /\ \A y \in at : Min(at) <= y
    BY <1>3, <2>1, LeastNumber
  <2> DEFINE m == Newline(s)
  <2>3. m = Min(at)
    BY <1>3 DEF Newline
  <2>4. m \in at /\ \A y \in at : m <= y
    BY <2>2, <2>3
  <2>5. m \in 1 .. Len(s) /\ s[m] = "n"
    BY <1>1, <2>4
  <2>6. ASSUME NEW j \in 1 .. m - 1 PROVE s[j] # "n"
    <3>1. j \in 1 .. Len(s) /\ j < m
      BY <1>1, <2>5
    <3>2. s[j] = "n" => j \in at
      BY <1>1, <3>1
    <3> HIDE DEF at, m
    <3>3. j \in at => m <= j
      BY <2>4
    <3> QED
      BY <2>5, <3>1, <3>2, <3>3
  <2> QED
    BY <1>1, <2>5, <2>6
<1> QED
  BY <1>2, <1>3

\* A text is taken apart at a newline and put together again.
LEMMA CutAtNewline ==
    ASSUME NEW s \in Seq(Chars), NEW k \in 1 .. Len(s), s[k] = "n"
    PROVE  LET a == SubSeq(s, 1, k - 1)  b == SubSeq(s, k + 1, Len(s))
           IN  /\ a \in Seq(Chars) /\ b \in Seq(Chars) /\ Len(a) = k - 1
               /\ \A j \in 1 .. k - 1 : a[j] = s[j]
               /\ s = a \o (<<"n">> \o b)
<1> DEFINE a == SubSeq(s, 1, k - 1)
           b == SubSeq(s, k + 1, Len(s))
<1>1. Len(s) \in Nat /\ \A i \in 1 .. Len(s) : s[i] \in Chars
  BY LenProperties, ElementOfSeq
<1>2. /\ a \in Seq(Chars) /\ Len(a) = k - 1
      /\ \A j \in 1 .. k - 1 : a[j] = s[j]
  BY <1>1, SubSeqProperties
<1>3. /\ b \in Seq(Chars) /\ Len(b) = Len(s) - k
      /\ \A j \in 1 .. Len(s) - k : b[j] = s[k + j]
  BY <1>1, SubSeqProperties
<1>4. s = a \o (<<"n">> \o b)
  <2> DEFINE c == <<"n">> \o b
             t == a \o c
  <2>0. "n" \in Chars
    BY DEF Chars
  <2>1. /\ <<"n">> \in Seq(Chars) /\ Len(<<"n">>) = 1 /\ <<"n">>[1] = "n"
    BY <2>0
  <2>2. /\ c \in Seq(Chars) /\ Len(c) = 1 + Len(b)
        /\ \A i \in 1 .. 1 + Len(b) : c[i] = IF i <= 1 THEN "n" ELSE b[i - 1]
    BY <1>3, <2>1, ConcatProperties
  <2> HIDE DEF a, b, c
  <2>3. /\ t \in Seq(Chars) /\ Len(t) = Len(a) + Len(c)
        /\ \A i \in 1 .. Len(a) + Len(c) :
              t[i] = IF i <= Len(a) THEN a[i] ELSE c[i - Len(a)]
    BY <1>2, <2>2, ConcatProperties
  <2> HIDE DEF t
  <2>4. Len(t) = Len(s)
    BY <1>1, <1>2, <1>3, <2>2, <2>3
  <2>5. ASSUME NEW i \in 1 .. Len(s) PROVE s[i] = t[i]
    <3>1. CASE i < k
      <4>1. i \in 1 .. Len(a) /\ i \in 1 .. Len(a) + Len(c) /\ i \in 1 .. k - 1
        BY <1>1, <1>2, <1>3, <2>2, <3>1
      <4> QED
        BY <1>2, <2>3, <4>1
    <3>2. CASE i = k
      BY <1>1, <1>2, <1>3, <2>2, <2>3, <3>2
    <3>3. CASE i > k
      <4>1. i \in 1 .. Len(a) + Len(c) /\ ~(i <= Len(a)) /\ i - Len(a) = (i - k) + 1
        BY <1>1, <1>2, <1>3, <2>2, <3>3
      <4>2. (i - k) + 1 \in 1 .. 1 + Len(b) /\ ~((i - k) + 1 <= 1)
            /\ i - k \in 1 .. Len(s) - k
            /\ ((i - k) + 1) - 1 = i - k /\ k + (i - k) = i
        BY <1>1, <1>3, <3>3
      <4>3. t[i] = c[(i - k) + 1]
        BY <2>3, <4>1
      <4>4. c[(i - k) + 1] = b[i - k]
        BY <2>2, <4>2
      <4>5. b[i - k] = s[i]
        BY <1>3, <4>2
      <4> QED
        BY <4>3, <4>4, <4>5
    <3> QED
      BY <3>1, <3>2, <3>3
  <2>6. s = t
    BY <2>3, <2>4, <2>5, SeqEqual
  <2> QED
    BY <2>6 DEF t, c
<1> QED
  BY <1>2, <1>3, <1>4

\* The first part of a text and the rest of it.
LEMMA CutAfter ==
    ASSUME NEW a \in Seq(Chars), NEW b \in Seq(Chars)
    PROVE  /\ Len(a \o b) = Len(a) + Len(b)
           /\ SubSeq(a \o b, 1, Len(a)) = a
           /\ SubSeq(a \o b, Len(a) + 1, Len(a \o b)) = b
<1> DEFINE r == a \o b
<1>1. /\ r \in Seq(Chars) /\ Len(r) = Len(a) + Len(b)
      /\ Len(a) \in Nat /\ Len(b) \in Nat
      /\ \A i \in 1 .. Len(a) + Len(b) :
            r[i] = IF i <= Len(a) THEN a[i] ELSE b[i - Len(a)]
  BY ConcatProperties, LenProperties
<1>2. \A i \in 1 .. Len(r) : r[i] \in Chars
  BY <1>1, ElementOfSeq
<1> HIDE DEF r
<1>3. SubSeq(r, 1, Len(a)) = a
  <2>1. /\ SubSeq(r, 1, Len(a)) \in Seq(Chars)
        /\ Len(SubSeq(r, 1, Len(a))) = Len(a)
        /\ \A i \in 1 .. Len(a) : SubSeq(r, 1, Len(a))[i] = r[i]
    BY <1>1, <1>2, SubSeqProperties
  <2>2. \A i \in 1 .. Len(a) : r[i] = a[i]
    BY <1>1
  <2> QED
    BY <1>1, <2>1, <2>2, SeqEqual
<1>4. SubSeq(r, Len(a) + 1, Len(r)) = b
  <2> DEFINE t == SubSeq(r, Len(a) + 1, Len(r))
  <2>1. /\ t \in Seq(Chars) /\ Len(t) = Len(b)
        /\ \A i \in 1 .. Len(b) : t[i] = r[Len(a) + i]
    BY <1>1, <1>2, SubSeqProperties
  <2>2. \A i \in 1 .. Len(b) : r[Len(a) + i] = b[i]
    BY <1>1
  <2> HIDE DEF t
  <2>3. t = b
    BY <1>1, <2>1, <2>2, SeqEqual
  <2> QED
    BY <2>3 DEF t
<1> QED
  BY <1>1, <1>3, <1>4 DEF r

\* A read moves characters from the source to the buffer.
LEMMA CutAnywhere ==
    ASSUME NEW s \in Seq(Chars), NEW k \in 0 .. Len(s)
    PROVE  LET a == SubSeq(s, 1, k)  b == SubSeq(s, k + 1, Len(s))
           IN  a \in Seq(Chars) /\ b \in Seq(Chars) /\ Len(a) = k /\ a \o b = s
<1>1. Len(s) \in Nat /\ \A i \in 1 .. Len(s) : s[i] \in Chars
  BY LenProperties, ElementOfSeq
<1>2. SubSeq(s, 1, k) \in Seq(Chars) /\ Len(SubSeq(s, 1, k)) = k
  BY <1>1, SubSeqProperties
<1>3. SubSeq(s, k + 1, Len(s)) \in Seq(Chars)
  BY <1>1, SubSeqProperties
<1>4. SubSeq(s, 1, k) \o SubSeq(s, k + 1, Len(s)) = SubSeq(s, 1, Len(s))
  <2>1. 1 \in 1 .. Len(s) + 1 /\ k \in 1 - 1 .. Len(s) /\ Len(s) \in k .. Len(s)
    BY <1>1
  <2> QED
    BY <2>1, ConcatAdjacentSubSeq
<1> QED
  BY <1>2, <1>3, <1>4, SubSeqFull

----------------------------------------------------------------------------
(* What the reader holds                                                   *)

\* Whole buffers without a newline have been put together, and only while a
\* line is read; what the writer has met is that the client has hung up.
ReaderInv ==
    /\ stream \in Streams /\ tr \in BOOLEAN /\ gone \in BOOLEAN /\ sticky \in BOOLEAN
    /\ pc \in {"preamble", "read", "write", "done"}
    /\ src \in Seq(Chars) /\ buf \in Seq(Chars) /\ acc \in Seq(Chars)
    /\ line \in Seq(Chars) /\ held \in Seq(Chars)
    /\ err \in {"none", "EOF", "failure"}
    /\ Len(buf) <= Buf
    /\ Relay!NoNewline(acc)
    /\ Len(acc) < MaxLine /\ \E j \in Nat : Len(acc) = j * Buf
    /\ pc # "read" => acc = <<>>
    /\ pc \in {"preamble", "read"} => err = "none"
    /\ err # "none" => buf = <<>>
    /\ sticky => gone

\* The limit is a whole number of buffers: there is always room for one more.
LEMMA RoomForOneMore ==
    ASSUME NEW l \in Nat, l < MaxLine, NEW j \in Nat, l = j * Buf
    PROVE  /\ Buf \in Nat /\ Buf > 0 /\ MaxLine \in Nat
           /\ l + Buf <= MaxLine
           /\ l + Buf = (j + 1) * Buf
<1>1. Buf \in Nat /\ Buf > 0
  BY StreamAssumption
<1>2. PICK k \in 2 .. MaxLine : MaxLine = k * Buf
  BY StreamAssumption
<1>3. k \in Int /\ k >= 2
  BY <1>2
<1>4. k * Buf \in Nat
  BY <1>1, <1>3
<1>5. j < k
  <2> SUFFICES ASSUME k <= j PROVE FALSE
    BY <1>3
  <2>1. (j - k) * Buf >= 0
    BY <1>1, <1>3
  <2>2. (j - k) * Buf = j * Buf - k * Buf
    BY <1>1, <1>3
  <2> QED
    BY <1>1, <1>2, <1>3, <1>4, <2>1, <2>2
<1>6. (k - j - 1) * Buf >= 0
  BY <1>1, <1>3, <1>5
<1>7. (k - j - 1) * Buf = k * Buf - (j * Buf + Buf)
  BY <1>1, <1>3
<1>8. j * Buf + Buf = (j + 1) * Buf
  BY <1>1
<1> QED
  BY <1>1, <1>2, <1>4, <1>6, <1>7, <1>8

\* The carriage return before a newline goes, however that is written.
LEMMA TrimIsBare ==
    ASSUME NEW s \in Seq(Chars)
    PROVE  TrimCR(s) = Relay!Bare(s)
BY DEF TrimCR, Relay!Bare, Last, Front

LEMMA TrimmedType ==
    ASSUME NEW s \in Seq(Chars)
    PROVE  TrimCR(s) \in Seq(Chars)
<1>1. CASE s = <<>>
  BY <1>1 DEF TrimCR
<1>2. CASE s # <<>>
  <2>1. Len(s) \in Nat /\ Len(s) > 0
    BY <1>2, EmptySeq
  <2>2. Len(s) - 1 \in 0 .. Len(s)
    BY <2>1
  <2>3. SubSeq(s, 1, Len(s) - 1) \in Seq(Chars)
    BY <2>2, CutAnywhere
  <2> QED
    BY <2>3 DEF TrimCR, Front
<1> QED
  BY <1>1, <1>2

LEMMA TransformedType ==
    ASSUME NEW on, NEW s \in Seq(Chars)
    PROVE  TransformLine(on, s) \in Seq(Chars)
<1> DEFINE u == [k \in DOMAIN s |-> IF s[k] = "u" THEN "p" ELSE s[k]]
<1>1. Len(s) \in Nat /\ DOMAIN s = 1 .. Len(s)
  BY LenProperties
<1>2. \A k \in 1 .. Len(s) : s[k] \in Chars
  BY <1>1, ElementOfSeq
<1>3. "p" \in Chars
  BY DEF Chars
<1>4. u \in [1 .. Len(s) -> Chars]
  BY <1>1, <1>2, <1>3
<1>5. u \in Seq(Chars)
  BY <1>1, <1>4
<1> QED
  BY <1>5 DEF TransformLine

----------------------------------------------------------------------------
(* The steps that take a line                                              *)

\* What has been put together and what lies in the buffer come first.
LEMMA InHandFirst ==
    ASSUME ReaderInv
    PROVE  /\ acc \o buf \o src \in Seq(Chars)
           /\ Len(acc \o buf \o src) = Len(acc) + Len(buf) + Len(src)
           /\ \A i \in 1 .. Len(acc) : (acc \o buf \o src)[i] = acc[i]
           /\ \A i \in 1 .. Len(buf) : (acc \o buf \o src)[Len(acc) + i] = buf[i]
           /\ Len(acc) \in Nat /\ Len(buf) \in Nat /\ Len(src) \in Nat
<1>1. acc \in Seq(Chars) /\ buf \in Seq(Chars) /\ src \in Seq(Chars)
  BY DEF ReaderInv
<1>2. Len(acc) \in Nat /\ Len(buf) \in Nat /\ Len(src) \in Nat
  BY <1>1, LenProperties
<1> DEFINE ab == acc \o buf
<1>3. /\ ab \in Seq(Chars) /\ Len(ab) = Len(acc) + Len(buf)
      /\ \A i \in 1 .. Len(acc) + Len(buf) :
            ab[i] = IF i <= Len(acc) THEN acc[i] ELSE buf[i - Len(acc)]
  BY <1>1, ConcatProperties
<1>0. ab \in Seq(Chars)
  BY <1>3
<1> HIDE DEF ab
<1> DEFINE r == ab \o src
<1>4. /\ r \in Seq(Chars) /\ Len(r) = Len(ab) + Len(src)
      /\ \A i \in 1 .. Len(ab) + Len(src) :
            r[i] = IF i <= Len(ab) THEN ab[i] ELSE src[i - Len(ab)]
  BY <1>0, <1>1, ConcatProperties
<1> HIDE DEF r
<1>5. ASSUME NEW i \in 1 .. Len(acc) PROVE r[i] = acc[i]
  <2>1. i \in 1 .. Len(ab) + Len(src) /\ i <= Len(ab)
        /\ i \in 1 .. Len(acc) + Len(buf) /\ i <= Len(acc)
    BY <1>2, <1>3
  <2> QED
    BY <1>3, <1>4, <2>1
<1>6. ASSUME NEW i \in 1 .. Len(buf) PROVE r[Len(acc) + i] = buf[i]
  <2>1. Len(acc) + i \in 1 .. Len(ab) + Len(src) /\ Len(acc) + i <= Len(ab)
        /\ Len(acc) + i \in 1 .. Len(acc) + Len(buf) /\ ~(Len(acc) + i <= Len(acc))
        /\ (Len(acc) + i) - Len(acc) = i
    BY <1>2, <1>3
  <2>2. r[Len(acc) + i] = ab[Len(acc) + i]
    BY <1>4, <2>1
  <2>3. ab[Len(acc) + i] = buf[(Len(acc) + i) - Len(acc)]
    BY <1>3, <2>1
  <2> QED
    BY <2>1, <2>2, <2>3
<1> QED
  BY <1>2, <1>3, <1>4, <1>5, <1>6 DEF r, ab

LEMMA NoNewlineInBoth ==
    ASSUME NEW a \in Seq(Chars), NEW b \in Seq(Chars),
           Relay!NoNewline(a), Relay!NoNewline(b)
    PROVE  Relay!NoNewline(a \o b)
<1> DEFINE t == a \o b
<1>1. /\ t \in Seq(Chars) /\ Len(t) = Len(a) + Len(b)
      /\ \A i \in 1 .. Len(a) + Len(b) :
            t[i] = IF i <= Len(a) THEN a[i] ELSE b[i - Len(a)]
  BY ConcatProperties
<1>2. Len(a) \in Nat /\ DOMAIN a = 1 .. Len(a) /\ Len(b) \in Nat /\ DOMAIN b = 1 .. Len(b)
  BY LenProperties
<1>3. DOMAIN t = 1 .. Len(a) + Len(b)
  BY <1>1, LenProperties
<1> HIDE DEF t
<1>4. ASSUME NEW i \in DOMAIN t PROVE t[i] # "n"
  <2>1. CASE i <= Len(a)
    <3>1. i \in DOMAIN a /\ t[i] = a[i]
      BY <1>1, <1>2, <1>3, <2>1
    <3> QED
      BY <3>1 DEF Relay!NoNewline
  <2>2. CASE ~(i <= Len(a))
    <3>1. i - Len(a) \in DOMAIN b /\ t[i] = b[i - Len(a)]
      BY <1>1, <1>2, <1>3, <2>2
    <3> QED
      BY <3>1 DEF Relay!NoNewline
  <2> QED
    BY <2>1, <2>2
<1> QED
  BY <1>4 DEF Relay!NoNewline, t

\* Up to the first newline of the buffer: the pieces and what precedes it.
LEMMA TakesLine ==
    ASSUME ReaderInv, ReadToNewline
    PROVE  Relay!TakeLine
<1> DEFINE n == Newline(buf)
           a == SubSeq(buf, 1, n - 1)
           b == SubSeq(buf, n + 1, Len(buf))
           r == acc \o buf \o src
           K == Len(acc) + n
<1>1. acc \in Seq(Chars) /\ buf \in Seq(Chars) /\ src \in Seq(Chars)
  BY DEF ReaderInv
<1>2. n \in 1 .. Len(buf) /\ buf[n] = "n" /\ \A j \in 1 .. n - 1 : buf[j] # "n"
  <2>1. n \in 0 .. Len(buf) /\ n > 0
    BY <1>1, FirstNewline DEF ReadToNewline
  <2>2. Len(buf) \in Nat
    BY <1>1, LenProperties
  <2>3. n \in 1 .. Len(buf)
    BY <2>1, <2>2
  <2> QED
    BY <1>1, <2>1, <2>3, FirstNewline
<1> HIDE DEF n
<1>3. /\ a \in Seq(Chars) /\ b \in Seq(Chars) /\ Len(a) = n - 1
      /\ \A j \in 1 .. n - 1 : a[j] = buf[j]
      /\ buf = a \o (<<"n">> \o b)
  BY <1>1, <1>2, CutAtNewline
<1>4. /\ pc = "read" /\ pc' = "write" /\ acc' = <<>> /\ buf' = b /\ src' = src
      /\ line' = TrimCR(acc \o a) /\ err' = "none"
      /\ UNCHANGED <<tr, held, sent, gone, sticky, result>>
  BY DEF ReadToNewline, ReturnLine, given, writer, n
<1> HIDE DEF a, b
<1>5. Relay!NoNewline(a)
  BY <1>2, <1>3, LenProperties DEF Relay!NoNewline
<1>6. Relay!NoNewline(acc \o a)
  BY <1>1, <1>3, <1>5, NoNewlineInBoth DEF ReaderInv
<1>7. <<"n">> \in Seq(Chars) /\ Len(<<"n">>) = 1
  <2>1. "n" \in Chars
    BY DEF Chars
  <2> QED
    BY <2>1
<1> DEFINE aa == acc \o a
           bb == b \o src
           an == aa \o <<"n">>
<1>8. aa \in Seq(Chars) /\ bb \in Seq(Chars) /\ an \in Seq(Chars)
  BY <1>1, <1>3, <1>7
<1>9. r = aa \o (<<"n">> \o bb) /\ r = an \o bb
  <2>1. <<"n">> \o b \in Seq(Chars)
    BY <1>3, <1>7
  <2>2. acc \o (a \o (<<"n">> \o b)) = aa \o (<<"n">> \o b)
    BY <1>1, <1>3, <2>1, ConcatAssociative
  <2>3. (aa \o (<<"n">> \o b)) \o src = aa \o ((<<"n">> \o b) \o src)
    <3> DEFINE nb == <<"n">> \o b
    <3>1. aa \in Seq(Chars) /\ nb \in Seq(Chars) /\ src \in Seq(Chars)
      BY <1>1, <1>8, <2>1
    <3> HIDE DEF aa, nb
    <3>2. (aa \o nb) \o src = aa \o (nb \o src)
      BY <3>1, ConcatAssociative
    <3> QED
      BY <3>2 DEF nb
  <2>4. (<<"n">> \o b) \o src = <<"n">> \o bb
    BY <1>1, <1>3, <1>7, ConcatAssociative
  <2>5. aa \o (<<"n">> \o bb) = an \o bb
    <3> HIDE DEF aa, bb
    <3> QED
      BY <1>7, <1>8, ConcatAssociative
  <2> QED
    BY <1>3, <2>2, <2>3, <2>4, <2>5
<1>10. Len(aa) = K - 1 /\ Len(an) = K /\ K \in Nat /\ K >= 1
  <2>1. Len(acc) \in Nat /\ Len(aa) = Len(acc) + Len(a) /\ Len(an) = Len(aa) + 1
    BY <1>1, <1>3, <1>7, <1>8, LenProperties, CutAfter
  <2>2. Len(buf) \in Nat
    BY <1>1, LenProperties
  <2> QED
    BY <1>2, <1>3, <2>1, <2>2
<1>11. SubSeq(r, 1, K - 1) = aa
  <2>1. <<"n">> \o bb \in Seq(Chars)
    BY <1>7, <1>8
  <2> HIDE DEF r, aa, bb, K
  <2> QED
    BY <1>8, <1>9, <1>10, <2>1, CutAfter
<1>12. SubSeq(r, K + 1, Len(r)) = bb
  <2> HIDE DEF r, an, bb, K
  <2> QED
    BY <1>8, <1>9, <1>10, CutAfter
<1>13. K \in DOMAIN r /\ r[K] = "n"
  <2>1. /\ r \in Seq(Chars) /\ Len(r) = Len(acc) + Len(buf) + Len(src)
        /\ \A i \in 1 .. Len(buf) : r[Len(acc) + i] = buf[i]
        /\ Len(acc) \in Nat /\ Len(buf) \in Nat /\ Len(src) \in Nat
    BY InHandFirst
  <2>2. DOMAIN r = 1 .. Len(r)
    BY <2>1, LenProperties
  <2> HIDE DEF r
  <2>3. r[Len(acc) + n] = buf[n]
    BY <1>2, <2>1
  <2> QED
    BY <1>2, <1>10, <2>1, <2>2, <2>3
<1>14. K <= MaxLine
  <2>1. PICK j \in Nat : Len(acc) = j * Buf
    BY DEF ReaderInv
  <2>2. Len(acc) \in Nat /\ Len(acc) < MaxLine /\ Len(buf) <= Buf /\ Len(buf) \in Nat
    BY <1>1, LenProperties DEF ReaderInv
  <2>3. Len(acc) + Buf <= MaxLine /\ Buf \in Nat /\ MaxLine \in Nat
    BY <2>1, <2>2, RoomForOneMore
  <2> QED
    BY <1>2, <2>2, <2>3
<1>15. (acc \o buf \o src)' = bb
  BY <1>3, <1>4, ConcatEmptySeq
<1>16. line' = Relay!Bare(aa)
  BY <1>4, <1>8, TrimIsBare
<1> HIDE DEF aa, bb, an, K
<1>17. Relay!Take(K - 1, K, "none")
  BY <1>4, <1>11, <1>12, <1>15, <1>16 DEF Relay!Take, r
<1> QED
  BY <1>6, <1>11, <1>13, <1>14, <1>17 DEF Relay!TakeLine, r, aa

\* A piece as long as the limit, which ends in the middle of a line.
LEMMA TakesPiece ==
    ASSUME ReaderInv, ReadFull, ~(Len(acc) + Buf < MaxLine)
    PROVE  Relay!TakePiece
<1> DEFINE ab == acc \o buf
           r == acc \o buf \o src
<1>1. acc \in Seq(Chars) /\ buf \in Seq(Chars) /\ src \in Seq(Chars)
  BY DEF ReaderInv
<1>2. /\ pc = "read" /\ Newline(buf) = 0 /\ Len(buf) = Buf
      /\ pc' = "write" /\ acc' = <<>> /\ buf' = <<>> /\ src' = src
      /\ line' = TrimCR(ab) /\ err' = "none"
      /\ UNCHANGED <<tr, held, sent, gone, sticky, result>>
  BY DEF ReadFull, ReturnLine, given, writer
<1>3. Relay!NoNewline(ab)
  BY <1>1, <1>2, FirstNewline, NoNewlineInBoth DEF ReaderInv
<1>4. ab \in Seq(Chars) /\ Len(ab) = Len(acc) + Len(buf)
  BY <1>1, CutAfter
<1>5. Len(ab) = MaxLine /\ MaxLine \in Nat
  <2>1. PICK j \in Nat : Len(acc) = j * Buf
    BY DEF ReaderInv
  <2>2. Len(acc) \in Nat /\ Len(acc) < MaxLine
    BY <1>1, LenProperties DEF ReaderInv
  <2>3. Len(acc) + Buf <= MaxLine /\ Buf \in Nat /\ MaxLine \in Nat
    BY <2>1, <2>2, RoomForOneMore
  <2> QED
    BY <1>2, <1>4, <2>2, <2>3
<1>6. /\ SubSeq(r, 1, MaxLine) = ab
      /\ SubSeq(r, MaxLine + 1, Len(r)) = src
      /\ Len(r) >= MaxLine
  <2> HIDE DEF ab
  <2>1. /\ Len(ab \o src) = Len(ab) + Len(src) /\ Len(src) \in Nat
        /\ SubSeq(ab \o src, 1, Len(ab)) = ab
        /\ SubSeq(ab \o src, Len(ab) + 1, Len(ab \o src)) = src
    BY <1>1, <1>4, CutAfter, LenProperties
  <2>2. r = ab \o src
    BY DEF ab
  <2> HIDE DEF r
  <2>3. Len(r) = MaxLine + Len(src)
    BY <1>5, <2>1, <2>2
  <2>4. SubSeq(r, 1, MaxLine) = ab /\ SubSeq(r, MaxLine + 1, Len(r)) = src
    <3> SUFFICES SubSeq(r, 1, Len(ab)) = ab /\ SubSeq(r, Len(ab) + 1, Len(r)) = src
      BY <1>5
    <3> QED
      BY <2>1, <2>2
  <2> QED
    BY <1>5, <2>1, <2>3, <2>4
<1>7. (acc \o buf \o src)' = src
  BY <1>1, <1>2, ConcatEmptySeq
<1>8. line' = Relay!Bare(ab)
  BY <1>2, <1>4, TrimIsBare
<1> HIDE DEF ab
<1>9. Relay!Take(MaxLine, MaxLine, "none")
  BY <1>2, <1>6, <1>7, <1>8 DEF Relay!Take, r
<1> QED
  BY <1>3, <1>6, <1>9 DEF Relay!TakePiece, r

\* What the upstream leaves when it ends.
LEMMA TakesLast ==
    ASSUME ReaderInv, ReadEnd
    PROVE  Relay!TakeLast
<1> DEFINE r == acc \o buf \o src
           ab == acc \o buf
<1>1. acc \in Seq(Chars) /\ buf \in Seq(Chars) /\ src \in Seq(Chars)
  BY DEF ReaderInv
<1>2. PICK e \in Relay!Ends :
          /\ pc = "read" /\ Newline(buf) = 0 /\ Len(buf) < Buf /\ src = <<>>
          /\ pc' = "write" /\ acc' = <<>> /\ buf' = <<>> /\ src' = src
          /\ line' = TrimCR(ab) /\ err' = e
          /\ UNCHANGED <<tr, held, sent, gone, sticky, result>>
  BY DEF ReadEnd, Blocked, ReturnLine, given, writer, Relay!Ends
<1>3. Relay!NoNewline(ab)
  BY <1>1, <1>2, FirstNewline, NoNewlineInBoth DEF ReaderInv
<1>4. ab \in Seq(Chars) /\ Len(ab) = Len(acc) + Len(buf) /\ Len(ab) \in Nat
  BY <1>1, CutAfter, LenProperties
<1>5. r = ab
  BY <1>2, <1>4, ConcatEmptySeq
<1>6. Len(ab) < MaxLine
  <2>1. PICK j \in Nat : Len(acc) = j * Buf
    BY DEF ReaderInv
  <2>2. Len(acc) \in Nat /\ Len(acc) < MaxLine /\ Len(buf) \in Nat
    BY <1>1, LenProperties DEF ReaderInv
  <2>3. Len(acc) + Buf <= MaxLine /\ Buf \in Nat /\ MaxLine \in Nat
    BY <2>1, <2>2, RoomForOneMore
  <2> QED
    BY <1>2, <1>4, <2>2, <2>3
<1>7. SubSeq(r, 1, Len(r)) = ab /\ SubSeq(r, Len(r) + 1, Len(r)) = <<>>
  <2> HIDE DEF r, ab
  <2>1. SubSeq(ab, 1, Len(ab)) = ab
    BY <1>4, SubSeqFull
  <2>2. SubSeq(ab, Len(ab) + 1, Len(ab)) = <<>>
    BY <1>4, SubSeqEmpty
  <2> QED
    BY <1>5, <2>1, <2>2
<1>8. (acc \o buf \o src)' = <<>>
  BY <1>2, ConcatEmptySeq, EmptySeq
<1>9. line' = Relay!Bare(ab)
  BY <1>2, <1>4, TrimIsBare
<1> HIDE DEF ab
<1>10. Relay!Take(Len(r), Len(r), e)
  BY <1>2, <1>7, <1>8, <1>9 DEF Relay!Take, r
<1> QED
  BY <1>3, <1>5, <1>6, <1>10 DEF Relay!TakeLast, r

----------------------------------------------------------------------------
(* The steps between two lines                                             *)

LEMMA MoveAcross ==
    ASSUME NEW u \in Seq(Chars), NEW v \in Seq(Chars),
           NEW a \in Seq(Chars), NEW b \in Seq(Chars)
    PROVE  (u \o (v \o a)) \o b = (u \o v) \o (a \o b)
<1>1. v \o a \in Seq(Chars) /\ a \o b \in Seq(Chars)
  OBVIOUS
<1>2. (u \o (v \o a)) \o b = u \o ((v \o a) \o b)
  <2> DEFINE m == v \o a
  <2>1. m \in Seq(Chars)
    BY <1>1
  <2> HIDE DEF m
  <2>2. (u \o m) \o b = u \o (m \o b)
    BY <2>1, ConcatAssociative
  <2> QED
    BY <2>2 DEF m
<1>3. (v \o a) \o b = v \o (a \o b)
  BY ConcatAssociative
<1>4. (u \o v) \o (a \o b) = u \o (v \o (a \o b))
  BY <1>1, ConcatAssociative
<1> QED
  BY <1>2, <1>3, <1>4

\* A read from the upstream changes where the text lies and not the text.
LEMMA FillKeepsText ==
    ASSUME ReaderInv, Fill
    PROVE  /\ (acc \o buf \o src)' = acc \o buf \o src
           /\ src' \in Seq(Chars) /\ buf' \in Seq(Chars) /\ Len(buf') <= Buf
<1>1. acc \in Seq(Chars) /\ buf \in Seq(Chars) /\ src \in Seq(Chars)
  BY DEF ReaderInv
<1>2. Len(src) \in Nat /\ Len(buf) \in Nat /\ Buf \in Nat
  BY <1>1, LenProperties, StreamAssumption
<1>3. PICK a \in Seq(Chars), b \in Seq(Chars) :
          /\ a \o b = src /\ Len(a) <= Buf - Len(buf)
          /\ acc' = acc /\ buf' = buf \o a /\ src' = b
  <2>1. PICK k \in 1 .. Len(src) :
            /\ k <= Buf - Len(buf) /\ acc' = acc
            /\ buf' = buf \o SubSeq(src, 1, k)
            /\ src' = SubSeq(src, k + 1, Len(src))
    BY DEF Fill
  <2>2. /\ SubSeq(src, 1, k) \in Seq(Chars) /\ SubSeq(src, k + 1, Len(src)) \in Seq(Chars)
        /\ Len(SubSeq(src, 1, k)) = k
        /\ SubSeq(src, 1, k) \o SubSeq(src, k + 1, Len(src)) = src
    BY <1>1, <1>2, <2>1, CutAnywhere
  <2> QED
    BY <2>1, <2>2
<1>4. Len(a) \in Nat /\ a \in Seq(Chars) /\ b \in Seq(Chars)
  BY LenProperties
<1>6. buf \o a \in Seq(Chars) /\ Len(buf \o a) = Len(buf) + Len(a)
  BY <1>1, CutAfter
<1>7. (acc \o (buf \o a)) \o b = acc \o buf \o src
  <2>1. (acc \o (buf \o a)) \o b = (acc \o buf) \o (a \o b)
    <3> DEFINE moved(t, u, v, w) == (t \o (u \o v)) \o w = (t \o u) \o (v \o w)
    <3>1. \A t, u, v, w \in Seq(Chars) : moved(t, u, v, w)
      BY MoveAcross
    <3> HIDE DEF moved
    <3>2. moved(acc, buf, a, b)
      BY <1>1, <1>4, <3>1
    <3> QED
      BY <3>2 DEF moved
  <2> QED
    BY <1>3, <2>1
<1>8. (acc \o buf \o src)' = acc \o buf \o src
  BY <1>3, <1>7
<1>9. src' \in Seq(Chars) /\ buf' \in Seq(Chars)
  BY <1>3, <1>6
<1>10. Len(buf') <= Buf
  BY <1>2, <1>3, <1>4, <1>6
<1> QED
  BY <1>8, <1>9, <1>10

\* A full buffer joins the pieces.
LEMMA PieceKeepsText ==
    ASSUME ReaderInv, ReadFull, Len(acc) + Buf < MaxLine
    PROVE  /\ (acc \o buf \o src)' = acc \o buf \o src
           /\ acc' \in Seq(Chars) /\ Relay!NoNewline(acc')
           /\ Len(acc') < MaxLine /\ \E j \in Nat : Len(acc') = j * Buf
<1>1. acc \in Seq(Chars) /\ buf \in Seq(Chars) /\ src \in Seq(Chars)
  BY DEF ReaderInv
<1>2. /\ Newline(buf) = 0 /\ Len(buf) = Buf
      /\ acc' = acc \o buf /\ buf' = <<>> /\ src' = src
  BY DEF ReadFull
<1>3. acc \o buf \in Seq(Chars) /\ Len(acc \o buf) = Len(acc) + Len(buf)
  BY <1>1, CutAfter
<1>4. Relay!NoNewline(acc \o buf)
  BY <1>1, <1>2, FirstNewline, NoNewlineInBoth DEF ReaderInv
<1>5. (acc \o buf) \o <<>> = acc \o buf
  BY <1>3, ConcatEmptySeq
<1>6. \E j \in Nat : Len(acc) + Buf = j * Buf
  <2>1. PICK j \in Nat : Len(acc) = j * Buf
    BY DEF ReaderInv
  <2>2. Len(acc) \in Nat /\ Len(acc) < MaxLine
    BY <1>1, LenProperties DEF ReaderInv
  <2>3. Len(acc) + Buf = (j + 1) * Buf
    BY <2>1, <2>2, RoomForOneMore
  <2>4. j + 1 \in Nat
    OBVIOUS
  <2> QED
    BY <2>3, <2>4
<1> QED
  BY <1>2, <1>3, <1>4, <1>5, <1>6

----------------------------------------------------------------------------
(* The invariant                                                           *)

\* Nothing is left of a line that has been returned.
LEMMA NoPieces ==
    /\ <<>> \in Seq(Chars) /\ Len(<<>>) < MaxLine /\ Len(<<>>) <= Buf
    /\ \E j \in Nat : Len(<<>>) = j * Buf
    /\ Relay!NoNewline(<<>>)
<1>1. Buf \in Nat /\ Buf > 0
  BY StreamAssumption
<1>2. PICK k \in 2 .. MaxLine : MaxLine = k * Buf
  BY StreamAssumption
<1>3. MaxLine > 0
  BY <1>1, <1>2
<1>4. <<>> \in Seq(Chars) /\ Len(<<>>) = 0 /\ DOMAIN <<>> = 1 .. 0
  BY EmptySeq, LenProperties
<1>5. 0 \in Nat /\ 0 = 0 * Buf
  BY <1>1
<1>6. Relay!NoNewline(<<>>)
  BY <1>4 DEF Relay!NoNewline
<1> QED
  BY <1>1, <1>3, <1>4, <1>5, <1>6

LEMMA ReaderInit ==
    ASSUME Init
    PROVE  ReaderInv
<1>1. stream \in Streams /\ stream.body \in Seq(Chars)
  BY StreamAssumption DEF Init
<1>2. /\ buf = <<>> /\ acc = <<>> /\ src = stream.body /\ pc = "preamble"
      /\ err = "none" /\ tr \in BOOLEAN /\ gone = FALSE /\ sticky = FALSE
  BY DEF Init
<1>3. Relay!NoNewline(acc)
  BY <1>2, NoPieces
<1>4. /\ buf \in Seq(Chars) /\ Len(buf) <= Buf
      /\ acc \in Seq(Chars) /\ Len(acc) < MaxLine
      /\ \E j \in Nat : Len(acc) = j * Buf
  BY <1>2, NoPieces
<1>5. src \in Seq(Chars)
  BY <1>1, <1>2
<1>6. line \in Seq(Chars) /\ held \in Seq(Chars)
  BY NoPieces DEF Init
<1> QED
  BY <1>1, <1>2, <1>3, <1>4, <1>5, <1>6 DEF ReaderInv

\* A line that is returned leaves a buffer of no more than before.
LEMMA ReturnKeepsReader ==
    ASSUME ReaderInv,
           buf' \in Seq(Chars), Len(buf') <= Buf, acc' = <<>>, line' \in Seq(Chars),
           pc' = "write", err' \in {"none", "EOF", "failure"},
           err' = "none" \/ buf' = <<>>,
           UNCHANGED <<stream, tr, src, held, gone, sticky>>
    PROVE  ReaderInv'
<1>1. /\ stream' \in Streams /\ tr' \in BOOLEAN /\ gone' \in BOOLEAN /\ sticky' \in BOOLEAN
      /\ src' \in Seq(Chars) /\ held' \in Seq(Chars) /\ (sticky' => gone')
  BY DEF ReaderInv
<1>2. Relay!NoNewline(acc')
  BY NoPieces
<1>3. acc' \in Seq(Chars) /\ Len(acc') < MaxLine /\ \E j \in Nat : Len(acc') = j * Buf
  BY NoPieces
<1> QED
  BY <1>1, <1>2, <1>3 DEF ReaderInv

LEMMA ReaderStep ==
    ASSUME ReaderInv, [Next]_vars
    PROVE  ReaderInv'
<1>1. CASE Leave
  BY <1>1 DEF Leave, given, reader, writer, ReaderInv, Relay!NoNewline
<1>2. CASE SendPreamble
  BY <1>2 DEF SendPreamble, given, reader, writer, ReaderInv, Relay!NoNewline
<1>3. CASE Fill
  <2>1. src' \in Seq(Chars) /\ buf' \in Seq(Chars) /\ Len(buf') <= Buf
    BY <1>3, FillKeepsText
  <2>2. UNCHANGED <<stream, tr, pc, acc, line, held, err, gone, sticky>> /\ pc = "read"
    BY <1>3 DEF Fill, Blocked, given, writer
  <2>3. err' = "none"
    BY <2>2 DEF ReaderInv
  <2> QED
    BY <2>1, <2>2, <2>3 DEF ReaderInv, Relay!NoNewline
<1>4. CASE ReadToNewline
  <2>1. buf' \in Seq(Chars) /\ Len(buf') <= Buf
    <3>1. buf \in Seq(Chars) /\ Len(buf) <= Buf /\ Len(buf) \in Nat /\ Buf \in Nat
      BY LenProperties, StreamAssumption DEF ReaderInv
    <3>2. Newline(buf) \in 1 .. Len(buf) /\ buf' = SubSeq(buf, Newline(buf) + 1, Len(buf))
      BY <1>4, <3>1, FirstNewline DEF ReadToNewline
    <3>3. \A i \in 1 .. Len(buf) : buf[i] \in Chars
      BY <3>1, ElementOfSeq
    <3>4. buf' \in Seq(Chars)
      BY <3>1, <3>2, CutAnywhere
    <3>5. Len(buf') = Len(buf) - Newline(buf)
      <4> DEFINE n == Newline(buf)
      <4>1. n \in 1 .. Len(buf) /\ buf' = SubSeq(buf, n + 1, Len(buf))
        BY <3>2
      <4> HIDE DEF n
      <4>2. Len(SubSeq(buf, n + 1, Len(buf))) = Len(buf) - n
        BY <3>1, <3>3, <4>1, SubSeqProperties
      <4> QED
        BY <4>1, <4>2 DEF n
    <3> QED
      BY <3>1, <3>2, <3>4, <3>5
  <2>2. /\ UNCHANGED <<stream, tr, src, held, gone, sticky>>
        /\ pc' = "write" /\ err' = "none" /\ acc' = <<>>
    BY <1>4 DEF ReadToNewline, ReturnLine, given, writer
  <2>3. line' \in Seq(Chars)
    <3>1. acc \in Seq(Chars) /\ buf \in Seq(Chars) /\ Len(buf) \in Nat
      BY LenProperties DEF ReaderInv
    <3> DEFINE n == Newline(buf)
    <3>2. n \in 1 .. Len(buf) /\ line' = TrimCR(acc \o SubSeq(buf, 1, n - 1))
      BY <1>4, <3>1, FirstNewline DEF ReadToNewline, ReturnLine
    <3> HIDE DEF n
    <3>3. n - 1 \in 0 .. Len(buf)
      BY <3>1, <3>2
    <3>4. SubSeq(buf, 1, n - 1) \in Seq(Chars)
      BY <3>1, <3>3, CutAnywhere
    <3>5. acc \o SubSeq(buf, 1, n - 1) \in Seq(Chars)
      BY <3>1, <3>4
    <3> QED
      BY <3>2, <3>5, TrimmedType
  <2> QED
    BY <2>1, <2>2, <2>3, ReturnKeepsReader
<1>5. CASE ReadFull
  <2>1. UNCHANGED <<stream, tr, src, held, gone, sticky>> /\ buf' = <<>>
    BY <1>5 DEF ReadFull, given, writer
  <2>2. buf' \in Seq(Chars) /\ Len(buf') <= Buf
    BY <2>1, NoPieces
  <2>3. CASE Len(acc) + Buf < MaxLine
    <3>1. /\ acc' \in Seq(Chars) /\ Relay!NoNewline(acc')
          /\ Len(acc') < MaxLine /\ \E j \in Nat : Len(acc') = j * Buf
      BY <1>5, <2>3, PieceKeepsText
    <3>2. UNCHANGED <<pc, err, line>> /\ pc = "read"
      BY <1>5, <2>3 DEF ReadFull
    <3> QED
      BY <2>1, <2>2, <3>1, <3>2 DEF ReaderInv
  <2>4. CASE ~(Len(acc) + Buf < MaxLine)
    <3>1. pc' = "write" /\ err' = "none" /\ acc' = <<>> /\ line' = TrimCR(acc \o buf)
      BY <1>5, <2>4 DEF ReadFull, ReturnLine
    <3>2. acc \o buf \in Seq(Chars)
      BY DEF ReaderInv
    <3>3. line' \in Seq(Chars)
      BY <3>1, <3>2, TrimmedType
    <3> QED
      BY <2>1, <2>2, <3>1, <3>3, ReturnKeepsReader
  <2> QED
    BY <2>3, <2>4
<1>6. CASE ReadEnd
  <2>1. /\ UNCHANGED <<stream, tr, src, held, gone, sticky>> /\ buf' = <<>>
        /\ acc' = <<>> /\ line' = TrimCR(acc \o buf) /\ pc' = "write" /\ err' \in {"EOF", "failure"}
    BY <1>6 DEF ReadEnd, ReturnLine, given, writer
  <2>2. buf' \in Seq(Chars) /\ Len(buf') <= Buf
    BY <2>1, NoPieces
  <2>3. acc \o buf \in Seq(Chars)
    BY DEF ReaderInv
  <2>4. line' \in Seq(Chars)
    BY <2>1, <2>3, TrimmedType
  <2> QED
    BY <2>1, <2>2, <2>4, ReturnKeepsReader
<1>7. CASE WriteFails \/ WriteBlank \/ WriteLine \/ WriteNothing
  <2>1. /\ UNCHANGED <<stream, tr, src, buf, acc, line, err, gone>>
        /\ pc = "write" /\ pc' \in {"read", "done"}
        /\ sticky' = sticky \/ sticky' = (sticky \/ gone)
    BY <1>7 DEF WriteFails, WriteBlank, WriteLine, WriteNothing, Flush,
                given, reader, writer
  <2>2. sticky' \in BOOLEAN /\ (sticky' => gone')
    BY <2>1 DEF ReaderInv
  <2>3. acc' = <<>>
    BY <2>1 DEF ReaderInv
  <2>4. Relay!NoNewline(acc')
    BY <2>3, NoPieces
  <2>5. acc' \in Seq(Chars) /\ Len(acc') < MaxLine /\ \E j \in Nat : Len(acc') = j * Buf
    BY <2>3, NoPieces
  <2>6. held' \in Seq(Chars)
    <3>1. held \in Seq(Chars) /\ Transform(line) \in Seq(Chars)
      BY TransformedType DEF ReaderInv, Transform
    <3>2. "n" \in Chars
      BY DEF Chars
    <3>3. held \o Transform(line) \o <<"n">> \in Seq(Chars)
      BY <3>1, <3>2
    <3>4. <<>> \in Seq(Chars)
      BY EmptySeq
    <3> QED
      BY <1>7, <3>1, <3>3, <3>4 DEF WriteFails, WriteBlank, WriteLine, WriteNothing,
                                    Flush, writer
  <2>7. pc' \in {"preamble", "read"} => err' = "none"
    BY <1>7, <2>1 DEF WriteFails, WriteBlank, WriteLine, WriteNothing
  <2> QED
    BY <2>1, <2>2, <2>3, <2>4, <2>5, <2>6, <2>7 DEF ReaderInv
<1>8. CASE UNCHANGED vars
  BY <1>8 DEF vars, given, reader, writer, ReaderInv, Relay!NoNewline
<1> QED
  BY <1>1, <1>2, <1>3, <1>4, <1>5, <1>6, <1>7, <1>8 DEF Next

----------------------------------------------------------------------------
(* The refinement                                                          *)

\* The views of LineRelay, named so that a step can be stated about them.
LEMMA ViewStays ==
    ASSUME UNCHANGED <<tr, line, err, held, sent, gone, sticky, result>>,
           (acc \o buf \o src)' = acc \o buf \o src,
           pc' = pc \/ (pc = "preamble" /\ pc' = "read")
    PROVE  UNCHANGED Relay!rvars
BY DEF Relay!rvars

LEMMA PromiseInit ==
    ASSUME Init
    PROVE  Relay!RInit
<1>1. stream \in Streams /\ stream.body \in Seq(Chars)
  BY StreamAssumption DEF Init
<1>2. stream.body \in {s.body : s \in Streams}
  BY <1>1
<1>3. acc \o buf \o src = stream.body
  <2>1. acc = <<>> /\ buf = <<>> /\ src = stream.body
    BY DEF Init
  <2>2. <<>> \o <<>> = <<>>
    BY EmptySeq, ConcatEmptySeq
  <2> QED
    BY <1>1, <2>1, <2>2, ConcatEmptySeq
<1> QED
  BY <1>2, <1>3 DEF Init, Relay!RInit

\* Each step of PipeSSE is a step of the relay or moves text between buffers.
LEMMA PromiseStep ==
    ASSUME ReaderInv, [Next]_vars
    PROVE  [Relay!RNext]_(Relay!rvars)
<1>1. CASE Leave
  BY <1>1 DEF Leave, given, reader, writer, stats, Relay!Leave, Relay!RNext
<1>2. CASE SendPreamble
  BY <1>2, ViewStays DEF SendPreamble, given, reader, writer
<1>3. CASE Fill
  <2>1. UNCHANGED <<tr, line, err, held, sent, gone, sticky, result, pc>>
    BY <1>3 DEF Fill, given, writer
  <2> QED
    BY <1>3, <2>1, FillKeepsText, ViewStays
<1>4. CASE ReadToNewline
  BY <1>4, TakesLine DEF Relay!RNext
<1>5. CASE ReadFull
  <2>1. CASE Len(acc) + Buf < MaxLine
    <3>1. UNCHANGED <<tr, line, err, held, sent, gone, sticky, result, pc>>
      BY <1>5, <2>1 DEF ReadFull, given, writer
    <3> QED
      BY <1>5, <2>1, <3>1, PieceKeepsText, ViewStays
  <2>2. CASE ~(Len(acc) + Buf < MaxLine)
    BY <1>5, <2>2, TakesPiece DEF Relay!RNext
  <2> QED
    BY <2>1, <2>2
<1>6. CASE ReadEnd
  BY <1>6, TakesLast DEF Relay!RNext
<1>7. CASE WriteFails
  <2>1. gone
    BY <1>7 DEF WriteFails, ReaderInv
  <2> QED
    BY <1>7, <2>1 DEF WriteFails, given, reader, writer, Relay!Fail, Relay!RNext
<1>8. CASE WriteBlank
  <2>1. Transform(line) = <<>>
    <3>1. line = <<>> /\ Len(<<>>) = 0
      BY <1>8, EmptySeq DEF WriteBlank
    <3> QED
      BY <3>1 DEF Transform, TransformLine
  <2>2. held \o Transform(line) = held
    BY <2>1, ConcatEmptySeq DEF ReaderInv
  <2> QED
    BY <1>8, <2>2 DEF WriteBlank, Flush, given, reader, Transform,
                      Relay!Pass, Relay!Arrive, Relay!GoOn, Relay!RNext
<1>9. CASE WriteLine
  <2>1. buf # <<>> => err = "none"
    BY DEF ReaderInv
  <2> QED
    BY <1>9, <2>1 DEF WriteLine, Flush, given, reader, Transform,
                      Relay!Pass, Relay!Arrive, Relay!GoOn, Relay!RNext
<1>10. CASE WriteNothing
  BY <1>10 DEF WriteNothing, Flush, given, reader,
               Relay!PassNothing, Relay!Arrive, Relay!GoOn, Relay!RNext
<1>11. CASE UNCHANGED vars
  BY <1>11 DEF vars, given, reader, writer, Relay!rvars
<1> QED
  BY <1>1, <1>2, <1>3, <1>4, <1>5, <1>6, <1>7, <1>8, <1>9, <1>10, <1>11 DEF Next

\* sse.go:50-119, 209-228: for every text, every size of the buffer and every
\* limit that is a whole number of buffers, the relay of PipeSSE is the relay
\* without buffers: no line is lost, split below the limit or overtaken, and
\* the line that ends an event carries all that waits to the client.
THEOREM RelayIsRefined == Spec => RelayKeepsPromise
<1>1. Init => ReaderInv /\ Relay!RInit
  BY ReaderInit, PromiseInit
<1>2. ReaderInv /\ [Next]_vars => ReaderInv' /\ [Relay!RNext]_(Relay!rvars)
  BY ReaderStep, PromiseStep
<1> QED
  BY <1>1, <1>2, PTL DEF Spec, RelayKeepsPromise, Relay!RSpec

----------------------------------------------------------------------------
(* Definitions that go over a text from place to place                     *)

\* From each place of the L, and the end, step leads further on, or nowhere.
Steps(L, step) ==
    step \in [1 .. L + 1 -> Nat] /\ \A n \in 1 .. L + 1 : n + step[n] <= L + 1

Solves(f, L, step, piece) ==
    f = [n \in 1 .. L + 1 |-> IF step[n] = 0 THEN piece[n] ELSE piece[n] \o f[n + step[n]]]

\* The last m places and the end.
LastPlaces(L, m) == L + 1 - m .. L + 1

SolvesTail(f, L, step, piece, m) ==
    f = [n \in LastPlaces(L, m) |-> IF step[n] = 0 THEN piece[n] ELSE piece[n] \o f[n + step[n]]]

LEMMA OnePlaceMore ==
    ASSUME NEW L \in Nat, NEW step, NEW piece, Steps(L, step),
           NEW m \in 0 .. L, m + 1 <= L, NEW f, SolvesTail(f, L, step, piece, m)
    PROVE  \E g : SolvesTail(g, L, step, piece, m + 1)
<1> DEFINE a == L - m
           V(h, n) == IF step[n] = 0 THEN piece[n] ELSE piece[n] \o h[n + step[n]]
           g == [n \in LastPlaces(L, m + 1) |-> IF n = a THEN V(f, n) ELSE f[n]]
<1>1. /\ a \in 1 .. L /\ LastPlaces(L, m + 1) = a .. L + 1 /\ LastPlaces(L, m) = a + 1 .. L + 1
      /\ \A n \in a .. L + 1 : n = a \/ n \in a + 1 .. L + 1
      /\ \A n \in a + 1 .. L + 1 : n \in a .. L + 1 /\ n # a
      /\ a \in a .. L + 1
  BY DEF LastPlaces
<1> HIDE DEF a
<1>2. \A n \in a + 1 .. L + 1 : g[n] = f[n]
  BY <1>1
<1>3. g[a] = V(f, a)
  BY <1>1
<1>g. g = [n \in LastPlaces(L, m + 1) |-> g[n]]
  BY <1>1
<1> HIDE DEF g
<1>4. ASSUME NEW n \in a .. L + 1 PROVE V(g, n) = V(f, n)
  <2>1. CASE step[n] = 0
    BY <2>1
  <2>2. CASE step[n] # 0
    <3>1. n \in 1 .. L + 1
      BY <1>1
    <3> DEFINE d == step[n]
    <3>s. d \in Nat /\ d # 0 /\ n + d <= L + 1
      BY <2>2, <3>1 DEF Steps
    <3> HIDE DEF d
    <3>t. n + d \in a + 1 .. L + 1
      BY <1>1, <3>1, <3>s
    <3>2. n + step[n] \in a + 1 .. L + 1
      BY <3>t DEF d
    <3> QED
      BY <1>2, <3>2
  <2> QED
    BY <2>1, <2>2
<1>5. \A n \in a + 1 .. L + 1 : f[n] = V(f, n)
  BY <1>1 DEF SolvesTail
<1>6. \A n \in a .. L + 1 : g[n] = V(g, n)
  BY <1>1, <1>2, <1>3, <1>4, <1>5
<1>7. g = [n \in LastPlaces(L, m + 1) |-> V(g, n)]
  BY <1>1, <1>6, <1>g
<1> QED
  BY <1>7 DEF SolvesTail

\* There is one.
LEMMA SolutionExists ==
    ASSUME NEW L \in Nat, NEW step, NEW piece, Steps(L, step)
    PROVE  \E f : Solves(f, L, step, piece)
<1> DEFINE Bad == {m \in 0 .. L : ~\E f : SolvesTail(f, L, step, piece, m)}
<1>b. \A m \in 0 .. L : m \in Bad \/ \E f : SolvesTail(f, L, step, piece, m)
  OBVIOUS
<1>c. \A m \in Bad : m \in 0 .. L /\ ~\E f : SolvesTail(f, L, step, piece, m)
  OBVIOUS
<1> HIDE DEF Bad
<1>1. ASSUME Bad # {} PROVE FALSE
  <2>1. PICK m \in Bad : \A y \in Bad : m <= y
    <3>1. Bad \in SUBSET Nat
      BY <1>c
    <3> QED
      BY <1>1, <3>1, LeastNumber
  <2>2. CASE m = 0
    <3> DEFINE f == [n \in LastPlaces(L, 0) |-> piece[n]]
    <3>1. \A n \in LastPlaces(L, 0) : n = L + 1 /\ step[n] = 0
      BY DEF LastPlaces, Steps
    <3>2. f = [n \in LastPlaces(L, 0) |-> IF step[n] = 0 THEN piece[n] ELSE piece[n] \o f[n + step[n]]]
      BY <3>1
    <3>3. SolvesTail(f, L, step, piece, 0)
      BY <3>2 DEF SolvesTail
    <3> QED
      BY <1>c, <2>2, <3>3
  <2>3. CASE m # 0
    <3>1. m \in 0 .. L /\ m - 1 \in 0 .. L /\ (m - 1) + 1 = m /\ m <= L /\ ~(m <= m - 1)
      BY <1>c, <2>3
    <3>2. m - 1 \notin Bad
      BY <2>1, <3>1
    <3>3. PICK f : SolvesTail(f, L, step, piece, m - 1)
      BY <1>b, <3>1, <3>2
    <3>4. \E g : SolvesTail(g, L, step, piece, (m - 1) + 1)
      BY <3>1, <3>3, OnePlaceMore
    <3> QED
      BY <1>c, <3>1, <3>4
  <2> QED
    BY <2>2, <2>3
<1>2. PICK f : SolvesTail(f, L, step, piece, L)
  <2>1. L \in 0 .. L
    OBVIOUS
  <2> QED
    BY <1>b, <1>1, <2>1
<1>3. LastPlaces(L, L) = 1 .. L + 1
  BY DEF LastPlaces
<1> QED
  BY <1>2, <1>3 DEF SolvesTail, Solves

\* And only one, which is a text everywhere if all pieces are.
LEMMA SolutionIsOne ==
    ASSUME NEW L \in Nat, NEW step, NEW piece, Steps(L, step),
           NEW f, \A n \in 1 .. L + 1 :
                     f[n] = IF step[n] = 0 THEN piece[n] ELSE piece[n] \o f[n + step[n]],
           NEW g, \A n \in 1 .. L + 1 :
                     g[n] = IF step[n] = 0 THEN piece[n] ELSE piece[n] \o g[n + step[n]]
    PROVE  \A n \in 1 .. L + 1 : f[n] = g[n]
<1> DEFINE Bad == {m \in 0 .. L : f[L + 1 - m] # g[L + 1 - m]}
<1>b. \A m \in 0 .. L : m \in Bad \/ f[L + 1 - m] = g[L + 1 - m]
  OBVIOUS
<1>c. \A m \in Bad : m \in 0 .. L /\ f[L + 1 - m] # g[L + 1 - m]
  OBVIOUS
<1> HIDE DEF Bad
<1>1. ASSUME Bad # {} PROVE FALSE
  <2>1. PICK m \in Bad : \A y \in Bad : m <= y
    <3>1. Bad \in SUBSET Nat
      BY <1>c
    <3> QED
      BY <1>1, <3>1, LeastNumber
  <2> DEFINE n == L + 1 - m
  <2>2. m \in 0 .. L /\ n \in 1 .. L + 1 /\ f[n] # g[n]
    BY <1>c
  <2>3. step[n] # 0
    BY <2>2
  <2> DEFINE l == L + 1 - (n + step[n])
  <2>4. l \in 0 .. L /\ l < m /\ L + 1 - l = n + step[n]
    <3> DEFINE d == step[n]
    <3>1. d \in Nat /\ d # 0 /\ n + d <= L + 1
      BY <2>2, <2>3 DEF Steps
    <3> HIDE DEF d
    <3>2. L + 1 - (n + d) \in 0 .. L /\ L + 1 - (n + d) < m /\ L + 1 - (L + 1 - (n + d)) = n + d
      BY <2>2, <3>1
    <3> QED
      BY <3>2 DEF d
  <2> HIDE DEF l
  <2>5. l \notin Bad
    <3>1. l \in Bad => m <= l
      BY <2>1
    <3> QED
      BY <2>2, <2>4, <3>1
  <2>6. f[n + step[n]] = g[n + step[n]]
    BY <1>b, <2>4, <2>5
  <2> QED
    BY <2>2, <2>3, <2>6
<1>2. ASSUME NEW n \in 1 .. L + 1 PROVE f[n] = g[n]
  <2>1. L + 1 - n \in 0 .. L /\ L + 1 - (L + 1 - n) = n
    OBVIOUS
  <2>2. L + 1 - n \notin Bad
    BY <1>1
  <2> QED
    BY <1>b, <2>1, <2>2
<1> QED
  BY <1>2

LEMMA SolutionIsText ==
    ASSUME NEW L \in Nat, NEW step, NEW piece, Steps(L, step),
           \A n \in 1 .. L + 1 : piece[n] \in Seq(Chars),
           NEW f, \A n \in 1 .. L + 1 :
                     f[n] = IF step[n] = 0 THEN piece[n] ELSE piece[n] \o f[n + step[n]]
    PROVE  \A n \in 1 .. L + 1 : f[n] \in Seq(Chars)
<1> DEFINE Bad == {m \in 0 .. L : f[L + 1 - m] \notin Seq(Chars)}
<1>b. \A m \in 0 .. L : m \in Bad \/ f[L + 1 - m] \in Seq(Chars)
  OBVIOUS
<1>c. \A m \in Bad : m \in 0 .. L /\ f[L + 1 - m] \notin Seq(Chars)
  OBVIOUS
<1> HIDE DEF Bad
<1>1. ASSUME Bad # {} PROVE FALSE
  <2>1. PICK m \in Bad : \A y \in Bad : m <= y
    <3>1. Bad \in SUBSET Nat
      BY <1>c
    <3> QED
      BY <1>1, <3>1, LeastNumber
  <2> DEFINE n == L + 1 - m
  <2>2. m \in 0 .. L /\ n \in 1 .. L + 1 /\ f[n] \notin Seq(Chars)
    BY <1>c
  <2>3. step[n] # 0
    BY <2>2
  <2> DEFINE l == L + 1 - (n + step[n])
  <2>4. l \in 0 .. L /\ l < m /\ L + 1 - l = n + step[n]
    <3> DEFINE d == step[n]
    <3>1. d \in Nat /\ d # 0 /\ n + d <= L + 1
      BY <2>2, <2>3 DEF Steps
    <3> HIDE DEF d
    <3>2. L + 1 - (n + d) \in 0 .. L /\ L + 1 - (n + d) < m /\ L + 1 - (L + 1 - (n + d)) = n + d
      BY <2>2, <3>1
    <3> QED
      BY <3>2 DEF d
  <2> HIDE DEF l
  <2>5. l \notin Bad
    <3>1. l \in Bad => m <= l
      BY <2>1
    <3> QED
      BY <2>2, <2>4, <3>1
  <2> DEFINE t == f[n + step[n]]
             p == piece[n]
  <2>6. t \in Seq(Chars) /\ p \in Seq(Chars)
    BY <1>b, <2>2, <2>4, <2>5
  <2>7. f[n] = p \o t
    BY <2>2, <2>3
  <2> HIDE DEF t, p
  <2>8. p \o t \in Seq(Chars)
    BY <2>6, ConcatProperties
  <2> QED
    BY <2>2, <2>7, <2>8
<1>2. ASSUME NEW n \in 1 .. L + 1 PROVE f[n] \in Seq(Chars)
  <2>1. L + 1 - n \in 0 .. L /\ L + 1 - (L + 1 - n) = n
    OBVIOUS
  <2>2. L + 1 - n \notin Bad
    BY <1>1
  <2> QED
    BY <1>b, <2>1, <2>2
<1> QED
  BY <1>2

----------------------------------------------------------------------------
(* What the relay of a text is                                             *)

OnFrom(s, n) == SubSeq(s, n, Len(s))

LastOf(s) == IF TrimCR(s) = <<>> THEN <<>> ELSE Ended(s)

StepOf(s) == [n \in 1 .. Len(s) + 1 |-> Newline(OnFrom(s, n))]

PieceOf(s) == [n \in 1 .. Len(s) + 1 |->
                 IF Newline(OnFrom(s, n)) > 0
                 THEN Ended(SubSeq(OnFrom(s, n), 1, Newline(OnFrom(s, n)) - 1))
                 ELSE LastOf(OnFrom(s, n))]

\* What is made of each end of a text.
Tails(s) ==
    CHOOSE from : from = [n \in 1 .. Len(s) + 1 |->
        LET rest == SubSeq(s, n, Len(s))
            k == Newline(rest)
        IN  IF k > 0 THEN Ended(SubSeq(rest, 1, k - 1)) \o from[n + k]
            ELSE IF TrimCR(rest) = <<>> THEN <<>> ELSE Ended(rest)]

LEMMA RelayedIsTails == \A s : Relayed(s) = Tails(s)[1]
  BY DEF Relayed, Tails

LEMMA EndedType ==
    ASSUME NEW s \in Seq(Chars)
    PROVE  Ended(s) \in Seq(Chars) /\ LastOf(s) \in Seq(Chars) /\ <<"n">> \in Seq(Chars)
<1>1. Transform(TrimCR(s)) \in Seq(Chars)
  BY TrimmedType, TransformedType DEF Transform
<1>2. "n" \in Chars
  BY DEF Chars
<1>3. <<"n">> \in Seq(Chars)
  BY <1>2
<1>4. Ended(s) \in Seq(Chars)
  BY <1>1, <1>3, ConcatProperties DEF Ended
<1>5. <<>> \in Seq(Chars)
  BY EmptySeq
<1> QED
  BY <1>3, <1>4, <1>5 DEF LastOf

\* Of nothing nothing is made.
LEMMA LastOfNothing == LastOf(<<>>) = <<>> /\ Transform(<<>>) = <<>>
  BY DEF LastOf, TrimCR, Transform, TransformLine

LEMMA FirstNewlineIs ==
    ASSUME NEW s \in Seq(Chars), NEW k \in 1 .. Len(s), s[k] = "n",
           \A j \in 1 .. k - 1 : s[j] # "n"
    PROVE  Newline(s) = k
<1> DEFINE m == Newline(s)
<1>1. Len(s) \in Nat /\ k \in DOMAIN s /\ DOMAIN s = 1 .. Len(s)
  BY LenProperties
<1>2. m \in 0 .. Len(s) /\ (m = 0 => Relay!NoNewline(s))
      /\ (m > 0 => s[m] = "n" /\ \A j \in 1 .. m - 1 : s[j] # "n")
  BY FirstNewline
<1> HIDE DEF m
<1>3. m # 0
  BY <1>1, <1>2 DEF Relay!NoNewline
<1>4. m > 0
  BY <1>1, <1>2, <1>3
<1>5. ~(m < k)
  BY <1>1, <1>2, <1>4
<1>6. ~(k < m)
  BY <1>1, <1>2, <1>4
<1> QED
  BY <1>1, <1>2, <1>5, <1>6 DEF m

LEMMA NoNewlineIs ==
    ASSUME NEW s, Relay!NoNewline(s)
    PROVE  Newline(s) = 0
  BY DEF Newline, Relay!NoNewline

LEMMA OnFromShape ==
    ASSUME NEW s \in Seq(Chars), NEW n \in 1 .. Len(s) + 1
    PROVE  /\ OnFrom(s, n) \in Seq(Chars) /\ Len(OnFrom(s, n)) = Len(s) + 1 - n
           /\ \A j \in 1 .. Len(s) + 1 - n : OnFrom(s, n)[j] = s[n - 1 + j]
<1>1. Len(s) \in Nat /\ \A i \in 1 .. Len(s) : s[i] \in Chars
  BY LenProperties, ElementOfSeq
<1>2. n \in Int /\ Len(s) \in Int /\ \A i \in n .. Len(s) : s[i] \in Chars
  BY <1>1
<1>3. /\ OnFrom(s, n) \in Seq(Chars)
      /\ Len(OnFrom(s, n)) = IF n <= Len(s) THEN Len(s) - n + 1 ELSE 0
      /\ \A j \in 1 .. Len(s) - n + 1 : OnFrom(s, n)[j] = s[n + j - 1]
  BY <1>2, SubSeqProperties DEF OnFrom
<1>4. Len(OnFrom(s, n)) = Len(s) + 1 - n
  BY <1>1, <1>3
<1>5. ASSUME NEW j \in 1 .. Len(s) + 1 - n PROVE OnFrom(s, n)[j] = s[n - 1 + j]
  <2>1. j \in 1 .. Len(s) - n + 1 /\ n + j - 1 = n - 1 + j
    BY <1>1
  <2> QED
    BY <1>3, <2>1
<1> QED
  BY <1>3, <1>4, <1>5

LEMMA TextSteps ==
    ASSUME NEW s \in Seq(Chars)
    PROVE  /\ Steps(Len(s), StepOf(s))
           /\ \A n \in 1 .. Len(s) + 1 : PieceOf(s)[n] \in Seq(Chars)
<1>1. Len(s) \in Nat
  BY LenProperties
<1>2. ASSUME NEW n \in 1 .. Len(s) + 1
      PROVE  StepOf(s)[n] \in Nat /\ n + StepOf(s)[n] <= Len(s) + 1
  <2> DEFINE k == Newline(OnFrom(s, n))
  <2>1. OnFrom(s, n) \in Seq(Chars) /\ Len(OnFrom(s, n)) = Len(s) + 1 - n
    BY OnFromShape
  <2>2. k \in 0 .. Len(s) + 1 - n
    BY <2>1, FirstNewline
  <2>3. StepOf(s)[n] = k
    BY DEF StepOf
  <2> HIDE DEF k
  <2> QED
    BY <1>1, <2>2, <2>3
<1>3. DOMAIN StepOf(s) = 1 .. Len(s) + 1 /\ StepOf(s) = [n \in 1 .. Len(s) + 1 |-> StepOf(s)[n]]
  BY DEF StepOf
<1>4. ASSUME NEW n \in 1 .. Len(s) + 1 PROVE PieceOf(s)[n] \in Seq(Chars)
  <2> DEFINE k == Newline(OnFrom(s, n))
             t == OnFrom(s, n)
  <2>1. t \in Seq(Chars) /\ Len(t) \in Nat
    BY OnFromShape, LenProperties
  <2>2. k \in 0 .. Len(t)
    BY <2>1, FirstNewline
  <2>3. PieceOf(s)[n] = IF k > 0 THEN Ended(SubSeq(t, 1, k - 1)) ELSE LastOf(t)
    BY DEF PieceOf
  <2> HIDE DEF k, t
  <2>4. CASE k > 0
    <3>1. k - 1 \in 0 .. Len(t)
      BY <2>1, <2>2, <2>4
    <3>2. SubSeq(t, 1, k - 1) \in Seq(Chars)
      BY <2>1, <3>1, CutAnywhere
    <3> QED
      BY <2>3, <2>4, <3>2, EndedType
  <2>5. CASE ~(k > 0)
    BY <2>1, <2>3, <2>5, EndedType
  <2> QED
    BY <2>4, <2>5
<1>5. StepOf(s) \in [1 .. Len(s) + 1 -> Nat]
  BY <1>2, <1>3
<1> QED
  BY <1>2, <1>4, <1>5 DEF Steps

LEMMA TailsAre ==
    ASSUME NEW s \in Seq(Chars)
    PROVE  /\ \A n \in 1 .. Len(s) + 1 :
                 Tails(s)[n] = IF StepOf(s)[n] = 0 THEN PieceOf(s)[n]
                               ELSE PieceOf(s)[n] \o Tails(s)[n + StepOf(s)[n]]
           /\ \A n \in 1 .. Len(s) + 1 : Tails(s)[n] \in Seq(Chars)
<1>1. Len(s) \in Nat /\ Steps(Len(s), StepOf(s))
  BY LenProperties, TextSteps
<1>2. PICK f : Solves(f, Len(s), StepOf(s), PieceOf(s))
  BY <1>1, SolutionExists
<1> DEFINE V(h, n) == IF Newline(OnFrom(s, n)) > 0
                      THEN Ended(SubSeq(OnFrom(s, n), 1, Newline(OnFrom(s, n)) - 1))
                              \o h[n + Newline(OnFrom(s, n))]
                      ELSE LastOf(OnFrom(s, n))
<1>3. ASSUME NEW h, NEW n \in 1 .. Len(s) + 1
      PROVE  V(h, n) = IF StepOf(s)[n] = 0 THEN PieceOf(s)[n]
                       ELSE PieceOf(s)[n] \o h[n + StepOf(s)[n]]
  <2> DEFINE k == Newline(OnFrom(s, n))
  <2>1. StepOf(s)[n] = k /\ k \in Nat
    BY <1>1 DEF StepOf, Steps
  <2>2. PieceOf(s)[n] = IF k > 0 THEN Ended(SubSeq(OnFrom(s, n), 1, k - 1)) ELSE LastOf(OnFrom(s, n))
    BY DEF PieceOf
  <2>3. V(h, n) = IF k > 0 THEN Ended(SubSeq(OnFrom(s, n), 1, k - 1)) \o h[n + k]
                  ELSE LastOf(OnFrom(s, n))
    OBVIOUS
  <2> HIDE DEF k, V
  <2>4. CASE k = 0
    BY <2>1, <2>2, <2>3, <2>4
  <2>5. CASE k # 0
    <3>1. k > 0
      BY <2>1, <2>5
    <3> QED
      BY <2>1, <2>2, <2>3, <2>5, <3>1
  <2> QED
    BY <2>4, <2>5
<1>4. f = [n \in 1 .. Len(s) + 1 |-> V(f, n)]
  <2>1. \A n \in 1 .. Len(s) + 1 :
           V(f, n) = IF StepOf(s)[n] = 0 THEN PieceOf(s)[n]
                     ELSE PieceOf(s)[n] \o f[n + StepOf(s)[n]]
    BY <1>3
  <2> HIDE DEF V
  <2> QED
    BY <1>2, <2>1 DEF Solves
<1>5. Tails(s) = CHOOSE h : h = [n \in 1 .. Len(s) + 1 |-> V(h, n)]
  BY DEF Tails, OnFrom, LastOf
<1> DEFINE r == Tails(s)
<1> HIDE DEF V
<1>6. r = [n \in 1 .. Len(s) + 1 |-> V(r, n)]
  BY <1>4, <1>5
<1> HIDE DEF r
<1>7. \A n \in 1 .. Len(s) + 1 :
         r[n] = IF StepOf(s)[n] = 0 THEN PieceOf(s)[n] ELSE PieceOf(s)[n] \o r[n + StepOf(s)[n]]
  BY <1>3, <1>6
<1>8. \A n \in 1 .. Len(s) + 1 : r[n] \in Seq(Chars)
  BY <1>1, <1>7, TextSteps, SolutionIsText
<1> QED
  BY <1>7, <1>8 DEF r

LEMMA RelayedType ==
    ASSUME NEW s \in Seq(Chars)
    PROVE  Relayed(s) \in Seq(Chars)
<1>1. 1 \in 1 .. Len(s) + 1
  BY LenProperties
<1> QED
  BY <1>1, TailsAre, RelayedIsTails

----------------------------------------------------------------------------
(* The relay of whole lines and of what follows them                       *)

\* A text that consists of ended lines.
Complete(s) == s = <<>> \/ s[Len(s)] = "n"

LEMMA BehindTheFirst ==
    ASSUME NEW a \in Seq(Chars), NEW b \in Seq(Chars)
    PROVE  /\ a \o b \in Seq(Chars) /\ Len(a \o b) = Len(a) + Len(b)
           /\ Len(a) \in Nat /\ Len(b) \in Nat
           /\ \A i \in 1 .. Len(a) : (a \o b)[i] = a[i]
           /\ \A i \in 1 .. Len(b) : (a \o b)[Len(a) + i] = b[i]
<1> DEFINE r == a \o b
<1>1. /\ r \in Seq(Chars) /\ Len(r) = Len(a) + Len(b)
      /\ \A i \in 1 .. Len(a) + Len(b) :
            r[i] = IF i <= Len(a) THEN a[i] ELSE b[i - Len(a)]
  BY ConcatProperties
<1>2. Len(a) \in Nat /\ Len(b) \in Nat
  BY LenProperties
<1> HIDE DEF r
<1>3. \A i \in 1 .. Len(a) : r[i] = a[i]
  <2> SUFFICES ASSUME NEW i \in 1 .. Len(a) PROVE r[i] = a[i]
    OBVIOUS
  <2>1. i \in 1 .. Len(a) + Len(b) /\ i <= Len(a)
    BY <1>2
  <2> QED
    BY <1>1, <2>1
<1>4. \A i \in 1 .. Len(b) : r[Len(a) + i] = b[i]
  <2> SUFFICES ASSUME NEW i \in 1 .. Len(b) PROVE r[Len(a) + i] = b[i]
    OBVIOUS
  <2>1. Len(a) + i \in 1 .. Len(a) + Len(b) /\ ~(Len(a) + i <= Len(a))
        /\ (Len(a) + i) - Len(a) = i
    BY <1>2
  <2>2. r[Len(a) + i] = b[(Len(a) + i) - Len(a)]
    BY <1>1, <2>1
  <2> QED
    BY <2>1, <2>2
<1> QED
  BY <1>1, <1>2, <1>3, <1>4 DEF r

\* Behind whole lines a text goes on as it would by itself.
LEMMA StepsBehind ==
    ASSUME NEW a \in Seq(Chars), NEW b \in Seq(Chars), NEW n \in 1 .. Len(b) + 1
    PROVE  /\ Len(a) + n \in 1 .. Len(a \o b) + 1
           /\ StepOf(a \o b)[Len(a) + n] = StepOf(b)[n]
           /\ PieceOf(a \o b)[Len(a) + n] = PieceOf(b)[n]
<1> DEFINE s == a \o b
<1>1. /\ s \in Seq(Chars) /\ Len(s) = Len(a) + Len(b) /\ Len(a) \in Nat /\ Len(b) \in Nat
      /\ \A i \in 1 .. Len(b) : s[Len(a) + i] = b[i]
  BY BehindTheFirst
<1> HIDE DEF s
<1>2. Len(a) + n \in 1 .. Len(s) + 1
  BY <1>1
<1>3. OnFrom(s, Len(a) + n) = OnFrom(b, n)
  <2> DEFINE x == OnFrom(s, Len(a) + n)
             y == OnFrom(b, n)
             m == Len(a) + n
  <2>1. /\ x \in Seq(Chars) /\ Len(x) = Len(s) + 1 - m
        /\ \A j \in 1 .. Len(s) + 1 - m : x[j] = s[m - 1 + j]
    <3>1. m \in 1 .. Len(s) + 1
      BY <1>2
    <3> HIDE DEF m
    <3>2. /\ OnFrom(s, m) \in Seq(Chars) /\ Len(OnFrom(s, m)) = Len(s) + 1 - m
          /\ \A j \in 1 .. Len(s) + 1 - m : OnFrom(s, m)[j] = s[m - 1 + j]
      BY <1>1, <3>1, OnFromShape
    <3> QED
      BY <3>2 DEF m
  <2>2. /\ y \in Seq(Chars) /\ Len(y) = Len(b) + 1 - n
        /\ \A j \in 1 .. Len(b) + 1 - n : y[j] = b[n - 1 + j]
    BY OnFromShape
  <2> HIDE DEF x, y
  <2>3. Len(x) = Len(b) + 1 - n /\ Len(s) + 1 - m = Len(b) + 1 - n
    BY <1>1, <2>1
  <2>4. ASSUME NEW j \in 1 .. Len(b) + 1 - n PROVE x[j] = y[j]
    <3>1. n - 1 + j \in 1 .. Len(b) /\ m - 1 + j = Len(a) + (n - 1 + j)
      BY <1>1
    <3>2. x[j] = s[m - 1 + j]
      BY <2>1, <2>3
    <3>3. s[Len(a) + (n - 1 + j)] = b[n - 1 + j]
      BY <1>1, <3>1
    <3>4. y[j] = b[n - 1 + j]
      BY <2>2
    <3> HIDE DEF m
    <3> QED
      BY <3>1, <3>2, <3>3, <3>4
  <2>5. x = y
    <3>1. Len(x) = Len(y) /\ \A j \in 1 .. Len(x) : x[j] = y[j]
      BY <2>2, <2>3, <2>4
    <3> QED
      BY <2>1, <2>2, <3>1, SeqEqual
  <2> QED
    BY <2>5 DEF x, y
<1>4. StepOf(s)[Len(a) + n] = Newline(OnFrom(s, Len(a) + n))
  BY <1>2 DEF StepOf
<1>5. StepOf(b)[n] = Newline(OnFrom(b, n))
  BY DEF StepOf
<1>6. PieceOf(s)[Len(a) + n] =
         IF Newline(OnFrom(s, Len(a) + n)) > 0
         THEN Ended(SubSeq(OnFrom(s, Len(a) + n), 1, Newline(OnFrom(s, Len(a) + n)) - 1))
         ELSE LastOf(OnFrom(s, Len(a) + n))
  BY <1>2 DEF PieceOf
<1>7. PieceOf(b)[n] =
         IF Newline(OnFrom(b, n)) > 0
         THEN Ended(SubSeq(OnFrom(b, n), 1, Newline(OnFrom(b, n)) - 1))
         ELSE LastOf(OnFrom(b, n))
  BY DEF PieceOf
<1> QED
  BY <1>2, <1>3, <1>4, <1>5, <1>6, <1>7 DEF s

\* In whole lines each place has its newline, whatever follows.
LEMMA StepsWithin ==
    ASSUME NEW a \in Seq(Chars), NEW b \in Seq(Chars), Complete(a), NEW n \in 1 .. Len(a)
    PROVE  /\ n \in 1 .. Len(a) + 1 /\ n \in 1 .. Len(a \o b) + 1
           /\ StepOf(a)[n] # 0
           /\ StepOf(a \o b)[n] = StepOf(a)[n]
           /\ PieceOf(a \o b)[n] = PieceOf(a)[n]
<1> DEFINE s == a \o b
           x == OnFrom(a, n)
           y == OnFrom(s, n)
           k == Newline(x)
<1>1. /\ s \in Seq(Chars) /\ Len(s) = Len(a) + Len(b) /\ Len(a) \in Nat /\ Len(b) \in Nat
      /\ \A i \in 1 .. Len(a) : s[i] = a[i]
  BY BehindTheFirst
<1> HIDE DEF s
<1>2. n \in 1 .. Len(a) + 1 /\ n \in 1 .. Len(s) + 1
  BY <1>1
<1>3. /\ x \in Seq(Chars) /\ Len(x) = Len(a) + 1 - n
      /\ \A j \in 1 .. Len(a) + 1 - n : x[j] = a[n - 1 + j]
  BY <1>2, OnFromShape
<1>4. /\ y \in Seq(Chars) /\ Len(y) = Len(s) + 1 - n
      /\ \A j \in 1 .. Len(s) + 1 - n : y[j] = s[n - 1 + j]
  BY <1>1, <1>2, OnFromShape
<1>s. StepOf(a)[n] = k /\ StepOf(s)[n] = Newline(y)
  BY <1>2 DEF StepOf
<1>p. /\ PieceOf(a)[n] = IF k > 0 THEN Ended(SubSeq(x, 1, k - 1)) ELSE LastOf(x)
      /\ PieceOf(s)[n] = IF Newline(y) > 0 THEN Ended(SubSeq(y, 1, Newline(y) - 1)) ELSE LastOf(y)
  BY <1>2 DEF PieceOf
<1>5. k \in 0 .. Len(x) /\ (k = 0 => Relay!NoNewline(x))
      /\ (k > 0 => x[k] = "n" /\ \A j \in 1 .. k - 1 : x[j] # "n")
  BY <1>3, FirstNewline
<1> HIDE DEF x, y, k
<1>6. k # 0
  <2>1. a # <<>>
    BY <1>1, EmptySeq
  <2>2. a[Len(a)] = "n"
    BY <2>1 DEF Complete
  <2>3. Len(x) \in 1 .. Len(a) + 1 - n /\ n - 1 + Len(x) = Len(a) /\ Len(x) \in DOMAIN x
    BY <1>1, <1>3, LenProperties
  <2>4. x[Len(x)] = "n"
    BY <1>3, <2>2, <2>3
  <2> QED
    BY <1>5, <2>3, <2>4 DEF Relay!NoNewline
<1>7. k \in 1 .. Len(x) /\ x[k] = "n" /\ \A j \in 1 .. k - 1 : x[j] # "n"
  <2>1. Len(x) \in Nat /\ k \in 1 .. Len(x) /\ k > 0
    BY <1>1, <1>3, <1>5, <1>6
  <2> QED
    BY <1>5, <2>1
<1>8. \A j \in 1 .. Len(x) : y[j] = x[j]
  <2> SUFFICES ASSUME NEW j \in 1 .. Len(x) PROVE y[j] = x[j]
    OBVIOUS
  <2>1. /\ j \in 1 .. Len(a) + 1 - n /\ j \in 1 .. Len(s) + 1 - n
        /\ n - 1 + j \in 1 .. Len(a)
    BY <1>1, <1>3
  <2>2. y[j] = s[n - 1 + j]
    BY <1>4, <2>1
  <2>3. x[j] = a[n - 1 + j]
    BY <1>3, <2>1
  <2>4. s[n - 1 + j] = a[n - 1 + j]
    BY <1>1, <2>1
  <2> QED
    BY <2>2, <2>3, <2>4
<1>9. Newline(y) = k
  <2>1. k \in 1 .. Len(y) /\ \A j \in 1 .. k - 1 : j \in 1 .. Len(x)
    BY <1>1, <1>3, <1>4, <1>7
  <2>2. y[k] = "n" /\ \A j \in 1 .. k - 1 : y[j] # "n"
    BY <1>7, <1>8, <2>1
  <2> QED
    BY <1>4, <2>1, <2>2, FirstNewlineIs
<1>10. SubSeq(y, 1, k - 1) = SubSeq(x, 1, k - 1)
  <2>1. k - 1 \in Int /\ 1 \in Int /\ \A i \in 1 .. k - 1 : i \in 1 .. Len(x) /\ 1 + i - 1 = i
    BY <1>1, <1>3, <1>7
  <2>2. \A i \in 1 .. k - 1 : x[i] \in Chars /\ y[i] \in Chars
    BY <1>3, <1>8, <2>1, ElementOfSeq
  <2> DEFINE u == SubSeq(x, 1, k - 1)
             v == SubSeq(y, 1, k - 1)
             l == k - 1
  <2>l. l \in Int
    BY <2>1
  <2>3. /\ u \in Seq(Chars) /\ Len(u) = IF 1 <= l THEN l - 1 + 1 ELSE 0
        /\ \A i \in 1 .. l - 1 + 1 : u[i] = x[1 + i - 1]
    <3> HIDE DEF l
    <3> QED
      BY <2>2, <2>l, SubSeqProperties DEF l
  <2>4. /\ v \in Seq(Chars) /\ Len(v) = IF 1 <= l THEN l - 1 + 1 ELSE 0
        /\ \A i \in 1 .. l - 1 + 1 : v[i] = y[1 + i - 1]
    <3> HIDE DEF l
    <3> QED
      BY <2>2, <2>l, SubSeqProperties DEF l
  <2> HIDE DEF u, v
  <2>5. Len(u) = Len(v)
    BY <2>3, <2>4
  <2>6. ASSUME NEW i \in 1 .. Len(u) PROVE u[i] = v[i]
    <3>1. i \in 1 .. l - 1 + 1 /\ i \in 1 .. k - 1
      BY <2>3, <2>l
    <3>2. u[i] = x[1 + i - 1] /\ v[i] = y[1 + i - 1] /\ 1 + i - 1 = i /\ i \in 1 .. Len(x)
      BY <2>1, <2>3, <2>4, <3>1
    <3> QED
      BY <1>8, <3>2
  <2>7. u = v
    BY <2>3, <2>4, <2>5, <2>6, SeqEqual
  <2> QED
    BY <2>7 DEF u, v
<1>11. k > 0
  BY <1>7, <1>1, <1>3
<1> QED
  BY <1>2, <1>6, <1>9, <1>10, <1>11, <1>s, <1>p DEF s

\* The same with a name for the system, which two functions may meet.
Meets(f, L, step, piece) ==
    \A n \in 1 .. L + 1 : f[n] = IF step[n] = 0 THEN piece[n] ELSE piece[n] \o f[n + step[n]]

LEMMA MeetsIsOne ==
    ASSUME NEW L \in Nat, NEW step, NEW piece, Steps(L, step),
           NEW f, Meets(f, L, step, piece), NEW g, Meets(g, L, step, piece)
    PROVE  \A n \in 1 .. L + 1 : f[n] = g[n]
<1>1. \A n \in 1 .. L + 1 : f[n] = IF step[n] = 0 THEN piece[n] ELSE piece[n] \o f[n + step[n]]
  BY DEF Meets
<1>2. \A n \in 1 .. L + 1 : g[n] = IF step[n] = 0 THEN piece[n] ELSE piece[n] \o g[n + step[n]]
  BY DEF Meets
<1> QED
  BY <1>1, <1>2, SolutionIsOne

LEMMA RelayedOfBoth ==
    ASSUME NEW a \in Seq(Chars), NEW b \in Seq(Chars), Complete(a)
    PROVE  Relayed(a \o b) = Relayed(a) \o Relayed(b)
<1> DEFINE s == a \o b
           L == Len(a)
           M == Len(b)
           T == Tails(s)
           A == Tails(a)
           B == Tails(b)
           R == Relayed(b)
           step == StepOf(a)
           piece == [n \in 1 .. L + 1 |-> IF n = L + 1 THEN R ELSE PieceOf(a)[n]]
<1>1. s \in Seq(Chars) /\ Len(s) = L + M /\ L \in Nat /\ M \in Nat
  BY BehindTheFirst
<1>2. /\ \A n \in 1 .. Len(s) + 1 :
            T[n] = IF StepOf(s)[n] = 0 THEN PieceOf(s)[n]
                   ELSE PieceOf(s)[n] \o T[n + StepOf(s)[n]]
      /\ \A n \in 1 .. Len(s) + 1 : T[n] \in Seq(Chars)
  BY <1>1, TailsAre
<1>3. /\ \A n \in 1 .. L + 1 :
            A[n] = IF step[n] = 0 THEN PieceOf(a)[n] ELSE PieceOf(a)[n] \o A[n + step[n]]
      /\ \A n \in 1 .. L + 1 : A[n] \in Seq(Chars)
  BY TailsAre
<1>4. \A n \in 1 .. M + 1 :
         B[n] = IF StepOf(b)[n] = 0 THEN PieceOf(b)[n] ELSE PieceOf(b)[n] \o B[n + StepOf(b)[n]]
  BY TailsAre
<1>5. /\ Steps(L, step) /\ \A n \in 1 .. L + 1 : PieceOf(a)[n] \in Seq(Chars)
      /\ Steps(M, StepOf(b))
  BY TextSteps
<1>6. R = B[1] /\ R \in Seq(Chars)
  BY RelayedIsTails, RelayedType
<1>w. \A n \in 1 .. L : /\ n \in 1 .. L + 1 /\ n \in 1 .. Len(s) + 1 /\ step[n] # 0
                        /\ StepOf(s)[n] = step[n] /\ PieceOf(s)[n] = PieceOf(a)[n]
  BY StepsWithin
<1>b. \A n \in 1 .. M + 1 : /\ L + n \in 1 .. Len(s) + 1
                            /\ StepOf(s)[L + n] = StepOf(b)[n]
                            /\ PieceOf(s)[L + n] = PieceOf(b)[n]
  BY StepsBehind
<1>7. step[L + 1] = 0 /\ PieceOf(a)[L + 1] = <<>>
  <2> DEFINE e == OnFrom(a, L + 1)
  <2>1. L + 1 \in 1 .. L + 1
    BY <1>1
  <2>2. e = <<>>
    <3>1. L + 1 \in Int /\ L \in Int /\ L < L + 1
      BY <1>1
    <3> HIDE DEF L
    <3>2. SubSeq(a, L + 1, L) = <<>>
      BY <3>1, SubSeqEmpty
    <3> QED
      BY <3>2 DEF OnFrom, L
  <2>3. Relay!NoNewline(e)
    BY <2>2, NoPieces
  <2>4. Newline(e) = 0
    BY <2>3, NoNewlineIs
  <2>5. step[L + 1] = Newline(e)
    BY <2>1 DEF StepOf
  <2>6. PieceOf(a)[L + 1] = IF Newline(e) > 0 THEN Ended(SubSeq(e, 1, Newline(e) - 1)) ELSE LastOf(e)
    BY <2>1 DEF PieceOf
  <2> HIDE DEF e
  <2>7. ~(Newline(e) > 0)
    BY <2>4
  <2> QED
    BY <2>2, <2>4, <2>5, <2>6, <2>7, LastOfNothing
<1> HIDE DEF s, L, M, T, A, B, R, step
<1>8. \A n \in 1 .. M + 1 : T[L + n] = B[n]
  <2> DEFINE f == [n \in 1 .. M + 1 |-> T[L + n]]
             sb == StepOf(b)
             pb == PieceOf(b)
  <2>1. ASSUME NEW n \in 1 .. M + 1
        PROVE  f[n] = IF sb[n] = 0 THEN pb[n] ELSE pb[n] \o f[n + sb[n]]
    <3>1. T[L + n] = IF sb[n] = 0 THEN pb[n] ELSE pb[n] \o T[L + n + sb[n]]
      BY <1>2, <1>b
    <3>2. sb[n] \in Nat /\ n + sb[n] <= M + 1
      BY <1>5 DEF Steps
    <3> DEFINE d == sb[n]
    <3>3. f[n] = T[L + n]
      OBVIOUS
    <3>d. d = sb[n] /\ d \in Nat /\ n + d <= M + 1
      BY <3>2
    <3> HIDE DEF d
    <3>4. n + d \in 1 .. M + 1 /\ L + (n + d) = L + n + d
      BY <1>1, <3>d
    <3>5. f[n + d] = T[L + (n + d)]
      BY <3>4
    <3>6. f[n + d] = T[L + n + d]
      BY <3>4, <3>5
    <3> HIDE DEF f
    <3>7. f[n + sb[n]] = T[L + n + sb[n]]
      BY <3>6, <3>d
    <3> QED
      BY <3>1, <3>3, <3>7
  <2> HIDE DEF f, sb, pb
  <2>2. \A n \in 1 .. M + 1 : f[n] = B[n]
    <3>1. Meets(B, M, sb, pb)
      BY <1>4 DEF sb, pb, Meets
    <3>2. M \in Nat /\ Steps(M, sb)
      BY <1>1, <1>5 DEF sb
    <3>3. Meets(f, M, sb, pb)
      BY <2>1 DEF Meets
    <3> QED
      BY <3>1, <3>2, <3>3, MeetsIsOne
  <2> QED
    BY <2>2 DEF f
<1>9. T[L + 1] = R
  <2>1. 1 \in 1 .. M + 1
    BY <1>1
  <2> QED
    BY <1>6, <1>8, <2>1
<1> DEFINE g == [n \in 1 .. L + 1 |-> A[n] \o R]
<1>10. ASSUME NEW n \in 1 .. L + 1
       PROVE  T[n] = IF step[n] = 0 THEN piece[n] ELSE piece[n] \o T[n + step[n]]
  <2>1. CASE n = L + 1
    BY <1>7, <1>9, <2>1
  <2>2. CASE n # L + 1
    <3>1. n \in 1 .. L
      BY <1>1, <2>2
    <3>2. piece[n] = PieceOf(a)[n]
      BY <2>2
    <3> HIDE DEF piece
    <3> QED
      BY <1>2, <1>w, <3>1, <3>2
  <2> QED
    BY <2>1, <2>2
<1>11. ASSUME NEW n \in 1 .. L + 1
       PROVE  g[n] = IF step[n] = 0 THEN piece[n] ELSE piece[n] \o g[n + step[n]]
  <2>1. CASE n = L + 1
    <3>1. A[n] = <<>>
      BY <1>3, <1>7, <2>1
    <3>2. A[n] \o R = R
      BY <1>6, <3>1, ConcatEmptySeq
    <3> QED
      BY <1>7, <2>1, <3>2
  <2>2. CASE n # L + 1
    <3>1. n \in 1 .. L
      BY <1>1, <2>2
    <3>2. piece[n] = PieceOf(a)[n]
      BY <2>2
    <3> DEFINE p == PieceOf(a)[n]
               t == A[n + step[n]]
               m == n + step[n]
    <3>3. step[n] # 0 /\ A[n] = p \o t
      BY <1>3, <1>w, <3>1
    <3>4. m \in 1 .. L + 1
      <4> DEFINE d == step[n]
      <4>1. d \in Nat /\ n + d <= L + 1
        BY <1>5 DEF Steps
      <4> HIDE DEF d
      <4>2. n + d \in 1 .. L + 1
        BY <1>1, <4>1
      <4> QED
        BY <4>2 DEF d
    <3>5. p \in Seq(Chars) /\ t \in Seq(Chars)
      BY <1>3, <1>5, <3>4
    <3>6. g[n] = A[n] \o R /\ g[m] = t \o R
      BY <3>4
    <3> HIDE DEF p, t, g, piece
    <3>r. R \in Seq(Chars)
      BY <1>6
    <3>7. (p \o t) \o R = p \o (t \o R)
      BY <3>r, <3>5, ConcatAssociative
    <3>8. g[n] = p \o g[n + step[n]]
      BY <3>3, <3>6, <3>7
    <3> QED
      BY <3>2, <3>3, <3>8 DEF p
  <2> QED
    BY <2>1, <2>2
<1> HIDE DEF piece
<1>12. \A n \in 1 .. L + 1 : T[n] = g[n]
  <2> HIDE DEF g
  <2>1. Meets(T, L, step, piece)
    BY <1>10 DEF Meets
  <2>2. Meets(g, L, step, piece)
    BY <1>11 DEF Meets
  <2> QED
    BY <1>1, <1>5, <2>1, <2>2, MeetsIsOne
<1>13. 1 \in 1 .. L + 1
  BY <1>1
<1>14. T[1] = A[1] \o R
  BY <1>12, <1>13
<1> QED
  BY <1>14, RelayedIsTails DEF T, A, R, s

\* A line without its newline is the last one.
LEMMA RelayedOfLast ==
    ASSUME NEW s \in Seq(Chars), Relay!NoNewline(s)
    PROVE  Relayed(s) = LastOf(s)
<1>1. 1 \in 1 .. Len(s) + 1
  BY LenProperties
<1>2. OnFrom(s, 1) = s
  BY SubSeqFull DEF OnFrom
<1>3. Newline(s) = 0
  BY NoNewlineIs
<1>4. StepOf(s)[1] = 0
  BY <1>1, <1>2, <1>3 DEF StepOf
<1>5. PieceOf(s)[1] = LastOf(s)
  <2>1. PieceOf(s)[1] = IF Newline(s) > 0 THEN Ended(SubSeq(s, 1, Newline(s) - 1)) ELSE LastOf(s)
    BY <1>1, <1>2 DEF PieceOf
  <2>2. ~(Newline(s) > 0)
    BY <1>3
  <2> QED
    BY <2>1, <2>2
<1> QED
  BY <1>1, <1>4, <1>5, TailsAre, RelayedIsTails

\* A line with its newline.
LEMMA RelayedOfLine ==
    ASSUME NEW l \in Seq(Chars), Relay!NoNewline(l)
    PROVE  /\ l \o <<"n">> \in Seq(Chars) /\ Complete(l \o <<"n">>)
           /\ Relayed(l \o <<"n">>) = Ended(l)
<1> DEFINE nl == <<"n">>
           s == l \o nl
           k == Len(l) + 1
<1>0. nl \in Seq(Chars) /\ Len(nl) = 1 /\ nl[1] = "n"
  <2>1. "n" \in Chars
    BY DEF Chars
  <2> QED
    BY <2>1
<1> HIDE DEF nl
<1>1. /\ s \in Seq(Chars) /\ Len(s) = k /\ Len(l) \in Nat
      /\ \A i \in 1 .. Len(l) : s[i] = l[i]
      /\ s[k] = "n"
  <2>1. /\ s \in Seq(Chars) /\ Len(s) = Len(l) + Len(nl) /\ Len(l) \in Nat
        /\ \A i \in 1 .. Len(l) : s[i] = l[i]
        /\ \A i \in 1 .. Len(nl) : s[Len(l) + i] = nl[i]
    BY <1>0, BehindTheFirst
  <2>2. 1 \in 1 .. Len(nl)
    BY <1>0
  <2> HIDE DEF s
  <2> QED
    BY <1>0, <2>1, <2>2
<1>a. SubSeq(s, 1, Len(l)) = l
  BY <1>0, CutAfter
<1> HIDE DEF s
<1>2. k \in 1 .. Len(s) /\ \A j \in 1 .. k - 1 : j \in 1 .. Len(l) /\ j \in DOMAIN l
  BY <1>1, LenProperties
<1>3. \A j \in 1 .. k - 1 : s[j] # "n"
  BY <1>1, <1>2 DEF Relay!NoNewline
<1>4. Newline(s) = k
  <2> HIDE DEF k
  <2> QED
    BY <1>1, <1>2, <1>3, FirstNewlineIs
<1>5. 1 \in 1 .. Len(s) + 1 /\ k + 1 \in 1 .. Len(s) + 1 /\ k > 0 /\ k # 0 /\ 1 + k = k + 1
      /\ k - 1 = Len(l)
  BY <1>1
<1>6. OnFrom(s, 1) = s
  BY <1>1, SubSeqFull DEF OnFrom
<1>7. StepOf(s)[1] = k
  BY <1>4, <1>5, <1>6 DEF StepOf
<1>8. PieceOf(s)[1] = Ended(l)
  <2>1. PieceOf(s)[1] = IF k > 0 THEN Ended(SubSeq(s, 1, k - 1)) ELSE LastOf(s)
    BY <1>4, <1>5, <1>6 DEF PieceOf
  <2> HIDE DEF k
  <2> QED
    BY <1>5, <1>a, <2>1
<1>9. Tails(s)[k + 1] = <<>>
  <2>1. OnFrom(s, k + 1) = <<>>
    <3>1. SubSeq(s, k + 1, k) = <<>>
      BY <1>1, SubSeqEmpty
    <3> QED
      BY <1>1, <3>1 DEF OnFrom
  <2>2. Newline(<<>>) = 0
    BY NoPieces, NoNewlineIs
  <2>3. StepOf(s)[k + 1] = 0
    BY <1>5, <2>1, <2>2 DEF StepOf
  <2>4. PieceOf(s)[k + 1] = <<>>
    <3>1. PieceOf(s)[k + 1] = IF Newline(<<>>) > 0 THEN Ended(SubSeq(<<>>, 1, Newline(<<>>) - 1))
                              ELSE LastOf(<<>>)
      BY <1>5, <2>1 DEF PieceOf
    <3>2. ~(Newline(<<>>) > 0)
      BY <2>2
    <3> QED
      BY <3>1, <3>2, LastOfNothing
  <2> HIDE DEF k
  <2> QED
    BY <1>1, <1>5, <2>3, <2>4, TailsAre
<1> HIDE DEF k
<1>10. Tails(s)[1] = Ended(l) \o <<>>
  <2>1. Tails(s)[1] = IF StepOf(s)[1] = 0 THEN PieceOf(s)[1]
                      ELSE PieceOf(s)[1] \o Tails(s)[1 + StepOf(s)[1]]
    BY <1>1, <1>5, TailsAre
  <2> QED
    BY <1>5, <1>7, <1>8, <1>9, <2>1
<1>11. Ended(l) \o <<>> = Ended(l)
  BY EndedType, ConcatEmptySeq
<1>12. Complete(s)
  BY <1>1 DEF Complete
<1> QED
  BY <1>1, <1>10, <1>11, <1>12, RelayedIsTails DEF s, nl

----------------------------------------------------------------------------
(* The synthetic event                                                     *)

LEMMA NothingToTrim ==
    ASSUME NEW s \in Seq(Chars), \A k \in 1 .. Len(s) : s[k] # "r"
    PROVE  TrimCR(s) = s
<1>1. CASE s = <<>>
  BY <1>1 DEF TrimCR
<1>2. CASE s # <<>>
  <2>1. Len(s) \in Nat /\ Len(s) # 0
    BY <1>2, EmptySeq, LenProperties
  <2>2. Len(s) \in 1 .. Len(s)
    BY <2>1
  <2> QED
    BY <2>2 DEF TrimCR, Last
<1> QED
  BY <1>1, <1>2

\* Behind the last place there is nothing.
LEMMA NothingBehind ==
    ASSUME NEW s \in Seq(Chars)
    PROVE  Len(s) \in Nat /\ OnFrom(s, Len(s) + 1) = <<>> /\ Newline(<<>>) = 0
<1>1. Len(s) \in Nat
  BY LenProperties
<1> DEFINE L == Len(s)
<1>2. L \in Int /\ L + 1 \in Int /\ L < L + 1
  BY <1>1
<1> HIDE DEF L
<1>3. SubSeq(s, L + 1, L) = <<>>
  BY <1>2, SubSeqEmpty
<1> QED
  BY <1>1, <1>3, NoPieces, NoNewlineIs DEF OnFrom, L

\* SanitizeEvent makes of whole lines what the relay makes of them.
LEMMA EventIsRelayed ==
    ASSUME NEW s \in Seq(Chars), Complete(s), \A k \in 1 .. Len(s) : s[k] # "r"
    PROVE  SanitizeEvent(s) = Relayed(s)
<1> DEFINE L == Len(s)
           step == StepOf(s)
           piece == PieceOf(s)
           E(h, n) == IF Newline(OnFrom(s, n)) = 0 THEN Transform(OnFrom(s, n))
                      ELSE Transform(SubSeq(OnFrom(s, n), 1, Newline(OnFrom(s, n)) - 1))
                               \o <<"n">> \o h[n + Newline(OnFrom(s, n))]
           e == CHOOSE h : h = [n \in 1 .. L + 1 |-> E(h, n)]
<1>1. L \in Nat /\ Steps(L, step)
  BY LenProperties, TextSteps
<1>2. SanitizeEvent(s) = e[1]
  BY DEF SanitizeEvent, OnFrom
<1>3. ASSUME NEW h, NEW n \in 1 .. L + 1
      PROVE  E(h, n) = IF step[n] = 0 THEN piece[n] ELSE piece[n] \o h[n + step[n]]
  <2> DEFINE x == OnFrom(s, n)
             k == Newline(x)
             l == SubSeq(x, 1, k - 1)
  <2>1. step[n] = k
    BY DEF StepOf
  <2>2. piece[n] = IF k > 0 THEN Ended(l) ELSE LastOf(x)
    BY DEF PieceOf
  <2>3. E(h, n) = IF k = 0 THEN Transform(x) ELSE Transform(l) \o <<"n">> \o h[n + k]
    OBVIOUS
  <2>4. /\ x \in Seq(Chars) /\ Len(x) = L + 1 - n
        /\ \A j \in 1 .. L + 1 - n : x[j] = s[n - 1 + j]
    BY OnFromShape
  <2>5. CASE k = 0
    <3>1. n = L + 1
      <4>1. n \notin 1 .. L
        <5>1. <<>> \in Seq(Chars)
          BY EmptySeq
        <5> QED
          BY <5>1, <2>1, <2>5, StepsWithin
      <4> QED
        BY <1>1, <4>1
    <3>2. x = <<>>
      BY <3>1, NothingBehind
    <3>3. ~(k > 0)
      BY <2>5
    <3> HIDE DEF x, k, l, E, step, piece
    <3> QED
      BY <2>1, <2>2, <2>3, <2>5, <3>2, <3>3, LastOfNothing
  <2>6. CASE k # 0
    <3>1. k \in 1 .. Len(x) /\ k > 0
      <4>1. k \in 0 .. Len(x) /\ Len(x) \in Nat
        BY <2>4, FirstNewline, LenProperties
      <4> HIDE DEF k, x
      <4> QED
        BY <2>6, <4>1
    <3> HIDE DEF x, k
    <3>2. Len(x) \in Nat /\ k - 1 \in 0 .. Len(x)
      BY <1>1, <2>4, <3>1, LenProperties
    <3>3. l \in Seq(Chars) /\ Len(l) = k - 1
      BY <2>4, <3>2, CutAnywhere
    <3>4. \A j \in 1 .. k - 1 : l[j] = x[j]
      <4>1. \A i \in 1 .. k - 1 : x[i] \in Chars
        BY <2>4, <3>1, <3>2, ElementOfSeq
      <4> DEFINE m == k - 1
      <4>2. m \in Int
        BY <3>2
      <4>3. \A i \in 1 .. m - 1 + 1 : SubSeq(x, 1, m)[i] = x[1 + i - 1]
        <5> HIDE DEF m
        <5> QED
          BY <4>1, <4>2, SubSeqProperties DEF m
      <4>4. \A i \in 1 .. k - 1 : i \in 1 .. m - 1 + 1 /\ 1 + i - 1 = i
        BY <4>2
      <4> QED
        BY <4>3, <4>4
    <3>5. \A j \in 1 .. Len(l) : l[j] # "r"
      <4> SUFFICES ASSUME NEW j \in 1 .. Len(l) PROVE l[j] # "r"
        OBVIOUS
      <4>1. j \in 1 .. k - 1 /\ j \in 1 .. L + 1 - n /\ n - 1 + j \in 1 .. L
        BY <1>1, <2>4, <3>1, <3>2, <3>3
      <4>2. l[j] = s[n - 1 + j]
        BY <2>4, <3>4, <4>1
      <4>3. s[n - 1 + j] # "r"
        BY <4>1
      <4> QED
        BY <4>2, <4>3
    <3> HIDE DEF l
    <3>6. Ended(l) = Transform(l) \o <<"n">>
      BY <3>3, <3>5, NothingToTrim DEF Ended
    <3> HIDE DEF E, step, piece
    <3> QED
      BY <2>1, <2>2, <2>3, <2>6, <3>1, <3>6
  <2> QED
    BY <2>5, <2>6
<1>4. PICK f : Solves(f, L, step, piece)
  BY <1>1, SolutionExists
<1>5. f = [n \in 1 .. L + 1 |-> E(f, n)]
  <2>1. \A n \in 1 .. L + 1 :
           E(f, n) = IF step[n] = 0 THEN piece[n] ELSE piece[n] \o f[n + step[n]]
    BY <1>3
  <2> HIDE DEF E
  <2> QED
    BY <1>4, <2>1 DEF Solves
<1>6. e = [n \in 1 .. L + 1 |-> E(e, n)]
  <2> HIDE DEF E
  <2> QED
    BY <1>5
<1> HIDE DEF e
<1>7. Meets(e, L, step, piece)
  BY <1>3, <1>6 DEF Meets
<1>8. Meets(Tails(s), L, step, piece)
  BY TailsAre DEF Meets
<1> HIDE DEF step, piece, L
<1>9. e[1] = Tails(s)[1]
  <2>1. 1 \in 1 .. L + 1
    BY <1>1
  <2> QED
    BY <1>1, <1>7, <1>8, <2>1, MeetsIsOne
<1> QED
  BY <1>2, <1>9, RelayedIsTails

\* What is sent PreambleCopies times is sent twice.
LEMMA TwoCopies ==
    ASSUME NEW t \in Seq(Chars)
    PROVE  FlattenSeq([k \in 1 .. PreambleCopies |-> t]) = t \o t
<1> DEFINE c == [k \in 1 .. PreambleCopies |-> t]
           F(h, i) == IF i = 1 THEN c[i] ELSE h[i - 1] \o c[i]
           r == CHOOSE h : h = [i \in 1 .. Len(c) |-> F(h, i)]
           f == [i \in 1 .. 2 |-> IF i = 1 THEN t ELSE t \o t]
<1>1. PreambleCopies = 2 /\ c \in Seq({t}) /\ Len(c) = 2 /\ c[1] = t /\ c[2] = t
  BY DEF PreambleCopies
<1>2. FlattenSeq(c) = r[2]
  <2> HIDE DEF c
  <2> QED
    BY <1>1 DEF FlattenSeq
<1> HIDE DEF c
<1>3. f = [i \in 1 .. Len(c) |-> F(f, i)]
  <2>1. \A i \in 1 .. 2 : f[i] = F(f, i)
    <3>1. f[1] = F(f, 1)
      BY <1>1
    <3>2. f[2] = F(f, 2)
      BY <1>1
    <3>3. \A i \in 1 .. 2 : i = 1 \/ i = 2
      OBVIOUS
    <3> HIDE DEF f, F
    <3> QED
      BY <3>1, <3>2, <3>3
  <2> HIDE DEF F
  <2> QED
    BY <1>1, <2>1
<1>4. r = [i \in 1 .. Len(c) |-> F(r, i)]
  <2> HIDE DEF F, f
  <2> QED
    BY <1>3
<1> HIDE DEF r
<1>5. r[1] = F(r, 1) /\ r[2] = F(r, 2)
  <2>1. 1 \in 1 .. Len(c) /\ 2 \in 1 .. Len(c)
    BY <1>1
  <2> HIDE DEF F
  <2> QED
    BY <1>4, <2>1
<1>6. F(r, 1) = t /\ F(r, 2) = r[1] \o t
  <2>1. 2 # 1 /\ 2 - 1 = 1
    OBVIOUS
  <2> QED
    BY <1>1, <2>1
<1> QED
  BY <1>2, <1>5, <1>6 DEF c

\* gateway/response.go: before the answer the client has got the synthetic
\* event as the relay would have passed it on.
LEMMA PreambleIsRelayed ==
    ASSUME NEW s \in Streams
    PROVE  /\ s.frame \in Seq(Chars) /\ s.body \in Seq(Chars)
           /\ FlattenSeq([k \in 1 .. PreambleCopies |-> SanitizeEvent(s.frame)])
                 = Relayed(s.frame) \o Relayed(s.frame)
<1> DEFINE fr == s.frame
<1>1. fr \in Seq(Chars) /\ s.body \in Seq(Chars)
  BY StreamAssumption
<1>2. Complete(fr)
  BY StreamAssumption DEF Complete, Last
<1>3. \A k \in 1 .. Len(fr) : fr[k] # "r"
  <2>1. \A k \in DOMAIN fr : fr[k] # "r"
    BY StreamAssumption
  <2>2. DOMAIN fr = 1 .. Len(fr)
    BY <1>1, LenProperties
  <2> QED
    BY <2>1, <2>2
<1> HIDE DEF fr
<1>4. SanitizeEvent(fr) = Relayed(fr)
  BY <1>1, <1>2, <1>3, EventIsRelayed
<1>5. Relayed(fr) \in Seq(Chars)
  BY <1>1, RelayedType
<1> QED
  BY <1>1, <1>4, <1>5, TwoCopies DEF fr

----------------------------------------------------------------------------
(* What the client has got, and what is on its way                         *)

Left == acc \o buf \o src

\* No line of it is empty: what may wait while PipeSSE waits.
Quiet(s) == \A k \in 1 .. Len(s) : s[k] = "n" => k > 1 /\ s[k - 1] # "n"

\* What lies between the client and the reader is the relay of the whole lines
\* that have been taken; after the last line it is the relay of the text.
TextInv ==
    /\ sent \in Seq(Chars) /\ Relay!NoNewline(line) /\ Quiet(held)
    /\ result # "none" => pc = "done"
    /\ Short /\ ~gone =>
          /\ pc \in {"preamble", "read"} =>
                \E a \in Seq(Chars) : /\ Complete(a) /\ stream.body = a \o Left
                                      /\ sent \o held = Relayed(a)
          /\ pc = "write" /\ err = "none" =>
                \E a \in Seq(Chars) :
                    /\ Complete(a) /\ stream.body = a \o Left
                    /\ sent \o (held \o Transform(line) \o <<"n">>) = Relayed(a)
          /\ pc = "write" /\ err # "none" =>
                sent \o (IF line = <<>> THEN held ELSE held \o Transform(line) \o <<"n">>)
                    = Relayed(stream.body)
          /\ pc = "done" => held = <<>> /\ sent = Relayed(stream.body)

LEMMA RelayedStays ==
    ASSUME UNCHANGED <<stream, tr>>
    PROVE  /\ \A a : Relayed(a)' = Relayed(a)
           /\ Relayed(stream.body)' = Relayed(stream.body)
           /\ Relayed(stream.frame)' = Relayed(stream.frame)
           /\ \A a : Transform(a)' = Transform(a)
           /\ Short' = Short
<1>1. \A a : Relayed(a)' = Relayed(a)
  BY DEF Relayed, Ended, Transform
<1>2. Relayed(stream.body)' = Relayed(stream.body)
  BY DEF Relayed, Ended, Transform
<1>3. Relayed(stream.frame)' = Relayed(stream.frame)
  BY DEF Relayed, Ended, Transform
<1>4. \A a : Transform(a)' = Transform(a)
  BY DEF Transform
<1>5. Short' = Short
  BY DEF Short
<1> QED
  BY <1>1, <1>2, <1>3, <1>4, <1>5

LEMMA QuietBoth ==
    ASSUME NEW a \in Seq(Chars), NEW b \in Seq(Chars), Quiet(a), Quiet(b)
    PROVE  Quiet(a \o b)
<1> DEFINE t == a \o b
<1>1. /\ Len(t) = Len(a) + Len(b) /\ Len(a) \in Nat /\ Len(b) \in Nat
      /\ \A i \in 1 .. Len(a) : t[i] = a[i]
      /\ \A i \in 1 .. Len(b) : t[Len(a) + i] = b[i]
  BY BehindTheFirst
<1> HIDE DEF t
<1>2. ASSUME NEW k \in 1 .. Len(t), t[k] = "n"
      PROVE  k > 1 /\ t[k - 1] # "n"
  <2>1. CASE k <= Len(a)
    <3>1. k \in 1 .. Len(a)
      BY <1>1, <2>1
    <3>2. t[k] = a[k]
      BY <1>1, <3>1
    <3>3. k > 1 /\ a[k - 1] # "n"
      BY <1>2, <3>1, <3>2 DEF Quiet
    <3>4. k - 1 \in 1 .. Len(a)
      BY <3>1, <3>3
    <3> QED
      BY <1>1, <3>3, <3>4
  <2>2. CASE ~(k <= Len(a))
    <3> DEFINE i == k - Len(a)
    <3>1. i \in 1 .. Len(b) /\ k = Len(a) + i
      BY <1>1, <2>2
    <3>2. t[k] = b[i]
      BY <1>1, <3>1
    <3> HIDE DEF i
    <3>3. i > 1 /\ b[i - 1] # "n"
      BY <1>2, <3>1, <3>2 DEF Quiet
    <3>4. i - 1 \in 1 .. Len(b) /\ k - 1 = Len(a) + (i - 1) /\ k > 1
      BY <1>1, <3>1, <3>3
    <3>5. t[Len(a) + (i - 1)] = b[i - 1]
      BY <1>1, <3>4
    <3> QED
      BY <3>3, <3>4, <3>5
  <2> QED
    BY <2>1, <2>2
<1> QED
  BY <1>2 DEF Quiet, t

LEMMA QuietNothing == Quiet(<<>>)
  BY EmptySeq DEF Quiet

\* A line that is not empty ends nothing.
LEMMA QuietLine ==
    ASSUME NEW s \in Seq(Chars), Relay!NoNewline(s), s # <<>>
    PROVE  Quiet(s \o <<"n">>)
<1> DEFINE nl == <<"n">>
           t == s \o nl
<1>0. nl \in Seq(Chars) /\ Len(nl) = 1
  <2>1. "n" \in Chars
    BY DEF Chars
  <2> QED
    BY <2>1
<1> HIDE DEF nl
<1>1. /\ Len(t) = Len(s) + 1 /\ Len(s) \in Nat /\ \A i \in 1 .. Len(s) : t[i] = s[i]
  <2>1. /\ Len(t) = Len(s) + Len(nl) /\ Len(s) \in Nat
        /\ \A i \in 1 .. Len(s) : t[i] = s[i]
    BY <1>0, BehindTheFirst
  <2> HIDE DEF t
  <2> QED
    BY <1>0, <2>1
<1>2. Len(s) # 0
  BY EmptySeq
<1> HIDE DEF t
<1>3. \A i \in 1 .. Len(s) : t[i] # "n"
  BY <1>1, LenProperties DEF Relay!NoNewline
<1>4. ASSUME NEW k \in 1 .. Len(t), t[k] = "n" PROVE k > 1 /\ t[k - 1] # "n"
  <2>1. k \notin 1 .. Len(s)
    BY <1>3, <1>4
  <2>2. k = Len(s) + 1 /\ k > 1 /\ k - 1 \in 1 .. Len(s)
    BY <1>1, <1>2, <2>1
  <2> QED
    BY <1>3, <2>2
<1> QED
  BY <1>4 DEF Quiet, t, nl

\* What is made of a line is a line, and as long.
LEMMA TransformedIsLine ==
    ASSUME NEW on, NEW s \in Seq(Chars), Relay!NoNewline(s)
    PROVE  /\ Relay!NoNewline(TransformLine(on, s))
           /\ s # <<>> => TransformLine(on, s) # <<>>
<1> DEFINE u == [k \in DOMAIN s |-> IF s[k] = "u" THEN "p" ELSE s[k]]
<1>1. Relay!NoNewline(u)
  BY DEF Relay!NoNewline
<1>2. ASSUME s # <<>> PROVE u # <<>>
  <2>1. Len(s) \in Nat /\ Len(s) # 0 /\ DOMAIN s = 1 .. Len(s)
    BY <1>2, EmptySeq, LenProperties
  <2>2. 1 \in DOMAIN u
    BY <2>1
  <2>3. DOMAIN <<>> = 1 .. 0
    BY EmptySeq, LenProperties
  <2>4. 1 \notin DOMAIN <<>>
    BY <2>3
  <2> HIDE DEF u
  <2> QED
    BY <2>2, <2>4
<1> HIDE DEF u
<1>3. TransformLine(on, s) = u \/ TransformLine(on, s) = s
  BY DEF TransformLine, u
<1> QED
  BY <1>1, <1>2, <1>3

LEMMA TrimmedIsLine ==
    ASSUME NEW s \in Seq(Chars), Relay!NoNewline(s)
    PROVE  Relay!NoNewline(TrimCR(s))
<1>1. CASE TrimCR(s) = s
  BY <1>1
<1>2. CASE TrimCR(s) # s
  <2>1. s # <<>> /\ TrimCR(s) = SubSeq(s, 1, Len(s) - 1)
    BY <1>2 DEF TrimCR, Front
  <2>2. Len(s) \in Nat /\ Len(s) # 0 /\ DOMAIN s = 1 .. Len(s)
    BY <2>1, EmptySeq, LenProperties
  <2> DEFINE l == Len(s) - 1
             u == SubSeq(s, 1, l)
  <2>3. l \in 0 .. Len(s)
    BY <2>2
  <2>4. \A i \in 1 .. l : i \in DOMAIN s /\ s[i] \in Chars
    BY <2>2, ElementOfSeq
  <2> HIDE DEF l
  <2>5. /\ u \in Seq(Chars) /\ Len(u) = l /\ \A i \in 1 .. l - 1 + 1 : u[i] = s[1 + i - 1]
    BY <2>3, <2>4, CutAnywhere, SubSeqProperties
  <2> HIDE DEF u
  <2>6. ASSUME NEW i \in DOMAIN u PROVE u[i] # "n"
    <3>1. i \in 1 .. l /\ i \in 1 .. l - 1 + 1 /\ 1 + i - 1 = i
      BY <2>3, <2>5, LenProperties
    <3>2. u[i] = s[i] /\ i \in DOMAIN s
      BY <2>4, <2>5, <3>1
    <3> QED
      BY <3>2 DEF Relay!NoNewline
  <2> QED
    BY <2>1, <2>6 DEF Relay!NoNewline, u, l
<1> QED
  BY <1>1, <1>2

LEMMA NewlineIsText == <<"n">> \in Seq(Chars) /\ <<"n">> # <<>>
<1>1. "n" \in Chars
  BY DEF Chars
<1> QED
  BY <1>1

LEMMA OnItsWay ==
    ASSUME held \in Seq(Chars), sent \in Seq(Chars), NEW t, t \in Seq(Chars)
    PROVE  (sent \o held) \o (t \o <<"n">>) = sent \o (held \o t \o <<"n">>)
<1> DEFINE nl == <<"n">>
           x == t \o nl
<1>1. nl \in Seq(Chars)
  BY NewlineIsText
<1> HIDE DEF nl
<1>2. (held \o t) \o nl = held \o (t \o nl)
  BY <1>1, ConcatAssociative
<1>3. x \in Seq(Chars)
  BY <1>1, ConcatProperties
<1> HIDE DEF x
<1>4. (sent \o held) \o x = sent \o (held \o x)
  BY <1>3, ConcatAssociative
<1> QED
  BY <1>2, <1>4 DEF x, nl

\* One line more has been taken.
LEMMA OneMoreLine ==
    ASSUME NEW a \in Seq(Chars), Complete(a), NEW l \in Seq(Chars), Relay!NoNewline(l),
           NEW b \in Seq(Chars)
    PROVE  LET c == a \o (l \o <<"n">>)
           IN  /\ c \in Seq(Chars) /\ Complete(c)
               /\ a \o (l \o (<<"n">> \o b)) = c \o b
               /\ Relayed(c) = Relayed(a) \o Ended(l)
<1> DEFINE nl == <<"n">>
           ln == l \o nl
           c == a \o ln
<1>1. nl \in Seq(Chars)
  BY NewlineIsText
<1>2. ln \in Seq(Chars) /\ Complete(ln) /\ Relayed(ln) = Ended(l)
  BY RelayedOfLine
<1>3. l \o (nl \o b) = ln \o b
  <2> HIDE DEF nl
  <2>1. (l \o nl) \o b = l \o (nl \o b)
    BY <1>1, ConcatAssociative
  <2> QED
    BY <2>1
<1>e. ln # <<>>
  <2>1. Len(ln) = Len(l) + Len(nl) /\ Len(l) \in Nat
    BY <1>1, BehindTheFirst
  <2>2. Len(nl) = 1
    OBVIOUS
  <2> HIDE DEF ln, nl
  <2>3. Len(ln) # 0
    BY <2>1, <2>2
  <2> QED
    BY <2>3, EmptySeq
<1> HIDE DEF ln, nl
<1>4. c \in Seq(Chars) /\ a \o (ln \o b) = c \o b
  BY <1>2, ConcatAssociative
<1>5. Relayed(c) = Relayed(a) \o Relayed(ln)
  BY <1>2, RelayedOfBoth
<1>6. Complete(c)
  <2>1. ln[Len(ln)] = "n" /\ Len(ln) \in Nat /\ Len(ln) # 0
    BY <1>2, <1>e, EmptySeq, LenProperties DEF Complete
  <2>2. /\ Len(c) = Len(a) + Len(ln) /\ Len(a) \in Nat
        /\ \A i \in 1 .. Len(ln) : c[Len(a) + i] = ln[i]
    BY <1>2, BehindTheFirst
  <2> HIDE DEF c
  <2>3. Len(ln) \in 1 .. Len(ln)
    BY <2>1
  <2>4. c[Len(c)] = "n"
    BY <2>1, <2>2, <2>3
  <2> QED
    BY <2>4 DEF Complete
<1> QED
  BY <1>2, <1>3, <1>4, <1>5, <1>6 DEF c, ln, nl

LEMMA TakeLineKeepsText ==
    ASSUME ReaderInv, TextInv, Relay!TakeLine, UNCHANGED <<stream, tr>>
    PROVE  TextInv'
<1> DEFINE r == Left
<1>1. PICK k \in DOMAIN r :
         /\ k <= MaxLine /\ r[k] = "n" /\ Relay!NoNewline(SubSeq(r, 1, k - 1))
         /\ Relay!Take(k - 1, k, "none")
  BY DEF Relay!TakeLine, Left
<1>2. /\ pc \in {"preamble", "read"} /\ pc' = "write"
      /\ err' = "none" /\ result = "none"
      /\ UNCHANGED <<held, sent, gone, result>>
  BY <1>1 DEF Relay!Take, TextInv, ReaderInv
<1>3. line' = Relay!Bare(SubSeq(r, 1, k - 1)) /\ Left' = SubSeq(r, k + 1, Len(r))
  BY <1>1 DEF Relay!Take, Left
<1>t. /\ r \in Seq(Chars) /\ held \in Seq(Chars) /\ sent \in Seq(Chars) /\ Quiet(held)
  BY InHandFirst DEF ReaderInv, TextInv, Left
<1> HIDE DEF r
<1> DEFINE l == SubSeq(r, 1, k - 1)
           b == SubSeq(r, k + 1, Len(r))
<1>4. k \in 1 .. Len(r) /\ r[k] = "n" /\ Relay!NoNewline(l)
  BY <1>1, <1>t, LenProperties
<1>5. l \in Seq(Chars) /\ b \in Seq(Chars) /\ r = l \o (<<"n">> \o b)
  BY <1>t, <1>4, CutAtNewline
<1>6. line' = TrimCR(l) /\ Left' = b
  BY <1>3, <1>5, TrimIsBare
<1> HIDE DEF l, b
<1>7. Relay!NoNewline(line')
  BY <1>4, <1>5, <1>6, TrimmedIsLine
<1>8. ASSUME Short', ~gone'
      PROVE  \E a \in Seq(Chars) :
                /\ Complete(a) /\ stream'.body = a \o Left'
                /\ sent' \o (held' \o Transform(line)' \o <<"n">>) = Relayed(a)'
  <2>1. PICK a \in Seq(Chars) : /\ Complete(a) /\ stream.body = a \o Left
                                /\ sent \o held = Relayed(a)
    BY <1>2, <1>8, RelayedStays DEF TextInv
  <2> DEFINE t == Transform(line)'
  <2>c. PICK c : c = a \o (l \o <<"n">>)
    OBVIOUS
  <2>2. /\ c \in Seq(Chars) /\ Complete(c) /\ a \o (l \o (<<"n">> \o b)) = c \o b
        /\ Relayed(c) = Relayed(a) \o Ended(l)
    BY <1>4, <1>5, <2>1, <2>c, OneMoreLine
  <2>3. stream'.body = c \o Left'
    BY <1>5, <1>6, <2>1, <2>2 DEF r
  <2>4. t = Transform(TrimCR(l)) /\ t \in Seq(Chars)
    <3>1. Transform(line)' = TransformLine(tr', line')
      BY DEF Transform
    <3>2. TrimCR(l) \in Seq(Chars)
      BY <1>5, TrimmedType
    <3> QED
      BY <1>6, <3>1, <3>2, TransformedType DEF Transform
  <2>5. Ended(l) = t \o <<"n">>
    BY <2>4 DEF Ended
  <2>e. Relayed(c) = (sent \o held) \o (t \o <<"n">>)
    BY <2>1, <2>2, <2>5
  <2> HIDE DEF t
  <2>f. (sent \o held) \o (t \o <<"n">>) = sent \o (held \o t \o <<"n">>)
    BY <1>t, <2>4, OnItsWay
  <2>6. sent \o (held \o t \o <<"n">>) = Relayed(c)
    BY <2>e, <2>f
  <2>7. Relayed(c)' = Relayed(c)
    BY RelayedStays
  <2> QED
    BY <1>2, <2>2, <2>3, <2>6, <2>7 DEF t
<1>9. sent' \in Seq(Chars) /\ Quiet(held') /\ result' = "none" /\ pc' = "write" /\ err' = "none"
  BY <1>2, <1>t
<1> QED
  BY <1>7, <1>8, <1>9 DEF TextInv

\* A piece as long as the limit is taken of no text whose lines are short.
LEMMA TakePieceKeepsText ==
    ASSUME ReaderInv, TextInv, Relay!TakePiece, UNCHANGED <<stream, tr>>
    PROVE  TextInv'
<1> DEFINE r == Left
           l == SubSeq(r, 1, MaxLine)
<1>1. /\ Len(r) >= MaxLine /\ Relay!NoNewline(l) /\ Relay!Take(MaxLine, MaxLine, "none")
  BY DEF Relay!TakePiece, Left
<1>2. /\ pc \in {"preamble", "read"} /\ pc' = "write"
      /\ err' = "none" /\ result = "none"
      /\ UNCHANGED <<held, sent, gone, result>>
  BY <1>1 DEF Relay!Take, TextInv, ReaderInv
<1>3. line' = Relay!Bare(l)
  BY <1>1 DEF Relay!Take, Left
<1>t. /\ r \in Seq(Chars) /\ sent \in Seq(Chars) /\ Quiet(held)
  BY InHandFirst DEF ReaderInv, TextInv, Left
<1>m. MaxLine \in Nat /\ MaxLine > 0
  <2>1. Buf \in Nat /\ Buf > 0
    BY StreamAssumption
  <2>2. PICK k \in 2 .. MaxLine : MaxLine = k * Buf
    BY StreamAssumption
  <2> QED
    BY <2>1, <2>2
<1> HIDE DEF r
<1>4. Len(r) \in Nat /\ MaxLine \in 0 .. Len(r)
  BY <1>1, <1>t, <1>m, LenProperties
<1>5. l \in Seq(Chars) /\ Len(l) = MaxLine
  BY <1>4, <1>t, CutAnywhere
<1>6. \A i \in 1 .. MaxLine : r[i] # "n"
  <2>1. \A i \in 1 .. MaxLine : r[i] \in Chars
    BY <1>4, <1>t, ElementOfSeq
  <2>2. \A i \in 1 .. MaxLine - 1 + 1 : l[i] = r[1 + i - 1]
    BY <1>m, <2>1, SubSeqProperties
  <2> HIDE DEF l
  <2>3. ASSUME NEW i \in 1 .. MaxLine PROVE r[i] # "n"
    <3>1. i \in 1 .. MaxLine - 1 + 1 /\ 1 + i - 1 = i
      BY <1>m
    <3>2. l[i] = r[i] /\ i \in DOMAIN l
      BY <1>5, <2>2, <3>1, LenProperties
    <3> QED
      BY <1>1, <3>2 DEF Relay!NoNewline
  <2> QED
    BY <2>3
<1> HIDE DEF l
<1>7. Relay!NoNewline(line')
  BY <1>1, <1>3, <1>5, TrimIsBare, TrimmedIsLine
<1>8. ~(Short /\ ~gone)
  <2> SUFFICES ASSUME Short, ~gone PROVE FALSE
    OBVIOUS
  <2>1. PICK a \in Seq(Chars) : stream.body = a \o r
    BY <1>2 DEF TextInv, r
  <2> DEFINE s == stream.body
             k == Len(a) + 1
  <2>2. /\ Len(s) = Len(a) + Len(r) /\ Len(a) \in Nat
        /\ \A i \in 1 .. Len(r) : s[Len(a) + i] = r[i]
    BY <1>t, <2>1, BehindTheFirst
  <2>3. \A i \in 1 .. Len(s) + 1 - MaxLine : \E j \in i .. i + MaxLine - 1 : s[j] = "n"
    BY DEF Short
  <2> HIDE DEF s
  <2>4. k \in 1 .. Len(s) + 1 - MaxLine
    BY <1>4, <1>m, <2>2
  <2>5. PICK j \in k .. k + MaxLine - 1 : s[j] = "n"
    BY <2>3, <2>4
  <2>6. j - Len(a) \in 1 .. MaxLine /\ j - Len(a) \in 1 .. Len(r) /\ Len(a) + (j - Len(a)) = j
    BY <1>4, <1>m, <2>2
  <2>7. s[Len(a) + (j - Len(a))] = r[j - Len(a)]
    BY <2>2, <2>6
  <2> QED
    BY <1>6, <2>5, <2>6, <2>7
<1>9. ~(Short' /\ ~gone')
  BY <1>2, <1>8, RelayedStays
<1>10. sent' \in Seq(Chars) /\ Quiet(held') /\ result' = "none"
  BY <1>2, <1>t
<1> QED
  BY <1>7, <1>9, <1>10 DEF TextInv

LEMMA TakeLastKeepsText ==
    ASSUME ReaderInv, TextInv, Relay!TakeLast, UNCHANGED <<stream, tr>>
    PROVE  TextInv'
<1> DEFINE r == Left
<1>1. PICK e \in Relay!Ends : Relay!NoNewline(r) /\ Relay!Take(Len(r), Len(r), e)
  BY DEF Relay!TakeLast, Left
<1>2. /\ pc \in {"preamble", "read"} /\ pc' = "write"
      /\ err' # "none" /\ result = "none"
      /\ UNCHANGED <<held, sent, gone, result>>
  BY <1>1 DEF Relay!Take, Relay!Ends, TextInv, ReaderInv
<1>t. /\ r \in Seq(Chars) /\ held \in Seq(Chars) /\ sent \in Seq(Chars) /\ Quiet(held)
  BY InHandFirst DEF ReaderInv, TextInv, Left
<1>3. line' = TrimCR(r)
  <2>1. line' = Relay!Bare(SubSeq(r, 1, Len(r)))
    BY <1>1 DEF Relay!Take, Left
  <2> HIDE DEF r
  <2>2. SubSeq(r, 1, Len(r)) = r
    BY <1>t, SubSeqFull
  <2> QED
    BY <1>t, <2>1, <2>2, TrimIsBare
<1> HIDE DEF r
<1>4. Relay!NoNewline(line')
  BY <1>1, <1>3, <1>t, TrimmedIsLine
<1>5. ASSUME Short', ~gone'
      PROVE  sent' \o (IF line' = <<>> THEN held' ELSE held' \o Transform(line)' \o <<"n">>)
                 = Relayed(stream.body)'
  <2>1. PICK a \in Seq(Chars) : /\ Complete(a) /\ stream.body = a \o r
                                /\ sent \o held = Relayed(a)
    BY <1>2, <1>5, RelayedStays DEF TextInv, r
  <2> DEFINE t == Transform(line)'
  <2>2. Relayed(stream.body) = (sent \o held) \o LastOf(r)
    BY <1>1, <1>t, <2>1, RelayedOfBoth, RelayedOfLast
  <2>3. t = Transform(TrimCR(r)) /\ t \in Seq(Chars)
    <3>1. Transform(line)' = TransformLine(tr', line')
      BY DEF Transform
    <3>2. TrimCR(r) \in Seq(Chars)
      BY <1>t, TrimmedType
    <3> QED
      BY <1>3, <3>1, <3>2, TransformedType DEF Transform
  <2>4. LastOf(r) = IF line' = <<>> THEN <<>> ELSE t \o <<"n">>
    BY <1>3, <2>3 DEF LastOf, Ended
  <2> HIDE DEF t
  <2>5. sent \o (IF line' = <<>> THEN held ELSE held \o t \o <<"n">>) = Relayed(stream.body)
    <3>1. CASE line' = <<>>
      <4> DEFINE sh == sent \o held
      <4>1. sh \in Seq(Chars)
        BY <1>t, ConcatProperties
      <4>2. Relayed(stream.body) = sh \o <<>>
        BY <2>2, <2>4, <3>1
      <4> HIDE DEF sh
      <4>3. sh \o <<>> = sh
        BY <4>1, ConcatEmptySeq
      <4> QED
        BY <3>1, <4>2, <4>3 DEF sh
    <3>2. CASE line' # <<>>
      <4>1. Relayed(stream.body) = (sent \o held) \o (t \o <<"n">>)
        BY <2>2, <2>4, <3>2
      <4>2. (sent \o held) \o (t \o <<"n">>) = sent \o (held \o t \o <<"n">>)
        BY <1>t, <2>3, OnItsWay
      <4> QED
        BY <3>2, <4>1, <4>2
    <3> QED
      BY <3>1, <3>2
  <2>6. Relayed(stream.body)' = Relayed(stream.body)
    BY RelayedStays
  <2> QED
    BY <1>2, <2>5, <2>6 DEF t
<1>6. sent' \in Seq(Chars) /\ Quiet(held') /\ result' = "none" /\ pc' = "write" /\ err' # "none"
  BY <1>2, <1>t
<1> QED
  BY <1>4, <1>5, <1>6 DEF TextInv

\* What is made of the line in hand goes to the client, or waits.
LEMMA PassKeepsText ==
    ASSUME ReaderInv, TextInv, Relay!Pass, UNCHANGED <<stream, tr>>
    PROVE  TextInv'
<1> DEFINE text == held \o Transform(line) \o <<"n">>
           waits == line # <<>> /\ err = "none" /\ held' = text /\ sent' = sent
           goes == held' = <<>> /\ sent' = IF gone THEN sent ELSE sent \o text
<1>1. /\ pc = "write" /\ (line # <<>> \/ err = "none") /\ result = "none"
      /\ UNCHANGED <<line, err, gone>>
      /\ err = "none" => pc' \in {"preamble", "read"} /\ result' = "none"
      /\ err # "none" => pc' = "done"
  BY DEF Relay!Pass, Relay!GoOn, TextInv, ReaderInv
<1>2. waits \/ goes
  BY DEF Relay!Pass, Relay!Arrive, Transform
<1>3. Left' = Left
  BY DEF Relay!Pass, Relay!GoOn, Left
<1>t. /\ held \in Seq(Chars) /\ sent \in Seq(Chars) /\ line \in Seq(Chars)
      /\ Quiet(held) /\ Relay!NoNewline(line)
  BY DEF ReaderInv, TextInv
<1>4. Transform(line) \in Seq(Chars)
  BY <1>t, TransformedType DEF Transform
<1>5. text \in Seq(Chars) /\ sent \o text \in Seq(Chars)
  <2>1. held \o Transform(line) \in Seq(Chars)
    BY <1>4, <1>t, ConcatProperties
  <2> DEFINE ht == held \o Transform(line)
  <2> HIDE DEF ht
  <2>2. ht \o <<"n">> \in Seq(Chars)
    BY <2>1, NewlineIsText, ConcatProperties DEF ht
  <2>3. text \in Seq(Chars)
    BY <2>2 DEF ht
  <2> HIDE DEF text
  <2> QED
    BY <1>t, <2>3, ConcatProperties
<1>6. waits => Quiet(text)
  <2> SUFFICES ASSUME line # <<>> PROVE Quiet(text)
    OBVIOUS
  <2> DEFINE t == Transform(line)
             n == t \o <<"n">>
  <2>1. Relay!NoNewline(t) /\ t # <<>> /\ t \in Seq(Chars)
    BY <1>4, <1>t, TransformedIsLine DEF Transform
  <2> HIDE DEF t
  <2>2. Quiet(n) /\ n \in Seq(Chars)
    BY <2>1, QuietLine, NewlineIsText, ConcatProperties
  <2>3. text = held \o n
    <3> DEFINE nl == <<"n">>
    <3>1. nl \in Seq(Chars)
      BY NewlineIsText
    <3> HIDE DEF nl
    <3>2. (held \o t) \o nl = held \o (t \o nl)
      BY <1>t, <2>1, <3>1, ConcatAssociative
    <3> QED
      BY <3>2 DEF nl, t
  <2> HIDE DEF n
  <2> QED
    BY <1>t, <2>2, <2>3, QuietBoth
<1> HIDE DEF text
<1>7. sent' \in Seq(Chars) /\ Quiet(held')
  BY <1>2, <1>5, <1>6, <1>t, QuietNothing
<1>8. ~gone => sent' \o held' = sent \o text
  <2> DEFINE st == sent \o text
  <2>1. st \in Seq(Chars)
    BY <1>5
  <2>2. goes /\ ~gone => sent' = st /\ held' = <<>>
    OBVIOUS
  <2> HIDE DEF st
  <2>3. st \o <<>> = st
    BY <2>1, ConcatEmptySeq
  <2> QED
    BY <1>2, <2>2, <2>3 DEF st
<1>9. CASE err = "none"
  <2>1. ASSUME Short', ~gone'
        PROVE  \E a \in Seq(Chars) : /\ Complete(a) /\ stream'.body = a \o Left'
                                     /\ sent' \o held' = Relayed(a)'
    <3>1. PICK a \in Seq(Chars) : /\ Complete(a) /\ stream.body = a \o Left
                                  /\ sent \o text = Relayed(a)
      BY <1>1, <1>9, <2>1, RelayedStays DEF TextInv, text
    <3>2. sent' \o held' = sent \o text
      BY <1>1, <1>8, <2>1
    <3>3. Relayed(a)' = Relayed(a)
      BY RelayedStays
    <3> QED
      BY <1>3, <3>1, <3>2, <3>3
  <2>2. pc' \in {"preamble", "read"} /\ result' = "none" /\ line' = line
    BY <1>1, <1>9
  <2> QED
    BY <1>7, <1>t, <2>1, <2>2 DEF TextInv, Relay!NoNewline
<1>10. CASE err # "none"
  <2>1. line # <<>> /\ goes /\ pc' = "done" /\ line' = line
    BY <1>1, <1>2, <1>10
  <2>2. ASSUME Short', ~gone' PROVE held' = <<>> /\ sent' = Relayed(stream.body)'
    <3>1. sent \o (IF line = <<>> THEN held ELSE text) = Relayed(stream.body)
      BY <1>1, <1>10, <2>2, RelayedStays DEF TextInv, text
    <3>2. sent' = sent \o text
      BY <1>1, <2>1, <2>2
    <3>3. Relayed(stream.body)' = Relayed(stream.body)
      BY RelayedStays
    <3> QED
      BY <2>1, <3>1, <3>2, <3>3
  <2> QED
    BY <1>7, <1>t, <2>1, <2>2 DEF TextInv, Relay!NoNewline
<1> QED
  BY <1>9, <1>10

\* The text has ended with its last newline.
LEMMA PassNothingKeepsText ==
    ASSUME ReaderInv, TextInv, Relay!PassNothing, UNCHANGED <<stream, tr>>
    PROVE  TextInv'
<1>1. /\ pc = "write" /\ line = <<>> /\ err # "none" /\ pc' = "done"
      /\ UNCHANGED <<line, err, gone>>
  BY DEF Relay!PassNothing, Relay!GoOn
<1>2. held' = <<>> /\ sent' = IF gone THEN sent ELSE sent \o held
  BY DEF Relay!PassNothing, Relay!Arrive
<1>t. held \in Seq(Chars) /\ sent \in Seq(Chars) /\ Relay!NoNewline(line)
  BY DEF ReaderInv, TextInv
<1>3. sent \o held \in Seq(Chars)
  BY <1>t, ConcatProperties
<1>4. sent' \in Seq(Chars) /\ Quiet(held')
  BY <1>2, <1>3, <1>t, QuietNothing
<1>5. ASSUME Short', ~gone' PROVE held' = <<>> /\ sent' = Relayed(stream.body)'
  <2>1. sent \o (IF line = <<>> THEN held ELSE held \o Transform(line) \o <<"n">>)
            = Relayed(stream.body)
    BY <1>1, <1>5, RelayedStays DEF TextInv
  <2>2. Relayed(stream.body)' = Relayed(stream.body)
    BY RelayedStays
  <2> QED
    BY <1>1, <1>2, <1>5, <2>1, <2>2
<1> QED
  BY <1>1, <1>4, <1>5, <1>t DEF TextInv, Relay!NoNewline

LEMMA TextInit ==
    ASSUME Init
    PROVE  TextInv
<1>1. /\ stream.body \in Seq(Chars) /\ src = stream.body /\ buf = <<>> /\ acc = <<>>
      /\ line = <<>> /\ held = <<>> /\ sent = <<>> /\ pc = "preamble" /\ result = "none"
  BY StreamAssumption DEF Init
<1>2. Left = stream.body /\ <<>> \o stream.body = stream.body /\ <<>> \o <<>> = <<>>
  <2>1. <<>> \o <<>> = <<>>
    BY EmptySeq, ConcatEmptySeq
  <2>2. <<>> \o stream.body = stream.body
    BY <1>1, ConcatEmptySeq
  <2> QED
    BY <1>1, <2>1, <2>2 DEF Left
<1>3. Relayed(<<>>) = <<>> /\ Complete(<<>>) /\ <<>> \in Seq(Chars)
  <2>1. <<>> \in Seq(Chars) /\ Relay!NoNewline(<<>>)
    BY NoPieces
  <2> QED
    BY <2>1, RelayedOfLast, LastOfNothing DEF Complete
<1>4. \E a \in Seq(Chars) : /\ Complete(a) /\ stream.body = a \o Left
                            /\ sent \o held = Relayed(a)
  BY <1>1, <1>2, <1>3
<1>5. Relay!NoNewline(line) /\ Quiet(held) /\ sent \in Seq(Chars)
  BY <1>1, <1>3, NoPieces, QuietNothing
<1> QED
  BY <1>1, <1>4, <1>5 DEF TextInv

LEMMA TextStep ==
    ASSUME ReaderInv, TextInv, [Next]_vars
    PROVE  TextInv'
<1>0. UNCHANGED <<stream, tr>>
  BY DEF Next, vars, given, SendPreamble, Leave, Fill, ReadToNewline, ReadFull, ReadEnd,
         WriteFails, WriteBlank, WriteLine, WriteNothing
<1>1. [Relay!RNext]_(Relay!rvars)
  BY PromiseStep
<1>2. CASE Relay!TakeLine
  BY <1>0, <1>2, TakeLineKeepsText
<1>3. CASE Relay!TakePiece
  BY <1>0, <1>3, TakePieceKeepsText
<1>4. CASE Relay!TakeLast
  BY <1>0, <1>4, TakeLastKeepsText
<1>5. CASE Relay!Pass
  BY <1>0, <1>5, PassKeepsText
<1>6. CASE Relay!PassNothing
  BY <1>0, <1>6, PassNothingKeepsText
<1>7. CASE Relay!Fail \/ Relay!Leave
  <2>1. gone' /\ UNCHANGED <<sent, held, line>>
    BY <1>7 DEF Relay!Fail, Relay!Leave
  <2>2. result' # "none" => pc' = "done"
    BY <1>7 DEF Relay!Fail, Relay!Leave, TextInv, ReaderInv
  <2> QED
    BY <2>1, <2>2 DEF TextInv, Relay!NoNewline
<1>8. CASE UNCHANGED Relay!rvars
  <2>1. /\ UNCHANGED <<sent, held, line, err, gone, result>> /\ Left' = Left
        /\ (IF pc' = "preamble" THEN "read" ELSE pc') = IF pc = "preamble" THEN "read" ELSE pc
    BY <1>8 DEF Relay!rvars, Left
  <2>2. /\ pc' \in {"preamble", "read"} <=> pc \in {"preamble", "read"}
        /\ pc' \notin {"preamble", "read"} => pc' = pc
        /\ pc = "done" => pc' = "done"
    BY <2>1
  <2>3. Relay!NoNewline(line)' /\ sent' \in Seq(Chars) /\ Quiet(held)'
        /\ (result' # "none" => pc' = "done")
    BY <2>1, <2>2 DEF TextInv, Relay!NoNewline, Quiet
  <2>4. ASSUME Short', ~gone'
        PROVE  /\ pc' \in {"preamble", "read"} =>
                    \E a \in Seq(Chars) : /\ Complete(a) /\ stream'.body = a \o Left'
                                          /\ sent' \o held' = Relayed(a)'
               /\ pc' = "write" /\ err' = "none" =>
                    \E a \in Seq(Chars) :
                        /\ Complete(a) /\ stream'.body = a \o Left'
                        /\ sent' \o (held' \o Transform(line)' \o <<"n">>) = Relayed(a)'
               /\ pc' = "write" /\ err' # "none" =>
                    sent' \o (IF line' = <<>> THEN held' ELSE held' \o Transform(line)' \o <<"n">>)
                        = Relayed(stream.body)'
               /\ pc' = "done" => held' = <<>> /\ sent' = Relayed(stream.body)'
    <3>0. Short /\ ~gone
      BY <2>1, <2>4, <1>0, RelayedStays
    <3>1. /\ \A a : Relayed(a)' = Relayed(a)
          /\ Relayed(stream.body)' = Relayed(stream.body)
      BY <1>0, RelayedStays
    <3>2. Transform(line)' = Transform(line)
      BY <1>0, <2>1 DEF Transform
    <3> QED
      BY <1>0, <2>1, <2>2, <3>0, <3>1, <3>2 DEF TextInv
  <2> QED
    BY <2>3, <2>4 DEF TextInv
<1> QED
  BY <1>1, <1>2, <1>3, <1>4, <1>5, <1>6, <1>7, <1>8 DEF Relay!RNext

\* The synthetic event has been passed on as the relay passes a text on.
GreetedInv ==
    pc # "preamble" /\ ~gone => greeted = Relayed(stream.frame) \o Relayed(stream.frame)

LEMMA GreetedStep ==
    ASSUME ReaderInv, GreetedInv, [Next]_vars
    PROVE  GreetedInv'
<1>0. UNCHANGED <<stream, tr>>
  BY DEF Next, vars, given, SendPreamble, Leave, Fill, ReadToNewline, ReadFull, ReadEnd,
         WriteFails, WriteBlank, WriteLine, WriteNothing
<1>1. Relayed(stream.frame)' = Relayed(stream.frame)
  BY <1>0, RelayedStays
<1>2. CASE SendPreamble
  <2>1. FlattenSeq([k \in 1 .. PreambleCopies |-> SanitizeEvent(stream.frame)])
            = Relayed(stream.frame) \o Relayed(stream.frame)
    BY PreambleIsRelayed DEF ReaderInv
  <2>2. gone' = gone /\ (~gone => greeted' =
            FlattenSeq([k \in 1 .. PreambleCopies |-> SanitizeEvent(stream.frame)]))
    BY <1>2 DEF SendPreamble
  <2> QED
    BY <1>1, <2>1, <2>2 DEF GreetedInv
<1>3. CASE ~SendPreamble
  <2>1. greeted' = greeted /\ (~gone' => ~gone) /\ (pc' # "preamble" => pc # "preamble")
    BY <1>3 DEF Next, vars, Leave, Fill, Blocked, ReadToNewline, ReadFull, ReadEnd, ReturnLine,
           WriteFails, WriteBlank, WriteLine, WriteNothing
  <2> QED
    BY <1>1, <2>1 DEF GreetedInv
<1> QED
  BY <1>2, <1>3

LEMMA BeginningOf ==
    ASSUME NEW x \in Seq(Chars), NEW y \in Seq(Chars)
    PROVE  IsPrefix(x, x \o y)
<1>1. Len(x) \in Nat /\ Len(y) \in Nat /\ Len(x \o y) = Len(x) + Len(y)
      /\ SubSeq(x \o y, 1, Len(x)) = x
  BY CutAfter, LenProperties
<1>2. SubSeq(x, 1, Len(x)) = x
  BY SubSeqFull
<1>3. Len(x) <= Len(x \o y)
  BY <1>1
<1> QED
  BY <1>1, <1>2, <1>3 DEF IsPrefix

\* What has been written is a beginning of the relayed text.
LEMMA TextIsBeginning ==
    ASSUME ReaderInv, TextInv, Short, ~gone
    PROVE  /\ sent \o held \in Seq(Chars)
           /\ \E y \in Seq(Chars) : Relayed(stream.body) = (sent \o held) \o y
<1>t. /\ held \in Seq(Chars) /\ sent \in Seq(Chars) /\ line \in Seq(Chars)
      /\ stream.body \in Seq(Chars)
  BY StreamAssumption DEF ReaderInv, TextInv
<1> DEFINE sh == sent \o held
           t == Transform(line)
           nl == <<"n">>
           tn == t \o nl
<1>1. sh \in Seq(Chars)
  BY <1>t, ConcatProperties
<1>2. t \in Seq(Chars) /\ nl \in Seq(Chars)
  BY <1>t, TransformedType, NewlineIsText DEF Transform
<1>f. sh \o tn = sent \o (held \o t \o nl)
  BY <1>t, <1>2, OnItsWay
<1>r. Left \in Seq(Chars)
  BY InHandFirst DEF Left
<1> HIDE DEF t, nl
<1>3. tn \in Seq(Chars)
  BY <1>2, ConcatProperties
<1> HIDE DEF tn
<1>e. sh \o <<>> = sh /\ <<>> \in Seq(Chars)
  <2> HIDE DEF sh
  <2> QED
    BY <1>1, EmptySeq, ConcatEmptySeq
<1>4. CASE pc \in {"preamble", "read"}
  <2>1. PICK a \in Seq(Chars) : /\ Complete(a) /\ stream.body = a \o Left /\ sh = Relayed(a)
    BY <1>4 DEF TextInv
  <2>2. Relayed(stream.body) = sh \o Relayed(Left) /\ Relayed(Left) \in Seq(Chars)
    BY <1>r, <2>1, RelayedOfBoth, RelayedType
  <2> QED
    BY <1>1, <2>2
<1>5. CASE pc = "write" /\ err = "none"
  <2>1. PICK a \in Seq(Chars) : /\ Complete(a) /\ stream.body = a \o Left
                                /\ sent \o (held \o t \o nl) = Relayed(a)
    BY <1>5 DEF TextInv, t, nl
  <2>2. Relayed(stream.body) = (sh \o tn) \o Relayed(Left) /\ Relayed(Left) \in Seq(Chars)
    <3>1. Relayed(stream.body) = Relayed(a) \o Relayed(Left) /\ Relayed(Left) \in Seq(Chars)
      BY <1>r, <2>1, RelayedOfBoth, RelayedType
    <3>2. Relayed(a) = sh \o tn
      BY <1>f, <2>1
    <3> HIDE DEF sh
    <3> QED
      BY <3>1, <3>2
  <2> DEFINE q == Relayed(Left)
             y == tn \o q
  <2>q. q \in Seq(Chars) /\ Relayed(stream.body) = (sh \o tn) \o q
    BY <2>2
  <2> HIDE DEF q, sh
  <2>3. (sh \o tn) \o q = sh \o y
    BY <1>1, <1>3, <2>q, ConcatAssociative
  <2>4. y \in Seq(Chars)
    BY <1>3, <2>q, ConcatProperties
  <2>5. Relayed(stream.body) = sh \o y
    BY <2>q, <2>3
  <2> QED
    BY <1>1, <2>4, <2>5 DEF sh
<1>6. CASE pc = "write" /\ err # "none"
  <2>1. sent \o (IF line = <<>> THEN held ELSE held \o t \o nl) = Relayed(stream.body)
    BY <1>6 DEF TextInv, t, nl
  <2>2. CASE line = <<>>
    BY <1>1, <1>e, <2>1, <2>2
  <2>3. CASE line # <<>>
    BY <1>1, <1>3, <1>f, <2>1, <2>3
  <2> QED
    BY <2>2, <2>3
<1>7. CASE pc = "done"
  <2>1. held = <<>> /\ sent = Relayed(stream.body)
    BY <1>7 DEF TextInv
  <2>2. sh = sent
    BY <1>t, <2>1, ConcatEmptySeq
  <2> QED
    BY <1>1, <1>e, <2>1, <2>2
<1> QED
  BY <1>4, <1>5, <1>6, <1>7 DEF ReaderInv

LEMMA RelayFaithful ==
    ASSUME ReaderInv, TextInv, GreetedInv
    PROVE  RelayIsFaithful
<1> DEFINE g == Relayed(stream.frame) \o Relayed(stream.frame)
           w == Relayed(stream.body)
           sh == sent \o held
<1>t. g \in Seq(Chars) /\ w \in Seq(Chars) /\ sent \in Seq(Chars)
  <2>1. Relayed(stream.frame) \in Seq(Chars) /\ w \in Seq(Chars)
    BY PreambleIsRelayed, RelayedType DEF ReaderInv
  <2> QED
    BY <2>1, ConcatProperties DEF TextInv
<1>x. Expected = g \o w
  BY DEF Expected
<1>1. LinesSurviveChunking
  <2> SUFFICES ASSUME Short, pc # "preamble", ~gone
               PROVE  IsPrefix(greeted \o sent \o held, Expected)
    BY DEF LinesSurviveChunking
  <2>1. greeted = g
    BY DEF GreetedInv
  <2>2. sh \in Seq(Chars) /\ \E y \in Seq(Chars) : w = sh \o y
    BY TextIsBeginning
  <2>3. PICK y \in Seq(Chars) : w = sh \o y
    BY <2>2
  <2>4. held \in Seq(Chars)
    BY DEF ReaderInv
  <2> HIDE DEF g, w
  <2>5. (g \o sent) \o held = g \o sh
    BY <1>t, <2>4, ConcatAssociative
  <2> HIDE DEF sh
  <2>6. (g \o sh) \o y = g \o (sh \o y) /\ g \o sh \in Seq(Chars)
    <3>1. g \in Seq(Chars) /\ sh \in Seq(Chars)
      BY <1>t, <2>2
    <3> QED
      BY <3>1, ConcatAssociative, ConcatProperties
  <2> DEFINE gsh == g \o sh
  <2>7. gsh \in Seq(Chars) /\ Expected = gsh \o y /\ greeted \o sent \o held = gsh
    BY <1>x, <2>1, <2>3, <2>5, <2>6
  <2> HIDE DEF gsh
  <2> QED
    BY <2>7, BeginningOf
<1>2. CleanEndIsWhole
  <2> SUFFICES ASSUME Short, result = "nil", ~gone
               PROVE  greeted \o sent = Expected
    BY DEF CleanEndIsWhole
  <2>1. pc = "done" /\ pc # "preamble"
    BY DEF TextInv
  <2>2. sent = w
    BY <2>1 DEF TextInv
  <2>3. greeted = g
    BY <2>1 DEF GreetedInv
  <2> QED
    BY <1>x, <2>2, <2>3
<1> QED
  BY <1>1, <1>2 DEF RelayIsFaithful

LEMMA NothingHeldBack ==
    ASSUME ReaderInv, TextInv
    PROVE  EventsNotHeldBack
<1> SUFFICES ASSUME Short, Blocked, ~gone,
                    NEW k \in DOMAIN Relayed(SubSeq(stream.body, 1, Len(stream.body) - Len(src))),
                    k > 1,
                    Relayed(SubSeq(stream.body, 1, Len(stream.body) - Len(src)))[k] = "n",
                    Relayed(SubSeq(stream.body, 1, Len(stream.body) - Len(src)))[k - 1] = "n"
             PROVE  Len(sent) >= k
  BY DEF EventsNotHeldBack
<1> DEFINE h == acc \o buf
           s == Relayed(SubSeq(stream.body, 1, Len(stream.body) - Len(src)))
<1>t. /\ acc \in Seq(Chars) /\ buf \in Seq(Chars) /\ src \in Seq(Chars)
      /\ held \in Seq(Chars) /\ sent \in Seq(Chars) /\ Quiet(held)
  BY DEF ReaderInv, TextInv
<1>1. h \in Seq(Chars) /\ Relay!NoNewline(h)
  <2>1. Relay!NoNewline(acc) /\ Relay!NoNewline(buf)
    BY <1>t, FirstNewline DEF ReaderInv, Blocked
  <2> QED
    BY <1>t, <2>1, NoNewlineInBoth, ConcatProperties
<1>2. PICK a \in Seq(Chars) : /\ Complete(a) /\ stream.body = a \o (h \o src)
                              /\ sent \o held = Relayed(a)
  BY DEF Blocked, TextInv, Left
<1> HIDE DEF h
<1> DEFINE x == a \o h
<1>3. x \in Seq(Chars) /\ stream.body = x \o src
  <2>1. x \in Seq(Chars)
    BY <1>1, ConcatProperties
  <2>2. (a \o h) \o src = a \o (h \o src)
    <3>1. h \in Seq(Chars) /\ src \in Seq(Chars)
      BY <1>t, <1>1
    <3> HIDE DEF x
    <3> QED
      BY <3>1, ConcatAssociative
  <2> QED
    BY <1>2, <2>1, <2>2
<1>4. Relayed(x) = (sent \o held) \o LastOf(h)
  BY <1>1, <1>2, RelayedOfBoth, RelayedOfLast
<1> HIDE DEF x
<1>5. SubSeq(stream.body, 1, Len(stream.body) - Len(src)) = x
  <2>1. /\ Len(x \o src) = Len(x) + Len(src) /\ SubSeq(x \o src, 1, Len(x)) = x
        /\ Len(x) \in Nat /\ Len(src) \in Nat
    BY <1>t, <1>3, CutAfter, LenProperties
  <2>2. Len(stream.body) - Len(src) = Len(x)
    BY <1>3, <2>1
  <2> QED
    BY <1>3, <2>1, <2>2
<1> DEFINE l == LastOf(h)
           m == held \o l
<1>6. l \in Seq(Chars) /\ Quiet(l)
  <2>1. CASE TrimCR(h) = <<>>
    BY <2>1, QuietNothing, EmptySeq DEF LastOf
  <2>2. CASE TrimCR(h) # <<>>
    <3>1. TrimCR(h) \in Seq(Chars) /\ Relay!NoNewline(TrimCR(h))
      BY <1>1, TrimmedType, TrimmedIsLine
    <3> DEFINE t == Transform(TrimCR(h))
    <3>2. t \in Seq(Chars) /\ Relay!NoNewline(t) /\ t # <<>>
      BY <2>2, <3>1, TransformedType, TransformedIsLine DEF Transform
    <3>3. l = t \o <<"n">>
      BY <2>2 DEF LastOf, Ended
    <3> HIDE DEF t, l
    <3>4. t \o <<"n">> \in Seq(Chars)
      BY <3>2, NewlineIsText, ConcatProperties
    <3> QED
      BY <3>2, <3>3, <3>4, QuietLine
  <2> QED
    BY <2>1, <2>2
<1> HIDE DEF l
<1>7. m \in Seq(Chars) /\ Quiet(m) /\ Relayed(x) = sent \o m
  <2>1. (sent \o held) \o l = sent \o (held \o l)
    BY <1>t, <1>6, ConcatAssociative
  <2> QED
    BY <1>t, <1>4, <1>6, <2>1, QuietBoth, ConcatProperties DEF l
<1> HIDE DEF m
<1>8. s = sent \o m
  BY <1>5, <1>7
<1>9. /\ s \in Seq(Chars) /\ Len(s) = Len(sent) + Len(m) /\ Len(sent) \in Nat /\ Len(m) \in Nat
      /\ \A i \in 1 .. Len(m) : s[Len(sent) + i] = m[i]
  <2> DEFINE sm == sent \o m
  <2>1. /\ sm \in Seq(Chars) /\ Len(sm) = Len(sent) + Len(m)
        /\ Len(sent) \in Nat /\ Len(m) \in Nat
        /\ \A i \in 1 .. Len(m) : sm[Len(sent) + i] = m[i]
    BY <1>t, <1>7, BehindTheFirst
  <2>2. s = sm
    BY <1>8
  <2> HIDE DEF s, sm
  <2> QED
    BY <2>1, <2>2
<1>10. k \in DOMAIN s /\ s[k] = "n" /\ s[k - 1] = "n"
  OBVIOUS
<1> HIDE DEF s
<1>11. k \in 1 .. Len(s)
  BY <1>9, <1>10, LenProperties
<1> SUFFICES ASSUME ~(Len(sent) >= k) PROVE FALSE
  OBVIOUS
<1> DEFINE i == k - Len(sent)
<1>12. i \in 1 .. Len(m) /\ Len(sent) + i = k
  BY <1>9, <1>11
<1> HIDE DEF i
<1>13. m[i] = "n"
  BY <1>9, <1>10, <1>12
<1>14. i > 1 /\ m[i - 1] # "n"
  BY <1>7, <1>12, <1>13 DEF Quiet
<1>15. i - 1 \in 1 .. Len(m) /\ Len(sent) + (i - 1) = k - 1
  BY <1>9, <1>11, <1>12, <1>14
<1>16. s[Len(sent) + (i - 1)] = m[i - 1]
  BY <1>9, <1>15
<1> QED
  BY <1>10, <1>14, <1>15, <1>16

\* sse.go:50-119, 150-166, 209-228: if no line is as long as the limit, then
\* however the bytes arrive and wherever the buffer ends, the client has at
\* every moment a beginning of the text with its lines sanitised one by one,
\* behind the synthetic event, and all of it when PipeSSE returns no error.
THEOREM RelayIsTheText == Spec => []RelayIsFaithful
<1>1. Init => ReaderInv /\ TextInv /\ GreetedInv
  BY ReaderInit, TextInit DEF Init, GreetedInv
<1>2. ReaderInv /\ TextInv /\ GreetedInv /\ [Next]_vars => ReaderInv' /\ TextInv' /\ GreetedInv'
  BY ReaderStep, TextStep, GreetedStep
<1>3. ReaderInv /\ TextInv /\ GreetedInv => RelayIsFaithful
  BY RelayFaithful
<1> QED
  BY <1>1, <1>2, <1>3, PTL DEF Spec

\* sse.go:54, 104-109: and while PipeSSE waits for the upstream nothing of an
\* event that is complete lies on this side of the client.
THEOREM EventsGoOut == Spec => []EventsNotHeldBack
<1>1. Init => ReaderInv /\ TextInv
  BY ReaderInit, TextInit
<1>2. ReaderInv /\ TextInv /\ [Next]_vars => ReaderInv' /\ TextInv'
  BY ReaderStep, TextStep
<1>3. ReaderInv /\ TextInv => EventsNotHeldBack
  BY NothingHeldBack
<1> QED
  BY <1>1, <1>2, <1>3, PTL DEF Spec
=============================================================================
