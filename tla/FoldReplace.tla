----------------------------- MODULE FoldReplace -----------------------------
(***************************************************************************)
(* How upstream names are taken out of a short string: the rules that      *)
(* Rules.build derives (sanitize/sanitize.go) and the single pass of       *)
(* foldMatcher.replace with its pruning (sanitize/fold.go).  A string is a *)
(* sequence of characters; positions start at 1.                           *)
(***************************************************************************)
EXTENDS Text

CONSTANTS
    Lower,             \* lowerASCII as a function on the characters
    Digits,            \* the characters that are digits
    DateMin, DateMax   \* digits of a date segment, 6 and 8 in the code

ASSUME FoldAssumption == DateMin \in Nat /\ DateMax \in Nat

VARIABLES
    config,            \* [upstream, public, aliases, global]: what is configured
    pats,              \* the foldMatcher that was built for config
    text,              \* the argument of replace, empty while it is not called
    i, prev,           \* the local variables of replace
    out,               \* what the Builder holds
    done

matcher == <<config, pats>>
foldvars == <<matcher, text, i, prev, out, done>>

Fold(s) == [n \in DOMAIN s |-> Lower[s[n]]]

IsDate(s) == Len(s) \in DateMin .. DateMax /\ \A n \in DOMAIN s : s[n] \in Digits

\* numericTailVariant: the name without its date, as a set of at most one.
NumericTail(s) ==
    {SubSeq(s, 1, d - 1) : d \in
        {n \in DOMAIN s : s[n] = "-" /\ IsDate(From(s, n + 1))}} \ {<<>>}

\* The source strings that become the public name.
Sources(c) ==
    LET names == ({c.upstream} \cup c.aliases) \ {c.public, <<>>}
        series == UNION {NumericTail(s) : s \in names} \ {c.public}
    IN  names \cup series

\* foldIndex: where src first occurs in the folded s, 0 if it does not.
FoldIndex(s, src) ==
    LET at == {n \in DOMAIN s : IsPrefix(src, Fold(From(s, n)))}
    IN  IF at = {} THEN 0 ELSE Min(at)

Pattern(src, dst) ==
    [src |-> Fold(src), dst |-> dst, off |-> FoldIndex(dst, Fold(src))]

OwnPatterns(c) == {Pattern(s, c.public) : s \in Sources(c)}

GlobalPatterns(c) == {p \in {Pattern(g[1], g[2]) : g \in c.global} : p.src # <<>>}

\* Mutant: aliases and global pairs are not sorted together.
PatternsApart(c) ==
    LET Sorted(S) == {w \in SetToSeqs(S) :
            \A j, l \in DOMAIN w : j < l => Len(w[j].src) >= Len(w[l].src)}
    IN  {v \o w : v \in Sorted(OwnPatterns(c)), w \in Sorted(GlobalPatterns(c) \ OwnPatterns(c))}

\* The orders of the patterns findAt may go by: longer ones first, and the model's
\* own before global ones of the same length.
Patterns(c) ==
    {w \in SetToSeqs(OwnPatterns(c) \cup GlobalPatterns(c)) :
        \A j, l \in DOMAIN w : j < l =>
            \/ Len(w[j].src) > Len(w[l].src)
            \/ Len(w[j].src) = Len(w[l].src) /\ (w[l] \in OwnPatterns(c) => w[j] \in OwnPatterns(c))}

MinLen(ps) == Min({Len(ps[j].src) : j \in DOMAIN ps})

\* hasFoldPrefix: the patterns that the text has at n.
HitsAt(ps, s, n) == {j \in DOMAIN ps : IsPrefix(ps[j].src, Fold(From(s, n)))}

\* findAt: the first of them, 0 if there is none.
FindAt(ps, s, n) ==
    IF HitsAt(ps, s, n) = {} THEN 0 ELSE Min(HitsAt(ps, s, n))

\* Mutant: a name is thought to begin with a small letter only.
FirstBytesLower(ps, s, n) == \E j \in DOMAIN ps : s[n] = ps[j].src[1]

\* The table first: the byte at n can begin a name.  What is entered for a name is
\* its first byte and the capital of it, that is all that lowerASCII makes that byte.
FirstBytes(ps, s, n) == \E j \in DOMAIN ps : Lower[s[n]] = ps[j].src[1]

\* What the loops of mayMatch and replace find at n: findAt is not asked if the
\* table rules the byte out.
FoundAt(ps, s, n) == IF FirstBytes(ps, s, n) THEN FindAt(ps, s, n) ELSE 0

\* Mutant: the last position where a pattern fits is left out.
MayMatchShort(s, ps) ==
    ps # <<>> /\ \E n \in 1 .. Len(s) - MinLen(ps) : FoundAt(ps, s, n) > 0

\* mayMatch: is there a pattern anywhere?
MayMatch(s, ps) ==
    /\ ps # <<>>
    /\ \E n \in 1 .. Len(s) + 1 - MinLen(ps) : FoundAt(ps, s, n) > 0

\* Mutant: only a text that has dst from n on is taken for the target.
AlreadyTargetHere(s, n, p) ==
    IF p.off > 0 /\ IsPrefix(p.dst, From(s, n)) THEN Len(p.dst) ELSE 0

\* Mutant: case is not minded.
AlreadyTargetFolded(s, n, p) ==
    LET start == n + 1 - p.off
    IN  IF /\ p.off > 0 /\ start > 0
           /\ IsPrefix(Fold(p.dst), Fold(From(s, start)))
        THEN start + Len(p.dst) - n
        ELSE 0

\* alreadyTarget: how much to skip because the hit at n lies where it lies in
\* dst, with the rest of dst around it.
AlreadyTarget(s, n, p) ==
    LET start == n + 1 - p.off
    IN  IF p.off > 0 /\ start > 0 /\ IsPrefix(p.dst, From(s, start))
        THEN start + Len(p.dst) - n
        ELSE 0

\* trailingDateSegment: the length of a dash and a date at n, 0 if there is none.
TrailingDate(s, n) ==
    LET ends == {m \in n + DateMin .. n + DateMax : m <= Len(s)}
        dates == {m \in ends : /\ s[n] = "-"
                               /\ IsDate(SubSeq(s, n + 1, m))
                               /\ m < Len(s) => s[m + 1] \notin Digits}
    IN  IF dates = {} THEN 0 ELSE Max(dates) + 1 - n

\* No call of replace is under way.
Idle == text = <<>> /\ i = 1 /\ prev = 1 /\ out = <<>> /\ done = TRUE

FoldInit(c) == config = c /\ pats \in Patterns(c) /\ Idle

\* replace is called.
Call(s) ==
    /\ text' = s /\ i' = 1 /\ prev' = 1 /\ out' = <<>> /\ done' = FALSE
    /\ UNCHANGED matcher

\* And has returned.
Return ==
    /\ done
    /\ text' = <<>> /\ i' = 1 /\ prev' = 1 /\ out' = <<>> /\ done' = TRUE
    /\ UNCHANGED matcher

InRange == pats # <<>> /\ i <= Len(text) + 1 - MinLen(pats)

\* Nothing at i.
Skip ==
    /\ ~done /\ InRange /\ FoundAt(pats, text, i) = 0
    /\ i' = i + 1
    /\ UNCHANGED <<matcher, text, prev, out, done>>

\* What is at i is part of a name that is the public one already.
SkipTarget ==
    /\ ~done /\ InRange /\ FoundAt(pats, text, i) > 0
    /\ LET p == pats[FoundAt(pats, text, i)]
       IN  /\ AlreadyTarget(text, i, p) > 0
           /\ i' = i + AlreadyTarget(text, i, p)
    /\ UNCHANGED <<matcher, text, prev, out, done>>

\* Replace the hit, and the date that follows it.
ReplaceHit ==
    /\ ~done /\ InRange /\ FoundAt(pats, text, i) > 0
    /\ LET p == pats[FoundAt(pats, text, i)]
           end == i + Len(p.src)
       IN  /\ AlreadyTarget(text, i, p) = 0
           /\ out' = out \o SubSeq(text, prev, i - 1) \o p.dst
           /\ i' = end + TrailingDate(text, end)
           /\ prev' = i'
    /\ UNCHANGED <<matcher, text, done>>

FinishPass ==
    /\ ~done /\ ~InRange
    /\ out' = out \o From(text, prev)
    /\ done' = TRUE
    /\ UNCHANGED <<matcher, text, i, prev>>

FoldNext == Skip \/ SkipTarget \/ ReplaceHit \/ FinishPass

----------------------------------------------------------------------------
(* Properties                                                              *)

\* What the replacement is meant to be, from the end of the text backwards: at
\* every place the longest name that is not part of a public name already, with
\* the date that follows it.  at is what becomes of the text behind n.
ReferenceAt(s, ps, at, n) ==
    LET hits == HitsAt(ps, s, n)
        longest == CHOOSE j \in hits : \A l \in hits \ {j} :
                       \/ Len(ps[l].src) < Len(ps[j].src)
                       \/ Len(ps[l].src) = Len(ps[j].src) /\ j < l
        skip == AlreadyTarget(s, n, ps[longest])
        next == n + Len(ps[longest].src)
    IN  IF n > Len(s) THEN <<>>
        ELSE IF hits = {} THEN <<s[n]>> \o at[n + 1]
        ELSE IF skip > 0 THEN SubSeq(s, n, n + skip - 1) \o at[n + skip]
        ELSE ps[longest].dst \o at[next + TrailingDate(s, next)]

Reference(s, ps) ==
    LET at[n \in 1 .. Len(s) + 1] == ReferenceAt(s, ps, at, n)
    IN  at[1]

\* fold.go:199-244: the single pass, with its first-byte table, its shortest
\* length and its two indices, computes exactly that.
MatchesReference == done => out = Reference(text, pats)

\* fold.go:81-102: a text that is the public name is left as it is, however the
\* public and the upstream name contain each other.
PublicIsStable ==
    done /\ config.global = {} /\ text = config.public => out = text

\* The pass is the replacement it is meant to be.
PassIsRight == MatchesReference /\ PublicIsStable

\* A name that is not part of a replacement.
Leaks(s, ps) ==
    \E j \in DOMAIN ps, n \in DOMAIN s :
        /\ IsPrefix(ps[j].src, Fold(From(s, n)))
        /\ ~\E k \in DOMAIN ps, m \in 1 .. n :
               /\ IsPrefix(ps[k].dst, From(s, m))
               /\ n + Len(ps[j].src) <= m + Len(ps[k].dst)

\* x is a part of y; the end of x is the beginning of y, and neither is all of it.
Within(x, y) == \E n \in DOMAIN y : IsPrefix(x, From(y, n))
Meets(x, y) ==
    \E n \in 2 .. Len(x) : Len(From(x, n)) < Len(y) /\ IsPrefix(From(x, n), y)

\* A name and a replacement can overlap other than by the name lying in its own
\* replacement, so that a replacement may complete a name that was not there.
Splices(p, q) ==
    LET src == p.src
        dst == Fold(q.dst)
    IN  \/ Meets(src, dst) \/ Meets(dst, src)
        \/ Len(dst) < Len(src) /\ Within(dst, src)
        \/ p.dst # q.dst /\ Within(src, dst)

\* A replacement that is in the text already may not be known for one: its beginning
\* goes with a name before it, as the date of that, or with another replacement
\* that is passed over.
Obscures(p, q) ==
    \/ q.off > 1 /\ q.dst[1] \in Digits \cup {"-"}
    \/ p.off > 0 /\ q.off > 0 /\ Meets(p.dst, q.dst)

Apart(ps) ==
    \A j, k \in DOMAIN ps : ~Splices(ps[j], ps[k]) /\ ~Obscures(ps[j], ps[k])

\* overlap_test.go:94-95: as long as the names and their replacements are apart,
\* one pass leaves no upstream name behind, in whatever case, and a second pass,
\* which the gateway may make, does not change anything.
OnePassIsEnough ==
    done /\ text # <<>> /\ Apart(pats) =>
        Reference(out, pats) = out /\ ~Leaks(out, pats)

----------------------------------------------------------------------------
(* What the documentation says and the code does not do                    *)

\* overlap_test.go:94: Apply is idempotent however the names overlap.
ApplyIsIdempotent == done => Reference(out, pats) = out
=============================================================================
