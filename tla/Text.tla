-------------------------------- MODULE Text --------------------------------
(* What the code uses of Go's package strings.  A string is a sequence of  *)
(* characters, or of words where nothing looks inside them; positions      *)
(* start at 1.                                                             *)
EXTENDS Naturals, Sequences, SequencesExt, FiniteSetsExt, Functions

From(s, k) == SubSeq(s, k, Len(s))

Trim(s) ==
    LET solid == {k \in DOMAIN s : s[k] # " "}
    IN  IF solid = {} THEN <<>> ELSE SubSeq(s, Min(solid), Max(solid))

Blank(s) == \A k \in DOMAIN s : s[k] = " "

\* strings.IndexByte, 0 if there is none.
IndexOf(s, c) == LET at == {k \in DOMAIN s : s[k] = c}
                 IN  IF at = {} THEN 0 ELSE Min(at)

\* A set of numbers from the least to the greatest.
Ascending(S) ==
    [m \in 1 .. Cardinality(S) |->
        CHOOSE k \in S : Cardinality({j \in S : j <= k}) = m]

\* Where the parts of s between separators begin, and the part that begins at k.
Starts(s, c) == {k \in 1 .. Len(s) + 1 : k = 1 \/ s[k - 1] = c}
PartAt(s, c, k) == LET rest == From(s, k)
                       at == IndexOf(rest, c)
                   IN  IF at = 0 THEN rest ELSE SubSeq(rest, 1, at - 1)

\* strings.Split at one character.
Split(s, c) == LET at == Ascending(Starts(s, c))
               IN  [m \in DOMAIN at |-> PartAt(s, c, at[m])]

\* strings.TrimRight for one character.
TrimRight(s, c) == LET other == {k \in DOMAIN s : s[k] # c}
                   IN  IF other = {} THEN <<>> ELSE SubSeq(s, 1, Max(other))

\* The parts between separators that are not blank, without blanks around them.
Filled(s, c) == {k \in Starts(s, c) : Trim(PartAt(s, c, k)) # <<>>}
Items(s, c) == LET at == Ascending(Filled(s, c))
               IN  [m \in DOMAIN at |-> Trim(PartAt(s, c, at[m]))]
=============================================================================
