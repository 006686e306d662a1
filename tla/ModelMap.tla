------------------------------ MODULE ModelMap ------------------------------
(***************************************************************************)
(* The model map (mapping/mapping.go, mapping/pattern.go): the header      *)
(* X-Model-Map is parsed segment by segment, the rules are split into      *)
(* exact ones and wildcards, and a model is looked up, in the table of the *)
(* configuration if the header's has none.  Names are sequences of         *)
(* characters.                                                             *)
(***************************************************************************)
EXTENDS Text

CONSTANTS
    Rank,        \* the order of the characters, a function on them
    Unprintable, \* the characters validToken refuses, without the blank
    MaxInvalid   \* maxInvalid, 4 in the code

ASSUME MapAssumption == MaxInvalid \in Nat \ {0}

Chars == DOMAIN Rank

\* No two characters have the same place in the order.
ASSUME RankAssumption ==
    /\ Chars \subseteq STRING
    /\ \A c, d \in Chars : Rank[c] \in Nat /\ (Rank[c] = Rank[d] => c = d)

VARIABLES
    header, name, \* what is given: the header, and the model asked for
    static,  \* MODEL_MAP and MODEL_MAP_FALLBACK: rules and fallback
    pc,
    table,   \* the table at hand: "header" or "static"
    raw,     \* what of the header is still to be parsed
    rules,   \* the map m of Parse: the targets of each rule
    invalid, \* Table.invalid
    wild,    \* Table.wild
    n,       \* the index of Lookup in wild
    kind, answer \* what Lookup returns: the level, and the candidates for pick

given == <<header, name, static>>
mapvars == <<given, pc, table, raw, rules, invalid, wild, n, kind, answer>>

NoRules == [r \in {} |-> <<>>]

ValidToken(s) ==
    s # <<>> /\ \A k \in DOMAIN s : s[k] # " " /\ s[k] \notin Unprintable

HasWildcard(s) == "*" \in ToSet(s)

----------------------------------------------------------------------------
(* pattern.go                                                              *)

Compile(s) ==
    LET starts == Starts(s, "*")
        at == Ascending({k \in starts : PartAt(s, "*", k) # <<>>})
    IN  [raw |-> s, segs |-> [m \in DOMAIN at |-> PartAt(s, "*", at[m])],
         leading |-> PartAt(s, "*", 1) = <<>>,
         trailing |-> PartAt(s, "*", Max(starts)) = <<>>]

\* patternWeight: literal characters first, then how many ends are anchored.
Weight(p) ==
    4 * Cardinality(UNION {{m} \X DOMAIN p.segs[m] : m \in DOMAIN p.segs})
        + (IF p.leading THEN 0 ELSE 2) + (IF p.trailing THEN 0 ELSE 1)

\* Where seg stands in s.
Places(seg, s) ==
    {k \in 1 .. Len(s) + 1 : k + Len(seg) <= Len(s) + 1 /\ SubSeq(s, k, k + Len(seg) - 1) = seg}

\* One turn of the loop over the middle segments: where what is left begins behind
\* the first place of seg in s[from .. end]; 0 if there is none, or was none before.
Behind(seg, s, from, end) ==
    LET at == {k \in Places(seg, s) : from <= k /\ k + Len(seg) <= end + 1}
    IN  IF from = 0 \/ at = {} THEN 0 ELSE Min(at) + Len(seg)

\* Mutant: the last segment is looked for like those in the middle.
MatchLoose(p, s) ==
    \/ p.segs = <<>>
    \/ LET first == IF p.leading THEN 0 ELSE 1
           from == IF p.leading THEN 1 ELSE 1 + Len(p.segs[1])
           behind[i \in first .. Len(p.segs)] ==
               IF i = first THEN from ELSE Behind(p.segs[i], s, behind[i - 1], Len(s))
       IN  /\ p.leading \/ 1 \in Places(p.segs[1], s)
           /\ behind[Len(p.segs)] # 0

\* pattern.match: the anchored ends first, then the segments between them, of which
\* those from first to last are taken; from and end bound what is left of s.
Match(p, s) ==
    \/ p.segs = <<>>
    \/ LET m == Len(p.segs)
           first == IF p.leading THEN 0 ELSE 1
           last == IF p.trailing \/ m = first THEN m ELSE m - 1
           from == IF p.leading THEN 1 ELSE 1 + Len(p.segs[1])
           end == IF last = m THEN Len(s) ELSE Len(s) - Len(p.segs[m])
           behind[i \in first .. last] ==
               IF i = first THEN from ELSE Behind(p.segs[i], s, behind[i - 1], end)
       IN  /\ p.leading \/ 1 \in Places(p.segs[1], s)
           /\ last = m \/ (from <= end + 1 /\ end + 1 \in Places(p.segs[m], s))
           /\ behind[last] # 0

----------------------------------------------------------------------------
(* Parse                                                                   *)

\* Everything is given; the table of the configuration is still to come.
MapInit(h, m) ==
    /\ header = h /\ name = m
    /\ static = [rules |-> NoRules, fallback |-> <<>>]
    /\ pc = "wait" /\ table = "header" /\ raw = h
    /\ rules = NoRules /\ invalid = <<>> /\ wild = <<>> /\ n = 1
    /\ kind = "none" /\ answer = <<>>

\* From here on the table of the configuration is asked.
UseStatic ==
    /\ table' = "static" /\ rules' = static.rules
    /\ wild' = <<>> /\ n' = 1 /\ pc' = "build"
    /\ UNCHANGED <<given, raw, invalid, kind, answer>>

\* No header, or a blank one.
NoHeader ==
    /\ pc = "parse" /\ raw = header /\ Trim(header) = <<>>
    /\ UseStatic

Bad(seg) == IF Len(invalid) >= MaxInvalid THEN invalid ELSE Append(invalid, seg)

\* Mutant: a segment that cannot be used is passed over.
ParseSegmentLenient ==
    /\ pc = "parse" /\ raw # <<>> /\ Trim(header) # <<>>
    /\ LET semi == IndexOf(raw, ";")
           seg == Trim(IF semi = 0 THEN raw ELSE SubSeq(raw, 1, semi - 1))
           colon == IndexOf(seg, ":")
           pub == Trim(SubSeq(seg, 1, colon - 1))
           up == Trim(From(seg, colon + 1))
       IN  /\ raw' = IF semi = 0 THEN <<>> ELSE From(raw, semi + 1)
           /\ rules' = IF colon > 0 /\ ValidToken(pub) /\ ValidToken(up)
                       THEN [r \in DOMAIN rules \cup {pub} |->
                                IF r # pub THEN rules[r]
                                ELSE IF r \in DOMAIN rules
                                THEN Append(rules[r], up) ELSE <<up>>]
                       ELSE rules
    /\ UNCHANGED <<given, pc, table, invalid, wild, n, kind, answer>>

\* One segment: nothing, a rule, or an error that is noted.  The first colon
\* divides it; the targets of a rule that is declared twice are put together.
ParseSegment ==
    /\ pc = "parse" /\ raw # <<>> /\ Trim(header) # <<>>
    /\ LET semi == IndexOf(raw, ";")
           seg == Trim(IF semi = 0 THEN raw ELSE SubSeq(raw, 1, semi - 1))
           colon == IndexOf(seg, ":")
           pub == Trim(SubSeq(seg, 1, colon - 1))
           up == Trim(From(seg, colon + 1))
           good == colon > 0 /\ ValidToken(pub) /\ ValidToken(up)
       IN  /\ raw' = IF semi = 0 THEN <<>> ELSE From(raw, semi + 1)
           /\ rules' = IF good
                       THEN [r \in DOMAIN rules \cup {pub} |->
                                IF r # pub THEN rules[r]
                                ELSE IF r \in DOMAIN rules
                                THEN Append(rules[r], up) ELSE <<up>>]
                       ELSE rules
           /\ invalid' = IF good \/ seg = <<>> THEN invalid ELSE Bad(seg)
    /\ UNCHANGED <<given, pc, table, wild, n, kind, answer>>

\* Mutant: a header of nothing but separators counts as an empty one.
EndParseLenient ==
    /\ pc = "parse" /\ raw = <<>> /\ Trim(header) # <<>>
    /\ pc' = "build"
    /\ UNCHANGED <<given, table, raw, rules, invalid, wild, n, kind, answer>>

EndParse ==
    /\ pc = "parse" /\ raw = <<>> /\ Trim(header) # <<>>
    /\ invalid' = IF DOMAIN rules = {} /\ invalid = <<>> THEN Bad(Trim(header))
                  ELSE invalid
    /\ pc' = "build"
    /\ UNCHANGED <<given, table, raw, rules, wild, n, kind, answer>>

----------------------------------------------------------------------------
(* build and LookupKind                                                    *)

Smaller(s, t) ==
    \/ IsStrictPrefix(s, t)
    \/ \E k \in DOMAIN s \cap DOMAIN t :
          SubSeq(s, 1, k - 1) = SubSeq(t, 1, k - 1) /\ Rank[s[k]] < Rank[t[k]]

\* Mutant: no second criterion.
BeforeByWeight(p, q) == Weight(p) > Weight(q)

Before(p, q) ==
    \/ Weight(p) > Weight(q)
    \/ Weight(p) = Weight(q) /\ Smaller(p.raw, q.raw)

\* sort.Slice, applied to what comes out of a Go map in any order, may leave
\* any sequence that the comparison does not object to.
Build ==
    /\ pc = "build"
    /\ wild' \in {w \in SetToSeqs({Compile(r) : r \in {x \in DOMAIN rules :
                                                         HasWildcard(x)}}) :
                     \A j, k \in DOMAIN w : j < k => ~Before(w[k], w[j])}
    /\ pc' = IF invalid = <<>> THEN "exact" ELSE "refused"
    /\ UNCHANGED <<given, table, raw, rules, invalid, n, kind, answer>>

Answer(level, candidates) ==
    /\ kind' = level /\ answer' = candidates /\ pc' = "done"
    /\ UNCHANGED <<given, table, raw, rules, invalid, wild, n>>

LookupExact ==
    /\ pc = "exact"
    /\ name \in DOMAIN rules /\ ~HasWildcard(name)
    /\ Answer("exact", rules[name])

NotExact ==
    /\ pc = "exact"
    /\ name \notin DOMAIN rules \/ HasWildcard(name)
    /\ pc' = "wild"
    /\ UNCHANGED <<given, table, raw, rules, invalid, wild, n, kind, answer>>

LookupWild ==
    /\ pc = "wild" /\ n <= Len(wild)
    /\ IF Match(wild[n], name)
       THEN Answer("wildcard", rules[wild[n].raw])
       ELSE n' = n + 1 /\ UNCHANGED <<given, pc, table, raw, rules, invalid, wild,
                                      kind, answer>>

\* Only the table of the configuration has a fallback.
LookupFallback ==
    /\ pc = "wild" /\ n > Len(wild) /\ table = "static"
    /\ IF static.fallback = <<>> THEN Answer("none", <<>>)
       ELSE Answer("fallback", static.fallback)

\* Mutant: a header that has rules of its own hides the configuration.
HeaderMissFinal ==
    /\ pc = "wild" /\ n > Len(wild) /\ table = "header"
    /\ Answer("none", <<>>)

\* gateway.rewrite: what the header's table does not have, the other one may.
HeaderMiss ==
    /\ pc = "wild" /\ n > Len(wild) /\ table = "header"
    /\ UseStatic

MapNext ==
    \/ NoHeader \/ ParseSegment \/ EndParse \/ Build
    \/ LookupExact \/ NotExact \/ LookupWild \/ LookupFallback \/ HeaderMiss

----------------------------------------------------------------------------
(* Properties                                                              *)

\* The part of the header that begins at k, and the two sides of its first colon.
SegAt(k) == Trim(PartAt(header, ";", k))
NameAt(k) == Trim(SubSeq(SegAt(k), 1, IndexOf(SegAt(k), ":") - 1))
TargetAt(k) == Trim(From(SegAt(k), IndexOf(SegAt(k), ":") + 1))

\* What parts of the header say by the rule: the targets of each name in front of
\* a colon, in the order they are written.
RulesAt(places) ==
    [r \in {NameAt(k) : k \in places} |->
        LET at == Ascending({k \in places : NameAt(k) = r})
        IN  [m \in DOMAIN at |-> TargetAt(at[m])]]

HeaderRules == RulesAt(Filled(header, ";"))

\* mapping.go:186-190, 228-234: nothing that is written in the header is lost
\* in silence.  A header that is not refused is blank, or each of its segments
\* that is not blank is a rule, and there is one.
NothingSwallowed ==
    pc = "exact" /\ Trim(header) # <<>> =>
        LET written == HeaderRules
        IN  /\ written # NoRules
            /\ \A r \in DOMAIN written :
                  ValidToken(r) /\ \A t \in ToSet(written[r]) : ValidToken(t)
            /\ table = "header" => rules = written

\* Where what the pattern p from j on stands for begins, when to[i] is the place behind
\* what the star at i stands for; what is not a star stands for itself.
Place(to, j) ==
    LET before == {i \in DOMAIN to : i < j}
    IN  IF before = {} THEN j ELSE to[Max(before)] + (j - Max(before) - 1)

\* What a wildcard means: each star stands for a part of s, none or any.
Glob(p, s) ==
    \E to \in [{j \in DOMAIN p : p[j] = "*"} -> 1 .. Len(s) + 1] :
        /\ \A j \in DOMAIN p :
              IF p[j] = "*" THEN Place(to, j) <= to[j]
              ELSE Place(to, j) \in DOMAIN s /\ s[Place(to, j)] = p[j]
        /\ Place(to, Len(p) + 1) = Len(s) + 1

Literals(p) == Cardinality({k \in DOMAIN p : p[k] # "*"})
Anchors(p) == (IF Head(p) = "*" THEN 0 ELSE 2) + (IF Last(p) = "*" THEN 0 ELSE 1)

MoreSpecific(p, q) ==
    \/ Literals(p) > Literals(q)
    \/ Literals(p) = Literals(q) /\ Anchors(p) > Anchors(q)
    \/ Literals(p) = Literals(q) /\ Anchors(p) = Anchors(q) /\ Smaller(p, q)

\* The rules of a table that apply to the name: the exact one alone, if there is
\* one, or the wildcards that match.
Hits(rs) ==
    IF name \in DOMAIN rs /\ ~HasWildcard(name) THEN {name}
    ELSE {r \in DOMAIN rs : HasWildcard(r) /\ Glob(r, name)}

BestOf(rs) == LET hits == Hits(rs)
              IN  CHOOSE r \in hits : \A q \in hits \ {r} : MoreSpecific(r, q)

\* mapping.go:47-55, 306-307, gateway.go:436-437: the rule that decides is the
\* header's, else the configuration's, and in each the exact one, else the most
\* specific of the wildcards that match, in whatever order they were written
\* and came out of the map; then the fallback.
MostSpecificWins ==
    pc = "done" =>
        LET written == HeaderRules
            deciding == IF Hits(written) # {} THEN written ELSE static.rules
            best == BestOf(deciding)
        IN  IF Hits(deciding) # {}
            THEN /\ answer = deciding[best]
                 /\ kind = IF HasWildcard(best) THEN "wildcard" ELSE "exact"
            ELSE /\ answer = static.fallback
                 /\ kind = IF answer = <<>> THEN "none" ELSE "fallback"
==============================================================================
