---------------------------- MODULE JsonSanitize ----------------------------
(***************************************************************************)
(* Spec.sanitize (protocol/body.go): the model fields of a JSON answer are *)
(* overwritten, then the other strings are searched for upstream names,    *)
(* unless the bytes of the answer show that there are none.  Each string   *)
(* is given to replace, which is FoldReplace.                              *)
(*                                                                         *)
(* A document maps the paths of its strings to their texts.  Of a text     *)
(* that is written with a JSON escape inside its names, the bytes show no  *)
(* name.                                                                   *)
(***************************************************************************)
EXTENDS FoldReplace

CONSTANTS
    ModelPaths,    \* Spec.ModelPaths, a sequence of paths
    Indices,       \* the elements of paths that are indices, not names
    ContentFields, \* sanitize.contentFields
    MaxScanDepth,  \* maxScanDepth
    MaxValueLen    \* SANITIZE_MAX_VALUE_LEN

\* The names of contentFields are words: none is empty, and no index is one.
ASSUME SanitizeAssumption ==
    /\ ModelPaths \in Seq(Seq(STRING))
    /\ ContentFields \cap Indices = {} /\ "" \notin ContentFields

VARIABLES
    body,          \* the answer
    failed,        \* it is a 4xx or 5xx
    spc,
    k,             \* the index in ModelPaths
    doc,           \* out
    covered,
    queue,         \* the paths collect has still to come to
    edits,         \* paths and values of scanAndReplace, as a function
    changed, suppressed \* SanitizeReport

sanvars == <<foldvars, body, failed, spc, k, doc, covered, queue, edits,
             changed, suppressed>>

public == config.public

\* What stands where a field is no string.
NoString == <<"number">>

IsString(d, path) == path \in DOMAIN d /\ d[path].text # NoString

\* MayMatch on the bytes.
BytesMayMatch(d) ==
    \E path \in DOMAIN d :
        IsString(d, path) /\ ~d[path].escaped /\ MayMatch(d[path].text, pats)

\* Mutant: an element of an array belongs to no field.
FieldOfLast(path) == IF Last(path) \in Indices THEN "" ELSE Last(path)

\* The name of the field a string belongs to: an element of an array belongs to
\* the array's.
FieldOf(path) ==
    LET keys == {n \in DOMAIN path : path[n] \notin Indices}
    IN  IF keys = {} THEN "" ELSE path[Max(keys)]

\* The errors are the upstream's own words, of whatever length.
TooLong(s) == ~failed /\ Len(s) > MaxValueLen

Put(d, path, s) == [d EXCEPT ![path] = [text |-> s, escaped |-> FALSE]]

\* What gjson makes of an answer: finitely many strings, each at its path.
IsDocument(d) ==
    /\ d \in [DOMAIN d -> [text : Seq(STRING), escaped : BOOLEAN]]
    /\ IsFiniteSet(DOMAIN d) /\ DOMAIN d \subseteq Seq(STRING)

\* What Rules.For is asked for, with the aliases and pairs of the configuration.
IsConfig(c) ==
    /\ c.upstream \in Seq(STRING) /\ c.public \in Seq(STRING)
    /\ IsFiniteSet(c.aliases) /\ c.aliases \subseteq Seq(STRING)
    /\ IsFiniteSet(c.global) /\ c.global \subseteq Seq(STRING) \X Seq(STRING)

SanInit(b, c, f) ==
    /\ FoldInit(c) /\ body = b /\ failed = f
    /\ doc = b /\ k = 1 /\ covered = {} /\ queue = <<>>
    /\ edits = [path \in {} |-> <<>>]
    /\ changed = FALSE /\ suppressed = FALSE /\ spc = "override"

\* Mutant: a field that has the public name already is not noted.
OverrideForgets ==
    /\ spc = "override" /\ k <= Len(ModelPaths)
    /\ LET path == ModelPaths[k]
           other == IsString(doc, path) /\ doc[path].text # public
       IN  /\ covered' = IF other THEN covered \cup {path} ELSE covered
           /\ doc' = IF other THEN Put(doc, path, public) ELSE doc
           /\ changed' = (changed \/ other)
    /\ k' = k + 1
    /\ UNCHANGED <<foldvars, body, failed, spc, queue, edits, suppressed>>

\* A model field is given the public name, and is not searched in any case.
Override ==
    /\ spc = "override" /\ k <= Len(ModelPaths)
    /\ LET path == ModelPaths[k]
           other == IsString(doc, path) /\ doc[path].text # public
       IN  /\ covered' = IF IsString(doc, path) THEN covered \cup {path} ELSE covered
           /\ doc' = IF other THEN Put(doc, path, public) ELSE doc
           /\ changed' = (changed \/ other)
    /\ k' = k + 1
    /\ UNCHANGED <<foldvars, body, failed, spc, queue, edits, suppressed>>

\* The strings collect comes to, and does not pass over.
Candidates ==
    {path \in DOMAIN doc : /\ IsString(doc, path)
                           /\ Len(path) <= MaxScanDepth
                           /\ FieldOf(path) \notin ContentFields
                           /\ path \notin covered}

\* The paths are different, and the order of the document does not matter.
Search ==
    /\ spc = "override" /\ k > Len(ModelPaths)
    /\ IF BytesMayMatch(doc)
       THEN queue' = SetToSeq(Candidates) /\ spc' = "collect"
       ELSE UNCHANGED queue /\ spc' = "done"
    /\ UNCHANGED <<foldvars, body, failed, k, doc, covered, edits, changed, suppressed>>

AtHead == doc[Head(queue)].text

\* Mutant: what is too long is passed over without a word.
PassOverQuietly ==
    /\ spc = "collect" /\ queue # <<>> /\ TooLong(AtHead)
    /\ queue' = Tail(queue)
    /\ UNCHANGED <<foldvars, body, failed, spc, k, doc, covered, edits, changed, suppressed>>

\* What is too long is left as it is; that a name is in it is noted.
PassOver ==
    /\ spc = "collect" /\ queue # <<>> /\ TooLong(AtHead)
    /\ suppressed' = (suppressed \/ MayMatch(AtHead, pats))
    /\ queue' = Tail(queue)
    /\ UNCHANGED <<foldvars, body, failed, spc, k, doc, covered, edits, changed>>

Apply ==
    /\ spc = "collect" /\ queue # <<>> /\ ~TooLong(AtHead)
    /\ Call(AtHead) /\ spc' = "apply"
    /\ UNCHANGED <<body, failed, k, doc, covered, queue, edits, changed, suppressed>>

ReplaceOn ==
    /\ spc = "apply" /\ FoldNext
    /\ UNCHANGED <<body, failed, spc, k, doc, covered, queue, edits, changed, suppressed>>

Applied ==
    /\ spc = "apply" /\ Return
    /\ edits' = IF out = text THEN edits
                ELSE [path \in DOMAIN edits \cup {Head(queue)} |->
                        IF path = Head(queue) THEN out ELSE edits[path]]
    /\ queue' = Tail(queue) /\ spc' = "collect"
    /\ UNCHANGED <<body, failed, k, doc, covered, changed, suppressed>>

\* Mutant: only a model field that was overwritten counts as a change.
WriteUnreported ==
    /\ spc = "collect" /\ queue = <<>>
    /\ doc' = [path \in DOMAIN doc |->
                 IF path \in DOMAIN edits
                 THEN [text |-> edits[path], escaped |-> FALSE] ELSE doc[path]]
    /\ spc' = "done"
    /\ UNCHANGED <<foldvars, body, failed, k, covered, queue, edits, changed, suppressed>>

\* The loop of scanAndReplace over what has been collected.
Write ==
    /\ spc = "collect" /\ queue = <<>>
    /\ doc' = [path \in DOMAIN doc |->
                 IF path \in DOMAIN edits
                 THEN [text |-> edits[path], escaped |-> FALSE] ELSE doc[path]]
    /\ changed' = (changed \/ DOMAIN edits # {})
    /\ spc' = "done"
    /\ UNCHANGED <<foldvars, body, failed, k, covered, queue, edits, suppressed>>

SanNext == Override \/ Search \/ PassOver \/ Apply \/ ReplaceOn \/ Applied \/ Write

\* sanitize, from any call of it: with any document, names and status.
SanBegin == IsDocument(body) /\ IsConfig(config) /\ SanInit(body, config, failed)

SanSpec == SanBegin /\ [][SanNext]_sanvars

----------------------------------------------------------------------------
(* Properties                                                              *)

\* The strings that may be searched at all.
Searched ==
    {path \in DOMAIN doc : /\ IsString(doc, path) /\ Len(path) <= MaxScanDepth
                           /\ \A key \in ToSet(path) : key \notin ContentFields}

Plain == \A path \in DOMAIN body : ~body[path].escaped

\* body.go:139-157, fold.go:155-158: a name that is left where names are searched
\* for is part of a replacement, or is reported, and in an error nothing is left;
\* the bytes that show no name hide none.  Names and replacements that are not
\* apart are exempt.
LeaksAreReported ==
    spc = "done" /\ Plain /\ Apart(pats) =>
        \A path \in Searched \ ToSet(ModelPaths) :
            Leaks(doc[path].text, pats) => suppressed /\ ~failed

\* sse.go:136-139: the caller keeps the bytes it has if nothing is reported to
\* have changed, so that no change may go unreported.
ChangeIsReported == spc = "done" /\ doc # body => changed

\* body.go:62-71: at the end every model field is the public name, to the
\* letter, even where that name has an upstream name inside it.
ModelIsPublic ==
    spc = "done" =>
        \A path \in ToSet(ModelPaths) \cap DOMAIN doc :
            doc[path].text \in {public, NoString}

\* body.go:167, sanitize.go:39-41: what the model has written is relayed as it
\* is, wherever in a list it stands.
ContentUntouched ==
    \A path \in DOMAIN doc :
        path \notin ToSet(ModelPaths)
        /\ (\E j \in DOMAIN path : /\ path[j] \in ContentFields
                                  /\ \A n \in j + 1 .. Len(path) : path[n] \in Indices)
            => doc[path] = body[path]

\* Each kind of field keeps its own rule, although one search goes over all, and
\* what is done to any of them is reported.
FieldsKeepTheirRules == ModelIsPublic /\ ContentUntouched /\ ChangeIsReported

----------------------------------------------------------------------------
(* What the documentation says and the code does not do                    *)

\* body.go:136-137: if MayMatch says no there is no upstream name in the text.
\* MayMatch reads the bytes, and the name is what the bytes stand for.
PrunedMeansClean ==
    spc = "done" /\ ~BytesMayMatch(doc) =>
        \A path \in Searched \ ToSet(ModelPaths) : ~MayMatch(doc[path].text, pats)

\* body.go:47-50: only the length of a text can leave a name in it unreported
\* and unreplaced.  So does its depth.
OnlyLengthSpares ==
    spc = "done" /\ Plain /\ failed /\ Apart(pats) =>
        \A path \in DOMAIN doc \ ToSet(ModelPaths) :
            IsString(doc, path) /\ FieldOf(path) \notin ContentFields =>
                ~Leaks(doc[path].text, pats)
=============================================================================
