------------------------------ MODULE Capability ------------------------------
(***************************************************************************)
(* Which capabilities a request uses and which models are declared for     *)
(* them (capability/capability.go): the header X-Model-Capability is       *)
(* parsed part by part, and the body is searched for the capabilities      *)
(* somebody has declared a model for.                                      *)
(*                                                                         *)
(* A body is what the search can see of it: whether the top level has      *)
(* tools or functions, what its tool_choice is, and its objects, arrays    *)
(* included, in the order of the document, each with its depth, its type   *)
(* and whether it refers to a file.                                        *)
(***************************************************************************)
EXTENDS Text

CONSTANT
    MaxScanDepth \* maxScanDepth, 12 in the code

ASSUME CapabilityAssumption == MaxScanDepth \in Nat

VARIABLES
    capHeader, doc, \* what is given: the header and the body
    capStatic,      \* MODEL_CAPABILITY as a Map
    cpc,
    rest,           \* what of the header is still to be parsed
    caps,           \* the Map that resolveCapMap returns: the models of each kind
    node,           \* the next object scan comes to
    got             \* the kinds found so far

capvars == <<capHeader, doc, capStatic, cpc, rest, caps, node, got>>

Kinds == {"vision", "audio", "video", "tools", "file"}

Spellings == [vision |-> {"vision", "image"}, audio |-> {"audio"},
              video |-> {"video"}, tools |-> {"tools", "tool", "function"},
              file |-> {"file", "document", "doc"}]

\* ParseKind, as a set of at most one.
ParseKind(s) ==
    {k \in Kinds : \E name \in Spellings[k] : Trim(s) = <<name>>}

TypeNames == [vision |-> {"image_url", "input_image", "image"},
              audio |-> {"input_audio", "audio_url", "audio"},
              video |-> {"video_url", "input_video", "video"},
              file |-> {"file", "input_file", "document"},
              tools |-> {"tool_use", "tool_result", "function_call"}]

\* kindOfType, as a set of at most one.
KindOfType(t) == {k \in Kinds : t \in TypeNames[k]}

\* What gjson makes of a body.
IsBody(d) ==
    d.nodes \in Seq([depth : Nat, type : STRING, ref : BOOLEAN])

NoCaps == [k \in Kinds |-> <<>>]

Want(cm) == {k \in Kinds : cm[k] # <<>>}

\* FromStatic: the names come out of a Go map, so that spellings of one kind
\* add up in any order; the order of the models does not matter to Lookup.
FromStatic(src) ==
    [k \in Kinds |->
        FlattenSeq(LET names == {x \in DOMAIN src : k \in ParseKind(x)}
                       order == CHOOSE s \in SetToSeqs(names) : TRUE
                   IN  [j \in DOMAIN order |-> src[order[j]]])]

----------------------------------------------------------------------------
(* Parse and resolveCapMap                                                 *)

\* Everything is given; the table of the configuration is still to come.
CapInit(h, d) ==
    /\ capHeader = h /\ doc = d
    /\ capStatic = NoCaps /\ cpc = "wait" /\ rest = h
    /\ caps = NoCaps /\ node = 1 /\ got = {}

\* Mutant: the last colon divides a part.
ParsePartLast ==
    /\ cpc = "parse" /\ rest # <<>>
    /\ LET semi == IndexOf(rest, ";")
           seg == Trim(IF semi = 0 THEN rest ELSE SubSeq(rest, 1, semi - 1))
           colon == Max({0} \cup {k \in DOMAIN seg : seg[k] = ":"})
           model == Trim(From(seg, colon + 1))
           kinds == IF colon = 0 \/ model = <<>> THEN {}
                    ELSE ParseKind(SubSeq(seg, 1, colon - 1))
       IN  /\ rest' = IF semi = 0 THEN <<>> ELSE From(rest, semi + 1)
           /\ caps' = [k \in Kinds |-> IF k \in kinds THEN Append(caps[k], model)
                                       ELSE caps[k]]
    /\ UNCHANGED <<capHeader, doc, capStatic, cpc, node, got>>

\* One part: a model for a kind, or something that is passed over.
ParsePart ==
    /\ cpc = "parse" /\ rest # <<>>
    /\ LET semi == IndexOf(rest, ";")
           seg == Trim(IF semi = 0 THEN rest ELSE SubSeq(rest, 1, semi - 1))
           colon == IndexOf(seg, ":")
           model == Trim(From(seg, colon + 1))
           kinds == IF colon = 0 \/ model = <<>> THEN {}
                    ELSE ParseKind(SubSeq(seg, 1, colon - 1))
       IN  /\ rest' = IF semi = 0 THEN <<>> ELSE From(rest, semi + 1)
           /\ caps' = [k \in Kinds |-> IF k \in kinds THEN Append(caps[k], model)
                                       ELSE caps[k]]
    /\ UNCHANGED <<capHeader, doc, capStatic, cpc, node, got>>

\* A header that declares nothing leaves the field to the configuration.
ResolveCapMap ==
    /\ cpc = "parse" /\ rest = <<>>
    /\ caps' = IF Want(caps) # {} THEN caps ELSE capStatic
    /\ cpc' = "detect"
    /\ UNCHANGED <<capHeader, doc, capStatic, rest, node, got>>

----------------------------------------------------------------------------
(* Detect                                                                  *)

\* coarseMatch, with the names of the fields written without escapes.
CoarseMatch ==
    \/ doc.tools # "absent" \/ doc.choice # "absent"
    \/ \E k \in DOMAIN doc.nodes : doc.nodes[k].type # "none"

\* hasTools: a list that is not empty, or a choice that is not a default.
HasTools == doc.tools = "some" \/ doc.choice = "named"

Detect ==
    /\ cpc = "detect"
    /\ IF Want(caps) = {} \/ ~CoarseMatch
       THEN cpc' = "done" /\ UNCHANGED got
       ELSE /\ got' = Want(caps) \cap IF HasTools THEN {"tools"} ELSE {}
            /\ cpc' = "scan"
    /\ UNCHANGED <<capHeader, doc, capStatic, rest, caps, node>>

Scanning == cpc = "scan" /\ node <= Len(doc.nodes) /\ ~(Want(caps) \subseteq got)

\* The kind of an object, if it is one that is wanted; a file must be referred to.
Found(o) ==
    {k \in KindOfType(o.type) \cap Want(caps) : k = "file" => o.ref}

\* Mutant: the search ends with the first kind.
ScanOnce ==
    /\ Scanning
    /\ got' = IF doc.nodes[node].depth > MaxScanDepth THEN got
              ELSE got \cup Found(doc.nodes[node])
    /\ node' = IF Found(doc.nodes[node]) # {} THEN Len(doc.nodes) + 1 ELSE node + 1
    /\ UNCHANGED <<capHeader, doc, capStatic, cpc, rest, caps>>

\* scan comes to the next object.  What lies too deep is passed over with all
\* that is in it.
Scan ==
    /\ Scanning
    /\ got' = IF doc.nodes[node].depth > MaxScanDepth THEN got
              ELSE got \cup Found(doc.nodes[node])
    /\ node' = node + 1
    /\ UNCHANGED <<capHeader, doc, capStatic, cpc, rest, caps>>

\* Nothing is left, or nothing more is wanted.
EndScan ==
    /\ cpc = "scan" /\ ~Scanning
    /\ cpc' = "done"
    /\ UNCHANGED <<capHeader, doc, capStatic, rest, caps, node, got>>

CapNext == ParsePart \/ ResolveCapMap \/ Detect \/ Scan \/ EndScan

----------------------------------------------------------------------------
(* Properties                                                              *)

\* What a part of the header declares: a model for a kind, if there is one.
KindsOf(part) == IF IndexOf(part, ":") \in {0, Len(part)} THEN {}
                 ELSE ParseKind(SubSeq(part, 1, IndexOf(part, ":") - 1))
ModelOf(part) == Trim(From(part, IndexOf(part, ":") + 1))

\* capability.go:176-179: a slip in one part does not undo the others, and a
\* model declared twice counts twice.
DeclarationsSurvive ==
    LET Part(p) == Trim(PartAt(capHeader, ";", p))
        declaring(k) == {p \in Starts(capHeader, ";") : k \in KindsOf(Part(p))}
        models(k) == LET at == Ascending(declaring(k))
                     IN  [m \in DOMAIN at |-> ModelOf(Part(at[m]))]
    IN  IF \E k \in Kinds : declaring(k) # {}
        THEN \A k \in Kinds : caps[k] = models(k)
        ELSE caps = capStatic

\* capability.go:247-256, 337-341: however early the search may stop, it finds
\* just the declared kinds that the body uses: tools at the top level or a call
\* of one, or an object of a type of the kind that is not too deep, and for a
\* file one that refers to it.
DetectedIsUsed ==
    got = {k \in Want(caps) :
              \/ k = "tools" /\ HasTools
              \/ \E o \in ToSet(doc.nodes) :
                    /\ o.depth <= MaxScanDepth
                    /\ o.type \in TypeNames[k]
                    /\ k = "file" => o.ref}

----------------------------------------------------------------------------
(* What the documentation says and the code does not do                    *)

\* capability.go:255: of the types of a file only "file" needs a reference, an
\* "input_file" or a "document" counts as it is.  isFileRef is asked for all of
\* them, so that a document given inline is not found.
InlineDocumentsCount ==
    cpc = "done" /\ "file" \in Want(caps)
    /\ (\E o \in ToSet(doc.nodes) : o.type \in {"input_file", "document"}
                                    /\ o.depth <= MaxScanDepth)
        => "file" \in got
===============================================================================
