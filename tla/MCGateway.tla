----------------------------- MODULE MCGateway -----------------------------
(* Small instances of Gateway: names, tables, headers and responses.       *)
EXTENDS Gateway

MCModels == {"pub", "main", "backup", "expert"}

NoCaps == [k \in Kinds |-> {}]

MCHit(kind, up) == [kind |-> kind, ups |-> {up}]

\* MODEL_MAP="pub:main"; the other names are not declared.
MCStaticTable == [m \in MCModels |-> IF m = "pub" THEN MCHit("exact", "main")
                                     ELSE Miss]

\* A request that names pub and uses no header of the gateway.
Plain == [baseHdr |-> "absent", proxyHdr |-> "absent", body |-> "model",
          pub |-> "pub", hdr |-> "absent", hit |-> Miss,
          capHdr |-> NoCaps, uses |-> {}]

RoutingInputs ==
    {[Plain EXCEPT !.baseHdr = b] : b \in {"absent", "good", "broken", "invalid"}}
    \cup {[Plain EXCEPT !.proxyHdr = p] : p \in {"valid", "invalid"}}

BodyInputs ==
    {[Plain EXCEPT !.body = b] : b \in {"unreadable", "opaque", "object"}}

MappingInputs ==
    {[Plain EXCEPT !.pub = n] : n \in MCModels}
    \cup {[Plain EXCEPT !.hdr = "invalid"]}
    \cup {[Plain EXCEPT !.hdr = "table", !.hit = h, !.pub = n] :
            h \in {Miss, MCHit("wildcard", "expert"), MCHit("fallback", "main"),
                   [kind |-> "exact", ups |-> {"main", "backup"}]},
            n \in {"pub", "backup"}}

\* X-Model-Capability: vision by expert (or main), tools by backup, file by
\* expert.
MCCaps == {[NoCaps EXCEPT !["vision"] = {"expert"}, !["tools"] = {"backup"}],
           [NoCaps EXCEPT !["vision"] = {"expert", "main"},
                          !["tools"] = {"backup"}],
           [NoCaps EXCEPT !["file"] = {"expert", "main"},
                          !["tools"] = {"backup"}]}

CapInputs ==
    {[Plain EXCEPT !.capHdr = c, !.uses = u] :
        c \in MCCaps \cup {NoCaps},
        u \in {{"vision"}, {"vision", "tools"}, {"file"}, {"file", "tools"}}}

AllInputs == RoutingInputs \cup BodyInputs \cup MappingInputs \cup CapInputs

\* A body that can be sent again and one that cannot.
FewInputs == {Plain, [Plain EXCEPT !.body = "opaque"]}

\* ... and a header whose rules do not have the name.
SharedInputs == FewInputs \cup {[Plain EXCEPT !.hdr = "table"]}

\* MODEL_CAPABILITY="tools:expert".
MCCapStatic == [NoCaps EXCEPT !["tools"] = {"expert"}]

Resp(s, sse, large, known) ==
    [status |-> s, sse |-> sse, large |-> large, known |-> known]

AllResponses ==
    {Resp(200, TRUE, FALSE, FALSE), Resp(503, TRUE, FALSE, FALSE)}
    \cup {Resp(s, FALSE, FALSE, TRUE) : s \in {200, 400, 401, 429, 503}}
    \cup {Resp(s, FALSE, TRUE, k) : s \in {200, 503}, k \in BOOLEAN}

FewResponses == {Resp(200, TRUE, FALSE, FALSE), Resp(503, FALSE, FALSE, TRUE)}
============================================================================
