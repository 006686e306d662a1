------------------------------- MODULE Headers -------------------------------
(***************************************************************************)
(* Addresses, credentials and header fields on their way through the       *)
(* gateway (gateway/credential.go, buildRequest and buildURL in            *)
(* gateway/gateway.go, protocol/protocol.go; gateway/response.go for the   *)
(* way back).                                                              *)
(*                                                                         *)
(* A header maps the names of its fields to their values, which are texts; *)
(* names are in canonical form.  Content-Length is kept apart, as length,  *)
(* with NoLength for a header that has none.                               *)
(***************************************************************************)
EXTENDS Text, Integers

CONSTANTS
    DropHeaders,     \* SANITIZE_DROP_HEADERS
    MaxSanitizeBytes \* MAX_SANITIZE_BYTES

VARIABLES
    client, path, \* what is given: the client's fields and path
    upstream,     \* what is given: the answer of the upstream
    base,         \* what resolveBase returned
    sent,         \* the request to the upstream
    reply         \* the header of the reply, and what follows it

hdrvars == <<client, path, upstream, base, sent, reply>>

NoLength == -1

Nothing == [status |-> 0]

\* Header.Get: the first value.
Get(h, field) == IF field \in DOMAIN h THEN Head(h[field]) ELSE <<>>

\* Header.Set
Set(h, field, value) ==
    [f \in DOMAIN h \cup {field} |-> IF f = field THEN <<value>> ELSE h[f]]

Hop == {"Connection", "Proxy-Connection", "Keep-Alive", "Proxy-Authenticate",
        "Proxy-Authorization", "Te", "Trailer", "Transfer-Encoding", "Upgrade"}

Credentials == <<"Authorization", "X-Api-Key", "Api-Key">>

Internal == {"X-Model-Map", "X-Upstream-Base", "X-Model-Capability",
             "X-Upstream-Proxy"}

----------------------------------------------------------------------------
(* protocol.go                                                             *)

IsVersion(seg) == seg \in {"v1", "v1beta", "v2"}

Bearer == [auth |-> "Authorization", scheme |-> <<"Bearer", " ">>,
           required |-> [f \in {} |-> <<>>]]

\* The parts of a Spec that make a request.
Specs == [openai |-> Bearer, responses |-> Bearer, other |-> Bearer,
          anthropic |-> [auth |-> "X-Api-Key", scheme |-> <<>>,
                         required |-> [f \in {"Anthropic-Version"} |-> <<"2023-06-01">>]]]

\* Detect: by the first segment behind the version.
Protocol(p) ==
    LET segs == Split(Tail(p), "/")
        first == IF Len(segs) > 1 /\ segs[1] # <<>> /\ IsVersion(segs[1][1])
                 THEN segs[2] ELSE segs[1]
    IN  CASE first = <<"messages">> -> "anthropic"
          [] first = <<"responses">> -> "responses"
          [] first \in {<<"chat">>, <<"completions">>, <<"embeddings">>,
                        <<"models">>, <<"moderations">>, <<"images">>,
                        <<"audio">>} -> "openai"
          [] OTHER -> "other"

\* AuthValue, as a set of at most one: nothing is made of no key.
AuthValue(spec, key) == IF key = <<>> THEN {} ELSE {spec.scheme \o key}

----------------------------------------------------------------------------
(* Addresses                                                               *)

\* normalizeBase, as a set of at most one.
NormalizeBase(text) ==
    LET v == Trim(text)
        mark == IndexOf(v, "://")
        scheme == IF mark = 0 THEN <<"https">> ELSE SubSeq(v, 1, mark - 1)
        rest == TrimRight(From(v, mark + 1), "/")
        slash == IndexOf(rest, "/")
        host == IF slash = 0 THEN rest ELSE SubSeq(rest, 1, slash - 1)
    IN  IF scheme \in {<<"http">>, <<"https">>} /\ host # <<>> /\ " " \notin ToSet(host)
        THEN {scheme \o <<"://">> \o rest} ELSE {}

\* Mutant: a header that makes no sense counts as none.
ResolveBaseOrElse(h, config, proto) ==
    LET own == IF config.allowBase THEN NormalizeBase(Get(h, "X-Upstream-Base")) ELSE {}
        preset == IF proto \in DOMAIN config.bases /\ config.bases[proto] # <<>>
                  THEN config.bases[proto] ELSE config.base
    IN  IF own # {} THEN own ELSE {preset} \ {<<>>}

\* resolveBase with BaseFor: the header, or nothing if it makes no sense, the
\* base of the protocol, the base of all.
ResolveBase(h, config, proto) ==
    LET wish == Get(h, "X-Upstream-Base")
        preset == IF proto \in DOMAIN config.bases /\ config.bases[proto] # <<>>
                  THEN config.bases[proto] ELSE config.base
    IN  IF config.allowBase /\ Trim(wish) # <<>> THEN NormalizeBase(wish)
        ELSE {preset} \ {<<>>}

\* joinUpstreamPath: a base that has a path brings its own version.
JoinUpstreamPath(basePath, p) ==
    LET slash == IndexOf(Tail(p), "/")
    IN  IF basePath # <<>> /\ slash > 1 /\ IsVersion(p[2])
        THEN basePath \o From(p, slash + 1)
        ELSE basePath \o p

\* buildURL for a base that url.Parse takes and that has a host.
BuildURL(b, p) ==
    LET mark == IndexOf(b, "://")
        host == From(b, mark + 1)
        slash == IndexOf(host, "/")
    IN  IF slash = 0 THEN b \o p
        ELSE SubSeq(b, 1, mark + slash - 1)
             \o JoinUpstreamPath(TrimRight(From(host, slash), "/"), p)

----------------------------------------------------------------------------
(* Credentials and the request                                             *)

\* trimScheme for "bearer": nothing if the value is not of that scheme.
BearerKey(v) ==
    IF v[1] = "Bearer" /\ (Len(v) = 1 \/ v[2] = " ") THEN {Trim(Tail(v))} ELSE {}

\* What a field offers as a key, nothing if it is blank or only the scheme.
KeyIn(h, field) ==
    LET v == Trim(Get(h, field))
    IN  IF v = <<>> THEN <<>>
        ELSE IF BearerKey(v) # {} THEN CHOOSE k \in BearerKey(v) : TRUE
        ELSE v

\* effectiveCredential: the first field that offers one, or UPSTREAM_KEY.
Credential(h, config) ==
    LET offers == {j \in DOMAIN Credentials : KeyIn(h, Credentials[j]) # <<>>}
    IN  IF offers = {} THEN config.key ELSE KeyIn(h, Credentials[Min(offers)])

\* Mutant: the credentials of the client cross as they are.
CopyAllRequestHeaders(h) ==
    Set(Restrict(h, DOMAIN h \ (Hop \cup Internal \cup {"Host", "Accept-Encoding"})),
        "Accept-Encoding", <<"identity">>)

CopyRequestHeaders(h) ==
    Set(Restrict(h, DOMAIN h \ (Hop \cup ToSet(Credentials) \cup Internal
                                \cup {"Host", "Accept-Encoding"})),
        "Accept-Encoding", <<"identity">>)

\* buildRequest
BuildRequest(config, length) ==
    LET spec == Specs[Protocol(path)]
        auth == AuthValue(spec, Credential(client, config))
        copied == CopyRequestHeaders(client)
        keyed == IF auth = {} THEN copied
                 ELSE Set(copied, spec.auth, CHOOSE v \in auth : TRUE)
        missing == {f \in DOMAIN spec.required : Get(keyed, f) = <<>>}
    IN  [url |-> BuildURL(base, path),
         fields |-> [f \in missing \cup DOMAIN keyed |->
                        IF f \in missing THEN <<spec.required[f]>> ELSE keyed[f]],
         length |-> IF length = 0 THEN NoLength ELSE length]

HdrInit(c, p, a) ==
    /\ client = c /\ path = p /\ upstream = a
    /\ base = <<>> /\ sent = Nothing /\ reply = Nothing

\* What is sent for a body of that length.
Send(config, length) ==
    /\ sent' = BuildRequest(config, length)
    /\ UNCHANGED <<client, path, upstream, base, reply>>

----------------------------------------------------------------------------
(* The reply                                                               *)

\* Mutant: the upstream's Content-Length crosses with the other fields.
CopyEveryResponseHeader(a) ==
    [fields |-> Restrict(a.fields, DOMAIN a.fields \ (Hop \cup DropHeaders)),
     length |-> a.length]

CopyResponseHeaders(a) ==
    [fields |-> Restrict(a.fields, DOMAIN a.fields \ (Hop \cup DropHeaders)),
     length |-> NoLength]

Json == <<"application/json; charset=utf-8">>

\* w.Write of so many bytes of the upstream's answer, behind a header.
Relay(status, fields, length, bytes) ==
    /\ reply' = [status |-> status, fields |-> fields, length |-> length,
                 own |-> FALSE, bytes |-> bytes]
    /\ UNCHANGED <<client, path, upstream, base, sent>>

\* writeError on a header that may have fields already.
WriteError(status, fields) ==
    /\ reply' = [status |-> status, fields |-> Set(fields, "Content-Type", Json),
                 length |-> NoLength, own |-> TRUE, bytes |-> 0]
    /\ UNCHANGED <<client, path, upstream, base, sent>>

NoFields == [f \in {} |-> <<>>]

Copied == CopyResponseHeaders(upstream)

\* What a body may have become.
Sizes(sanitize) == IF sanitize THEN (upstream.bytes - 1 .. upstream.bytes + 1) \cap Nat
                   ELSE {upstream.bytes}

IsStream == upstream.sse /\ upstream.status < 400

StreamFields == [f \in {"Cache-Control", "Connection", "X-Accel-Buffering"} |->
                    CASE f = "Cache-Control" -> <<"no-cache, no-transform">>
                      [] f = "Connection" -> <<"keep-alive">>
                      [] f = "X-Accel-Buffering" -> <<"no">>]

\* A stream is sanitised as it goes, and may get longer or shorter by that.
PipeStream(sanitize) ==
    /\ IsStream
    /\ \E bytes \in Sizes(sanitize) :
          Relay(upstream.status,
                [f \in DOMAIN Copied.fields \cup DOMAIN StreamFields |->
                    IF f \in DOMAIN StreamFields THEN <<StreamFields[f]>>
                    ELSE Copied.fields[f]],
                Copied.length, bytes)

\* The length the upstream gives, or the bytes there are, are too many.
RejectOversizeResponse(sanitize) ==
    /\ ~IsStream /\ sanitize /\ upstream.bytes > MaxSanitizeBytes
    /\ WriteError(400, NoFields)

PassThrough(sanitize) ==
    /\ ~IsStream /\ ~sanitize /\ upstream.status < 400
    /\ Relay(upstream.status, Copied.fields,
             IF upstream.length # NoLength THEN upstream.length ELSE Copied.length,
             upstream.bytes)

Reads(sanitize) ==
    /\ ~IsStream /\ (sanitize \/ upstream.status >= 400)
    /\ sanitize => upstream.length <= MaxSanitizeBytes

\* The upstream breaks off.
ReadFails(sanitize) ==
    /\ Reads(sanitize)
    /\ WriteError(502, Copied.fields)

\* Too long to be read, and nothing to be done with it.
SkipTooLarge(sanitize) ==
    /\ Reads(sanitize) /\ ~sanitize /\ upstream.bytes > MaxSanitizeBytes
    /\ Relay(upstream.status, Copied.fields, Copied.length, upstream.bytes)

RelayBuffered(sanitize) ==
    /\ Reads(sanitize) /\ upstream.bytes <= MaxSanitizeBytes
    /\ \E bytes \in Sizes(sanitize) :
          Relay(upstream.status, Copied.fields, bytes, bytes)

Reply(sanitize) ==
    \/ PipeStream(sanitize) \/ PassThrough(sanitize) \/ RejectOversizeResponse(sanitize)
    \/ ReadFails(sanitize) \/ SkipTooLarge(sanitize) \/ RelayBuffered(sanitize)

----------------------------------------------------------------------------
(* Properties                                                              *)

\* credential.go:26-29, gateway.go:589-601, 776-786: exactly one credential
\* crosses, in the field and form of the protocol: the client's, from whichever
\* field it was in, else the configured one.  What is meant for the gateway, or
\* for the connection to it, does not cross, and all the rest does.
CredentialCrossesOnce(config) ==
    LET spec == Specs[Protocol(path)]
        Usable(f) == Trim(Get(client, f)) \notin {<<>>, <<"Bearer">>}
        Offered(f) == LET v == Trim(Get(client, f))
                      IN  IF IsPrefix(<<"Bearer", " ">>, v) THEN Trim(From(v, 3)) ELSE v
        key == IF Usable("Authorization") THEN Offered("Authorization")
               ELSE IF Usable("X-Api-Key") THEN Offered("X-Api-Key")
               ELSE IF Usable("Api-Key") THEN Offered("Api-Key")
               ELSE config.key
        carriers == DOMAIN sent.fields \cap (ToSet(Credentials) \cup Internal \cup Hop)
        plain == DOMAIN client \ (ToSet(Credentials) \cup Internal \cup Hop
                                  \cup {"Host", "Accept-Encoding"})
    IN  /\ carriers = IF key = <<>> THEN {} ELSE {spec.auth}
        /\ key # <<>> => sent.fields[spec.auth] = <<spec.scheme \o key>>
        /\ \A f \in plain : Get(client, f) # <<>> => sent.fields[f] = client[f]
        /\ \A f \in DOMAIN spec.required : Get(sent.fields, f) # <<>>

\* What an address says: without a scheme it is https, and its host ends at the first slash.
Address(t) ==
    LET mark == IndexOf(t, "://")
        behind == From(t, mark + 1)
        slash == IndexOf(behind, "/")
    IN  [scheme |-> IF mark = 0 THEN <<"https">> ELSE SubSeq(t, 1, mark - 1),
         host |-> IF slash = 0 THEN behind ELSE SubSeq(behind, 1, slash - 1),
         path |-> IF slash = 0 THEN <<>> ELSE From(behind, slash)]

\* credential.go:180-183, gateway.go:713-723: the upstream is the one the request
\* or the configuration names, never another one because the request's makes no
\* sense; behind a base that has a path no version of the gateway's is left.  An
\* address of the configuration need not have a host, one of the request must.
SentWhereDeclared(config) ==
    LET wish == Trim(Get(client, "X-Upstream-Base"))
        wished == config.allowBase /\ wish # <<>>
        preset == IF Protocol(path) # "other" /\ config.bases[Protocol(path)] # <<>>
                  THEN config.bases[Protocol(path)] ELSE config.base
        named == Address(IF wished THEN wish ELSE preset)
        usable == named.host # <<>> /\ " " \notin ToSet(named.host)
        own == TrimRight(named.path, "/")
        behind == {k \in 3 .. Len(path) : IsVersion(path[2]) /\ path[k] = "/"}
    IN  /\ named.scheme \in {<<"http">>, <<"https">>}
        /\ wished => usable
        /\ usable => Address(sent.url) =
                        [named EXCEPT !.path = own \o IF own = <<>> \/ behind = {} THEN path
                                                      ELSE From(path, Min(behind))]

\* response.go:45-49, 293-299, 348-355: a length that is announced is that of the
\* body that follows, whatever sanitising has made of it.  The upstream's own
\* connection fields and those the configuration drops do not cross, and its other
\* fields do, as they are; what else is there the gateway says of its own stream or
\* error.  Nothing of the upstream is on a refusal of an answer that is too long.
ReplyHeadersFit ==
    reply # Nothing =>
        LET fields == reply.fields
            crossing == DOMAIN upstream.fields \ (Hop \cup DropHeaders)
            set == IF reply.own THEN {"Content-Type"}
                   ELSE IF IsStream THEN DOMAIN StreamFields ELSE {}
        IN  /\ ~reply.own /\ reply.length # NoLength => reply.length = reply.bytes
            /\ reply.own => reply.length = NoLength
            /\ set \subseteq DOMAIN fields
            /\ DOMAIN fields \subseteq crossing \cup set
            /\ \A f \in DOMAIN fields \ set : fields[f] = upstream.fields[f]
            /\ ~reply.own => crossing \subseteq DOMAIN fields
            /\ ~reply.own /\ IsStream => fields["Connection"] = <<<<"keep-alive">>>>
            /\ reply.own /\ reply.status = 400 => DOMAIN fields = {"Content-Type"}

----------------------------------------------------------------------------
(* What the documentation says and the code does not do                    *)

\* response.go:348-351, README.md:391-392: the upstream's fields belong to an
\* answer of the upstream and are not to be found on an error the gateway makes.
\* They are when the answer breaks off while it is read.
OwnErrorsAreClean ==
    reply # Nothing /\ reply.own => DOMAIN reply.fields = {"Content-Type"}
==============================================================================
