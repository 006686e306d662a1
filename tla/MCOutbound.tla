------------------------------ MODULE MCOutbound ------------------------------
(* Scenarios for Outbound: each family varies what one part looks at, and a *)
(* little of its neighbours.                                                *)
EXTENDS Outbound, TLC

\* The characters and words of .env, the environment and X-Model-Map.  The order of
\* those that are in no name of a model does not matter.
Alphabet ==
    << "\t", "\n", "\r", " ", "\"", "#", "'", "*", "/", ":", ";", "=", "1", "\\", "a", "b",
       "|", "~", "://", "MODEL_MAP", "MODEL_MAP_FALLBACK", "MODEL_MAP_STRICT",
       "MODEL_CAPABILITY", "UPSTREAM_KEY", "UPSTREAM_BASE", "UPSTREAM_BASE_ANTHROPIC",
       "UPSTREAM_BASE_FROM_HEADER", "api", "c", "doc", "export", "file", "g", "h", "http",
       "https", "k0", "no", "off", "on", "tools", "v2", "yes" >>
RankOf == [c \in ToSet(Alphabet) |-> CHOOSE k \in DOMAIN Alphabet : Alphabet[k] = c]

\* "~" stands for a character that is not printable ASCII.
NotAscii == {"~"}

Texts(chars, min, max) == UNION {[1 .. k -> chars] : k \in min .. max}

Unset == [k \in Keys |-> <<>>]
E0 == [Unset EXCEPT !["UPSTREAM_BASE"] = <<"https", "://", "h">>]
E1 == [E0 EXCEPT !["MODEL_MAP"] = <<"a", "*", "=", "b", "|", "a">>,
                 !["MODEL_MAP_FALLBACK"] = <<"b", "|", "a">>]
E2 == [E0 EXCEPT !["MODEL_CAPABILITY"] = <<"file", "=", "b", ";", "tools", "=", "a">>]
E3 == [E0 EXCEPT !["UPSTREAM_KEY"] = <<"k0">>,
                 !["UPSTREAM_BASE"] = <<"https", "://", "h", "/", "api", "/", "v2", "/">>,
                 !["UPSTREAM_BASE_ANTHROPIC"] = <<"http", "://", "c">>]
E4 == [E3 EXCEPT !["UPSTREAM_BASE_FROM_HEADER"] = <<"no">>]
Off(e) == [e EXCEPT !["SANITIZE_OFF"] = <<"on">>]

Chat == <<"/", "v1", "/", "chat", "/", "completions">>
Messages == <<"/", "v1", "/", "messages">>

Object(depth, type, ref) == [depth |-> depth, type |-> type, ref |-> ref]
Body(tools, choice, nodes) == [tools |-> tools, choice |-> choice, nodes |-> nodes]
Root == Object(0, "none", FALSE)
PlainBody == Body("absent", "absent", <<Root>>)
FileBody == Body("absent", "absent", <<Root, Object(1, "file", TRUE)>>)

UpstreamAnswer(status, sse, length, bytes, fields) ==
    [status |-> status, sse |-> sse, length |-> length, bytes |-> bytes, fields |-> fields]
Stream == UpstreamAnswer(200, TRUE, NoLength, 2, NoFields)

\* What the client's fields are: those of the internal protocol as given.
Scenario(e, h, m, ch, d, c, p, a) ==
    [file |-> <<>>, environ |-> e, header |-> h, name |-> m, capHeader |-> ch,
     doc |-> d, path |-> p, upstream |-> a,
     client |-> [f \in (IF h = <<>> THEN {} ELSE {"X-Model-Map"})
                       \cup (IF ch = <<>> THEN {} ELSE {"X-Model-Capability"})
                 |-> <<IF f = "X-Model-Map" THEN h ELSE ch>>] @@ c]

----------------------------------------------------------------------------
(* .env: any two lines.                                                    *)

Assign(key, val) == <<key, "=">> \o val
Lines ==
    { Assign("MODEL_MAP", <<"a", "=", "b">>),
      <<"export", " ">> \o Assign("MODEL_MAP", <<" ", "\"", "b", "=", "\\", "a", "\"">>),
      Assign("MODEL_MAP", <<"'", "a", "=", "a", ";", "=", "b", "'">>),
      Assign("MODEL_MAP", <<>>), <<"#">> \o Assign("MODEL_MAP", <<"a", "=", "b", "1">>),
      Assign("MODEL_MAP_FALLBACK", <<"b", "|", "|", "a", " ", "#", "1">>),
      Assign("MODEL_MAP_STRICT", <<"yes">>),
      Assign("MODEL_CAPABILITY", <<"doc", "=", "b", ";", "file", "=", "a">>),
      Assign("MODEL_CAPABILITY", <<"file", ":", "b">>),
      Assign("UPSTREAM_KEY", <<"k0">>),
      Assign("UPSTREAM_BASE", <<"http", "://", "g", "/", "v2", "/">>),
      Assign("UPSTREAM_BASE", <<"g">>),
      Assign("UPSTREAM_BASE_ANTHROPIC", <<"https", "://", "c">>),
      Assign("UPSTREAM_BASE_FROM_HEADER", <<"off">>),
      <<"=", "a">>, <<" ">>, <<"export">> }

EnvFamily ==
    \E e \in {Unset, E0, E1, E3}, h \in {<<>>, <<"b", ":", "a">>}, p \in {Chat, Messages},
       f \in Texts(Lines, 0, 2) :
        OutInit([Scenario(e, h, <<"a">>, <<>>, FileBody, NoFields, p, Stream) EXCEPT !.file = f])

----------------------------------------------------------------------------
(* X-Model-Map: any text of up to five characters; up to three rules.      *)

AnyHeaders == Texts({"a", "*", ":", ";", " ", "~"}, 0, 5)

Patterns == { <<"a">>, <<"a", "b">>, <<"a", "*">>, <<"*", "a">>, <<"b", "*">>,
              <<"a", "*", "b">>, <<"*", "a", "*">>, <<"*", "a", "b", "*">>,
              <<"a", "*", "a">>, <<"*">>, <<"*", "b", "*">> }
Rule(p) == p \o <<":">> \o p
RuleHeader(f) == FlattenSeq([k \in DOMAIN f |-> Rule(f[k]) \o <<";">>])
RuleHeaders == {RuleHeader(f) : f \in Texts(Patterns, 0, 2)}
               \cup {RuleHeader(SetToSeq(three)) : three \in kSubset(3, Patterns)}

Mapping(e, h, m) == Scenario(e, h, m, <<>>, PlainBody, NoFields, Chat, Stream)

\* Leading and trailing blanks of a header are cut off before the gateway sees it.
MapFamily ==
    \/ \E h \in AnyHeaders : Trim(h) = h /\ OutInit(Mapping(E1, h, <<"a">>))
    \/ \E e \in {E0, E1}, h \in RuleHeaders, m \in Texts({"a", "b"}, 1, 3) :
          OutInit(Mapping(e, h, m))

----------------------------------------------------------------------------
(* X-Model-Capability: any two parts; bodies with up to two objects inside. *)

Parts == { <<"file", ":", "a">>, <<"doc", ":", "b">>, <<" ", "image", " ", ":", " ", "b", " ">>,
           <<"vision", ":", "a", ":", "1">>, <<"tools", ":", "b">>, <<"1", ":", "a">>,
           <<"vision">>, <<":", "a">>, <<"file", ":">>, <<"video", ":", "b">> }
CapHeaders == {<<>>} \cup Parts \cup {p \o <<";">> \o q : p, q \in Parts}

Objects(depth) ==
    {Object(depth, t, FALSE) : t \in {"none", "image_url", "tool_use", "file", "document"}}
    \cup {Object(depth, t, TRUE) : t \in {"file", "document"}}
Bodies ==
    {Body("absent", "absent", <<Root>> \o ns) :
        ns \in {<<>>} \cup {<<o>> : o \in Objects(1)}
               \cup {<<o, q>> : o \in Objects(1), q \in Objects(1) \cup Objects(2)}}
    \cup {Body(tools, choice, <<Root>> \o ns) :
             tools \in {"absent", "empty", "some"}, choice \in {"absent", "default", "named"},
             ns \in {<<>>, <<Object(1, "image_url", FALSE)>>, <<Object(1, "file", TRUE)>>}}

CapFamily ==
    \E d \in Bodies :
        \/ \E ch \in CapHeaders :
              OutInit(Scenario(E0, <<"a", ":", "b">>, <<"a">>, ch, d, NoFields, Chat, Stream))
        \/ \E ch \in {<<>>} \cup Parts :
              OutInit(Scenario(E2, <<>>, <<"a">>, ch, d, NoFields, Chat, Stream))

----------------------------------------------------------------------------
(* Credentials and other fields; addresses and paths; answers.             *)

Fields(field, values) == {NoFields} \cup {field :> v : v \in values}

CredentialFields ==
    {a @@ x @@ k @@ o :
        a \in Fields("Authorization", {<<<<>>>>, <<<<"Bearer">>>>, <<<<"Bearer", " ", "k1">>>>,
                                       <<<<"k1">>, <<"k9">>>>, <<<<"Bearerk">>>>}),
        x \in Fields("X-Api-Key", {<<<<"k2">>>>, <<<<>>>>}),
        k \in Fields("Api-Key", {<<<<"Bearer", " ", " ", "k3">>>>}),
        o \in {NoFields,
               [f \in {"Host", "Connection", "Te", "X-Upstream-Proxy", "Accept-Encoding",
                       "Proxy-Authorization"} |-> <<<<"v">>>>]
               @@ [f \in {"Anthropic-Version", "X-Other"} |-> <<<<"v">>, <<"w">>>>],
               "Anthropic-Version" :> <<<<>>>>}}

BaseFields ==
    Fields("X-Upstream-Base",
           {<<b>> : b \in { <<"https", "://", "u", "/", "api", "/", "v2", "/">>, <<"u">>,
                            <<"u", "/", "x">>, <<"ftp", "://", "u">>, <<"https", "://">>,
                            <<"http", "://", "/", "u">>, <<"u", " ", "u">>, <<" ">> }})

AllPaths == {Chat, Messages, <<"/", "v1">>, <<"/", "x">>,
             <<"/", "v1beta", "/", "responses", "/", "r">>, <<"/", "v1", "/", "x">>}

UpstreamFields ==
    [f \in {"Connection", "Server", "X-Dropped", "Cache-Control", "Content-Encoding",
            "Content-Type"} |-> <<<<"v">>, <<"w">>>>]

RequestFamily ==
    \/ \E e \in {E0, E3}, h \in {<<>>, <<"a", ":", "b", "1">>}, c \in CredentialFields,
          p \in {Chat, Messages} :
          OutInit(Scenario(e, h, <<"a">>, <<>>, PlainBody, c, p, Stream))
    \/ \E e \in {E0, E3, E4}, c \in BaseFields, p \in AllPaths :
          OutInit(Scenario(e, <<>>, <<"a">>, <<>>, PlainBody, c, p, Stream))

AnswerFamily ==
    \E e \in {E0, Off(E0)}, status \in {200, 400, 503}, sse \in BOOLEAN, known \in BOOLEAN,
       bytes \in 1 .. 3, fs \in {NoFields, UpstreamFields} :
        OutInit(Scenario(e, <<>>, <<"a">>, <<>>, PlainBody, NoFields, Chat,
                         UpstreamAnswer(status, sse, IF known THEN bytes ELSE NoLength,
                                        bytes, fs)))

AnyFamily == EnvFamily \/ MapFamily \/ CapFamily \/ RequestFamily \/ AnswerFamily

\* The scenarios are some of those of OutBegin.
MCBegin == AnyFamily /\ Given

MCSpec == MCBegin /\ [][OutNext]_outvars

\* .env alone.
EnvSpec == EnvFamily /\ [][OutNext]_outvars
===============================================================================
