--------------------------- MODULE MCJsonSanitize ---------------------------
(* Names, texts and answers for JsonSanitize.                              *)
EXTENDS JsonSanitize, TLC

CONSTANT MaxLen    \* bound: the length of a text in AnyText

Chars == {"a", "A", "b", "c", "-", "1"}

FoldChars == [c \in Chars |-> IF c = "A" THEN "a" ELSE c]

ModelPathsOf == << <<"model">>, <<"response", "model">> >>

Config(up, pub, al, gl) ==
    [upstream |-> up, public |-> pub, aliases |-> al, global |-> gl]

Around == Config(<<"b">>, <<"a", "-", "b">>, {}, {})
Aliased == Config(<<"a">>, <<"c", "a", "b">>, {<<"a", "b">>}, {})
Global == Config(<<"a", "b">>, <<"c">>, {}, {<<(<<"a", "b", "-">>), <<"1">>>>})

\* A global pair that would rewrite the public name.
Shadowed == Config(<<"a", "b">>, <<"c">>, {}, {<<(<<"c">>), <<"1">>>>})

\* A public name around the upstream name; one that is dated and one that
\* differs in case; a dated upstream name; an alias; a global pair.
ApartConfigs ==
    { Around, Aliased, Global,
      Config(<<"b">>, <<"b", "-", "1">>, {}, {}),
      Config(<<"a", "b">>, <<"A", "b">>, {}, {}),
      Config(<<"a", "b", "-", "1">>, <<"c">>, {}, {}) }

\* A public name that ends like the upstream name.
SplicedConfigs == { Config(<<"a", "b">>, <<"b">>, {}, {}) }

ASSUME SixAreApart == \A c \in ApartConfigs : \A w \in Patterns(c) : Apart(w)

Plainly(s) == [text |-> s, escaped |-> FALSE]

\* One string, an error's message, of any text.
AnyText ==
    \E c \in ApartConfigs \cup SplicedConfigs, n \in 0 .. MaxLen :
        \E s \in [1 .. n -> Chars] :
            SanInit(<<"error", "message">> :> Plainly(s), c, TRUE)

\* A name in a model field, in a message, in a list, in a list inside a content
\* field, too deep, too long, or written with an escape.
Models == {Plainly(s) : s \in {<<"c">>, <<"b">>, <<"a", "b">>, <<"A", "b", "-">>,
                               <<"a", "-", "b">>, NoString}}
Messages == {Plainly(s) : s \in {<<"c">>, <<"b", "-", "1">>, <<"A", "b", "-">>,
                                 <<"1", "a", "b", "b">>, NoString}}
            \cup {[text |-> <<"a", "b">>, escaped |-> TRUE]}
Contents == {Plainly(<<"a", "b">>), Plainly(<<"c">>)}

Choice(path) == CASE path \in ToSet(ModelPathsOf) -> Models
                  [] path \in {<<"error", "message">>, <<"list", "0">>} -> Messages
                  [] OTHER -> Contents

AnyAnswer ==
    \E dom \in {{<<"model">>, <<"error", "message">>, <<"list", "0">>, <<"content", "0">>},
                {<<"response", "model">>, <<"error", "message">>, <<"a", "b", "c">>},
                {<<"model">>, <<"response", "model">>, <<"list", "0">>}},
       c \in {Around, Aliased, Global, Shadowed}, f \in BOOLEAN :
        \E d \in [dom -> Models \cup Messages \cup Contents] :
            (\A path \in dom : d[path] \in Choice(path)) /\ SanInit(d, c, f)

\* They are all calls in the sense of SanBegin.
MCBegin == (AnyText \/ AnyAnswer) /\ IsDocument(body) /\ IsConfig(config)

MCSpec == MCBegin /\ [][SanNext]_sanvars
=============================================================================
