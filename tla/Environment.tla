----------------------------- MODULE Environment -----------------------------
(***************************************************************************)
(* Where the routing configuration comes from (config/env.go,              *)
(* config/config.go): the lines of .env are added to the environment of    *)
(* the process, the variables are read, and the result is validated.       *)
(*                                                                         *)
(* A text is a sequence of words and of the characters something looks     *)
(* for; a word stands for all its spellings in upper and lower case.  Only *)
(* the variables that decide where a request goes are read here.           *)
(***************************************************************************)
EXTENDS Text

VARIABLES
    file,          \* what is given: .env as a sequence of lines,
    environ,       \* and the environment of the process
    epc,
    ln,            \* the line LoadDotEnv is at
    env,           \* os.Getenv as a function; an empty text is an unset variable
    config         \* what Load makes of it

envvars == <<file, environ, epc, ln, env, config>>

Protocols == {"openai", "responses", "anthropic"}

\* The variables with the base of one protocol.
BaseKey == [openai |-> "UPSTREAM_BASE_OPENAI",
            responses |-> "UPSTREAM_BASE_RESPONSES",
            anthropic |-> "UPSTREAM_BASE_ANTHROPIC"]

Keys == {"UPSTREAM_BASE", "UPSTREAM_KEY", "UPSTREAM_BASE_FROM_HEADER",
         "MODEL_MAP", "MODEL_MAP_STRICT", "MODEL_MAP_FALLBACK",
         "MODEL_CAPABILITY", "SANITIZE_OFF"} \cup {BaseKey[p] : p \in Protocols}

----------------------------------------------------------------------------
(* Lines                                                                   *)

Quoted(v, q) == Len(v) >= 2 /\ Head(v) = q /\ Last(v) = q

\* unescape: a backslash gives way to what follows it, but for the last one.  It is
\* an escape if it is not escaped itself: an even number of them is in front of it.
Unescape(s) ==
    LET Run(k) == {i \in 1 .. k - 1 : \A j \in i .. k - 1 : s[j] = "\\"}
        escapes == {k \in 1 .. Len(s) - 1 : s[k] = "\\" /\ Cardinality(Run(k)) % 2 = 0}
        Meant(c) == CASE c = "n" -> "\n" [] c = "t" -> "\t"
                     [] c = "r" -> "\r" [] OTHER -> c
        kept == Ascending(DOMAIN s \ escapes)
    IN  [m \in DOMAIN kept |->
            IF kept[m] - 1 \in escapes THEN Meant(s[kept[m]]) ELSE s[kept[m]]]

\* The value behind the equals sign: what is in quotes, or what is before a
\* comment.
Value(v) ==
    LET hash == {k \in 1 .. Len(v) - 1 : v[k] = " " /\ v[k + 1] = "#"}
    IN  IF Quoted(v, "\"") THEN Unescape(SubSeq(v, 2, Len(v) - 1))
        ELSE IF Quoted(v, "'") THEN SubSeq(v, 2, Len(v) - 1)
        ELSE IF hash # {} THEN Trim(SubSeq(v, 1, Min(hash) - 1))
        ELSE v

\* parseLine: what the line assigns, as a set of at most one.
ParseLine(l) ==
    LET s == Trim(l)
        body == IF IsPrefix(<<"export", " ">>, s) THEN From(s, 3) ELSE s
        eq == IndexOf(body, "=")
    IN  IF s = <<>> \/ Head(s) = "#" \/ eq = 0 THEN {}
        ELSE {[key |-> Trim(SubSeq(body, 1, eq - 1)),
               val |-> Value(Trim(From(body, eq + 1)))]}

EnvInit(f, e) ==
    /\ file = f /\ environ = e
    /\ epc = "lines" /\ ln = 1 /\ env = e
    /\ config = <<>>

\* Mutant: a later line overrides an earlier one.
LoadLineOver ==
    /\ epc = "lines" /\ ln <= Len(file)
    /\ \A a \in ParseLine(file[ln]) : a.key # <<>>
    /\ env' = [k \in Keys |->
                 IF environ[k] = <<>> /\ \E a \in ParseLine(file[ln]) : a.key = <<k>>
                 THEN (CHOOSE a \in ParseLine(file[ln]) : TRUE).val
                 ELSE env[k]]
    /\ ln' = ln + 1
    /\ UNCHANGED <<file, environ, epc, config>>

\* One line of .env: it sets what is not set, or set to nothing.
LoadLine ==
    /\ epc = "lines" /\ ln <= Len(file)
    /\ \A a \in ParseLine(file[ln]) : a.key # <<>>
    /\ env' = [k \in Keys |->
                 IF env[k] = <<>> /\ \E a \in ParseLine(file[ln]) : a.key = <<k>>
                 THEN (CHOOSE a \in ParseLine(file[ln]) : TRUE).val
                 ELSE env[k]]
    /\ ln' = ln + 1
    /\ UNCHANGED <<file, environ, epc, config>>

\* An assignment to no name ends the process.
BadLine ==
    /\ epc = "lines" /\ ln <= Len(file)
    /\ \E a \in ParseLine(file[ln]) : a.key = <<>>
    /\ epc' = "refused"
    /\ UNCHANGED <<file, environ, ln, env, config>>

----------------------------------------------------------------------------
(* Values                                                                  *)

EnvStr(e, key) == Trim(e[key])

EnvBool(e, key, default) ==
    CASE EnvStr(e, key) \in {<<"1">>, <<"true">>, <<"yes">>, <<"on">>, <<"y">>} -> TRUE
      [] EnvStr(e, key) \in {<<"0">>, <<"false">>, <<"no">>, <<"off">>, <<"n">>} -> FALSE
      [] OTHER -> default

EnvPipeList(e, key) == Items(e[key], "|")

\* envMapList: "name=value|value;..."; what has no name or no value is passed
\* over.
EnvMapList(e, key) ==
    LET segs == Items(e[key], ";")
        Name(s) == Trim(SubSeq(s, 1, IndexOf(s, "=") - 1))
        Values(name) == FlattenSeq([j \in DOMAIN segs |->
                            IF Name(segs[j]) = name
                            THEN Items(From(segs[j], IndexOf(segs[j], "=") + 1), "|")
                            ELSE <<>>])
        names == {Name(segs[j]) : j \in DOMAIN segs} \ {<<>>}
    IN  [name \in {x \in names : Values(x) # <<>>} |-> Values(name)]

Base(e, key) == TrimRight(EnvStr(e, key), "/")

\* The fields of Config this model is about.
ConfigOf(e) ==
    [base |-> Base(e, "UPSTREAM_BASE"),
     bases |-> [p \in Protocols |-> Base(e, BaseKey[p])],
     key |-> EnvStr(e, "UPSTREAM_KEY"),
     allowBase |-> EnvBool(e, "UPSTREAM_BASE_FROM_HEADER", TRUE),
     strict |-> EnvBool(e, "MODEL_MAP_STRICT", FALSE),
     models |-> EnvMapList(e, "MODEL_MAP"),
     fallback |-> EnvPipeList(e, "MODEL_MAP_FALLBACK"),
     capabilities |-> EnvMapList(e, "MODEL_CAPABILITY"),
     sanitizeOff |-> EnvBool(e, "SANITIZE_OFF", FALSE)]

\* The slashes of a mark that nothing follows have been cut off with those at the end.
CheckBase(b) ==
    \/ b = <<>>
    \/ Len(b) > 2 /\ \E scheme \in {"http", "https"} : IsPrefix(<<scheme, "://">>, b)

\* Validate: an upstream is given or may be given by a request, and the
\* addresses that are given have a scheme.
Valid(c) ==
    /\ c.base # <<>> \/ c.allowBase \/ \E p \in Protocols : c.bases[p] # <<>>
    /\ CheckBase(c.base) /\ \A p \in Protocols : CheckBase(c.bases[p])

\* The rest of Load.
Load ==
    /\ epc = "lines" /\ ln > Len(file)
    /\ config' = ConfigOf(env)
    /\ epc' = IF Valid(ConfigOf(env)) THEN "ready" ELSE "refused"
    /\ UNCHANGED <<file, environ, ln, env>>

EnvNext == LoadLine \/ BadLine \/ Load

----------------------------------------------------------------------------
(* Properties                                                              *)

\* env.go:21-22, 49-51: the text of a variable by the rule, whatever stands in
\* the lines that do not count: that of the process, else the first in the file
\* that is not empty.
Declared(key) ==
    LET texts == [j \in 1 .. Len(file) |->
                    UNION {{a.val} : a \in {x \in ParseLine(file[j]) : x.key = <<key>>}}]
        set == {j \in DOMAIN texts : texts[j] \notin {{}, {<<>>}}}
    IN  IF environ[key] # <<>> THEN environ[key]
        ELSE IF set = {} THEN <<>>
        ELSE CHOOSE v \in texts[Min(set)] : TRUE

DeclaredEnv == [k \in Keys |-> Declared(k)]
==============================================================================
