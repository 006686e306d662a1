------------------------------- MODULE Outbound -------------------------------
(***************************************************************************)
(* From the configuration and a request to what is sent to the upstream,   *)
(* and back to the header of the reply: Environment, ModelMap, Capability  *)
(* and Headers in the order in which main.go and Gateway.handle call them, *)
(* for one request that names a model.  Failovers, the gate and everything *)
(* that can interfere with a request are in Gateway, which takes the       *)
(* answers found here as given.                                            *)
(***************************************************************************)
EXTENDS Environment, ModelMap, Capability, Headers

\* What an escape in .env may stand for is a character, too.
ASSUME EscapeAssumption == {"\n", "\t", "\r"} \subseteq Chars

VARIABLES
    opc,
    model,  \* st.upstreamModel
    capUsed \* st.capUsed is set

outvars == <<envvars, mapvars, capvars, hdrvars, opc, model, capUsed>>

\* What net/http hands over: a field that is there has a value, a path begins with a
\* slash, and the length of an answer, if it is known, is that of its body.
IsHeader(h) == \A f \in DOMAIN h : h[f] \in Seq(Seq(STRING)) /\ h[f] # <<>>

IsPath(p) == p \in Seq(STRING) /\ p # <<>> /\ Head(p) = "/"

IsAnswer(a) ==
    /\ a.status \in Nat /\ a.sse \in BOOLEAN /\ a.bytes \in Nat
    /\ a.length \in {NoLength, a.bytes}

\* What a process and a call of it may be given.
Given ==
    /\ file \in Seq(Seq(Chars)) /\ environ \in [Keys -> Seq(Chars)]
    /\ header \in Seq(Chars) /\ name \in Seq(Chars) /\ capHeader \in Seq(STRING)
    /\ IsBody(doc) /\ IsHeader(client) /\ IsPath(path) /\ IsAnswer(upstream)

OutInit(s) ==
    /\ EnvInit(s.file, s.environ) /\ MapInit(s.header, s.name)
    /\ CapInit(s.capHeader, s.doc) /\ HdrInit(s.client, s.path, s.upstream)
    /\ opc = "load" /\ model = <<>> /\ capUsed = FALSE

\* LoadDotEnv and Load, before anything else.
Configure ==
    /\ opc = "load"
    /\ EnvNext
    /\ opc' = IF epc' = "lines" THEN opc ELSE IF epc' = "ready" THEN "arrive" ELSE "refused"
    /\ UNCHANGED <<mapvars, capvars, hdrvars, model, capUsed>>

\* gateway.New, and handle up to the address: without one the request is refused.
Arrive ==
    /\ opc = "arrive"
    /\ static' = [rules |-> config.models, fallback |-> config.fallback]
    /\ capStatic' = FromStatic(config.capabilities)
    /\ LET found == ResolveBase(client, config, Protocol(path))
       IN  IF found = {} THEN opc' = "refused" /\ UNCHANGED <<base, pc>>
           ELSE base' \in found /\ opc' = "map" /\ pc' = "parse"
    /\ UNCHANGED <<envvars, header, name, table, raw, rules, invalid, wild, n, kind,
                   answer, capHeader, doc, cpc, rest, caps, node, got,
                   client, path, upstream, sent, reply, model, capUsed>>

\* rewrite up to the look-up.
MapModel ==
    /\ opc = "map"
    /\ MapNext
    /\ opc' = IF pc' = "done" THEN "pick" ELSE IF pc' = "refused" THEN "refused" ELSE opc
    /\ UNCHANGED <<envvars, capvars, hdrvars, model, capUsed>>

\* The model is drawn; a name that is in no table is sent as it is or refused.
Pick ==
    /\ opc = "pick"
    /\ IF kind = "none" /\ config.strict THEN opc' = "refused" /\ UNCHANGED <<model, cpc>>
       ELSE /\ model' \in IF kind = "none" THEN {name} ELSE ToSet(answer)
            /\ opc' = "caps" /\ cpc' = "parse"
    /\ UNCHANGED <<envvars, mapvars, hdrvars, capHeader, doc, capStatic, rest, caps,
                   node, got, capUsed>>

FindCapabilities ==
    /\ opc = "caps"
    /\ CapNext
    /\ opc' = IF cpc' = "done" THEN "route" ELSE opc
    /\ UNCHANGED <<envvars, mapvars, hdrvars, model, capUsed>>

\* Mutant: a model from the map is left alone.
RouteFilesUnmapped ==
    /\ opc = "route"
    /\ IF "file" \in got /\ kind = "none"
       THEN model' \in ToSet(caps["file"]) /\ capUsed' = (model' # model)
       ELSE UNCHANGED <<model, capUsed>>
    /\ opc' = "send"
    /\ UNCHANGED <<envvars, mapvars, capvars, hdrvars>>

\* The end of applyCapabilities: a file goes to a model for files at once.
RouteFiles ==
    /\ opc = "route"
    /\ IF "file" \in got
       THEN model' \in ToSet(caps["file"]) /\ capUsed' = (model' # model)
       ELSE UNCHANGED <<model, capUsed>>
    /\ opc' = "send"
    /\ UNCHANGED <<envvars, mapvars, capvars, hdrvars>>

\* The length of a body that names this model.
BodyLength(m) == 2 + Len(m)

\* Mutant: the length is that of the body the client has sent.
SendOldLength ==
    /\ opc = "send"
    /\ Send(config, BodyLength(name))
    /\ opc' = "answer"
    /\ UNCHANGED <<envvars, mapvars, capvars, model, capUsed>>

SendRequest ==
    /\ opc = "send"
    /\ Send(config, BodyLength(model))
    /\ opc' = "answer"
    /\ UNCHANGED <<envvars, mapvars, capvars, model, capUsed>>

ReplyToClient ==
    /\ opc = "answer"
    /\ Reply(~config.sanitizeOff)
    /\ opc' = "done"
    /\ UNCHANGED <<envvars, mapvars, capvars, model, capUsed>>

OutNext ==
    \/ Configure \/ Arrive \/ MapModel \/ Pick \/ FindCapabilities
    \/ RouteFiles \/ SendRequest \/ ReplyToClient

OutBegin == Given /\ \E s : OutInit(s)

OutSpec == OutBegin /\ [][OutNext]_outvars

----------------------------------------------------------------------------
(* Properties                                                              *)

DeclaredConfig == ConfigOf(DeclaredEnv)

\* mapping.go:186-190, capability.go:176-179: what the two routing headers declare
\* is there, or the request is refused: a slip in one part of the one is reported,
\* in one part of the other it does not undo the others.
HeadersSurvive == NothingSwallowed /\ (cpc = "done" => DeclarationsSurvive)

\* gateway.go:516-528, capability.go:247-256: the kinds that are found are those
\* that are declared and that the body uses, however early the search may stop.
\* A request with a file somebody has declared a model for goes to such a model,
\* whatever the map says, and one without does not; the other capabilities change
\* nothing before the upstream has failed.
FilesGoToFileModel ==
    /\ cpc = "done" => DetectedIsUsed
    /\ opc = "send" =>
          IF "file" \in got THEN model \in ToSet(caps["file"])
          ELSE model \in (IF kind = "none" THEN {name} ELSE ToSet(answer)) /\ ~capUsed

\* env.go:49-51, gateway.go:589-601: what is sent goes by the texts of the
\* configuration as they are declared, with the one credential they and the request
\* name.  A variable of the process that is more than nothing is not changed by
\* .env, and of two lines of it the first one counts.
SentAsDeclared ==
    opc = "answer" => config = DeclaredConfig /\ CredentialCrossesOnce(DeclaredConfig)

\* credential.go:180-183, gateway.go:581-584: what is sent goes where the texts of
\* the configuration and of the request say, and announces the body that is sent,
\* in which the model may have a longer or a shorter name than the client's.
SentInFull ==
    opc = "answer" =>
        SentWhereDeclared(DeclaredConfig) /\ sent.length = BodyLength(model)

----------------------------------------------------------------------------
(* What the documentation says and the code does not do                    *)

\* README.md:259-264: MODEL_CAPABILITY is the header's default, and is written
\* like it, as in "vision:qwen-vl-max;file:qwen-long".  The code reads it like
\* MODEL_MAP, with an equals sign, and passes over what has none.
ReadmeSyntaxIsRead ==
    cpc # "wait" =>
        \A part \in ToSet(Items(Declared("MODEL_CAPABILITY"), ";")) :
            \A k \in KindsOf(part) : ModelOf(part) \in ToSet(capStatic[k])
===============================================================================
