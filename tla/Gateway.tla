------------------------------ MODULE Gateway ------------------------------
(***************************************************************************)
(* The life of proxied requests in the gateway: ServeHTTP, handle, the     *)
(* failover of internal/gateway, the concurrency gate they share and the   *)
(* panic recovery of internal/server around them.                          *)
(*                                                                         *)
(* Every request runs in a goroutine of its own; pc says how far it is.    *)
(* One action is the code between two points at which another goroutine,   *)
(* the upstream or the client can interfere: the gate, the metrics, the    *)
(* reads of the request body, each upstream call, each write to the        *)
(* client.  The transport (Client.Do) and the body pipes are seen from     *)
(* outside: which of their results are possible, not how they arise.       *)
(***************************************************************************)
EXTENDS Integers, FiniteSets

CONSTANTS
    Requests,         \* the requests that ever arrive
    Models,           \* model names, public and upstream alike
    NoModel,          \* the empty model name
    Inputs,           \* the requests' contents, see Input
    Responses,        \* the upstream's possible answers, see Response
    MaxInflight,      \* MAX_INFLIGHT, 0 = unlimited
    StaticTable,      \* MODEL_MAP: the exact or wildcard hit of each name
    Fallbacks,        \* MODEL_MAP_FALLBACK, the set of its models
    FailoverOnError,  \* MODEL_MAP_FAILOVER
    Strict,           \* MODEL_MAP_STRICT
    SanitizeOn,       \* SANITIZE is not switched off
    CapStatic,        \* MODEL_CAPABILITY: the models of each capability
    AllowBaseHeader,  \* UPSTREAM_BASE_FROM_HEADER
    AllowProxyHeader, \* UPSTREAM_PROXY_FROM_HEADER
    StaticBase        \* UPSTREAM_BASE: "none", "good" or "broken"

----------------------------------------------------------------------------
(* Data                                                                    *)

Kinds == {"vision", "audio", "video", "tools", "file"}

\* The order in which a failover looks for a capability.
Rank == [vision |-> 1, audio |-> 2, video |-> 3, tools |-> 4, file |-> 5]

MatchKinds == {"none", "exact", "wildcard", "fallback"}

\* What a mapping table answers for a name: the level of the rule and the
\* upstream models it lists, one of which is drawn at random.
Hit == [kind : MatchKinds, ups : SUBSET Models]

Miss == [kind |-> "none", ups |-> {}]

CapMap == [Kinds -> SUBSET Models]

\* baseHdr, proxyHdr and hdr are the headers X-Upstream-Base,
\* X-Upstream-Proxy and X-Model-Map; "broken" is a base that normalizeBase
\* accepts and url.Parse does not.  body: it cannot be read, is not a JSON
\* object, is an object (or empty) without a model, or names the model pub.
Input == [baseHdr  : {"absent", "good", "broken", "invalid"},
          proxyHdr : {"absent", "valid", "invalid"},
          body     : {"unreadable", "opaque", "object", "model"},
          pub      : Models,
          hdr      : {"absent", "invalid", "table"},
          hit      : Hit,
          capHdr   : CapMap,
          uses     : SUBSET Kinds]

\* large: longer than MAX_SANITIZE_BYTES; known: Content-Length is given.
Response == [status : Nat, sse : BOOLEAN, large : BOOLEAN, known : BOOLEAN]

NoResponse == [status |-> 0, sse |-> FALSE, large |-> FALSE, known |-> FALSE]

\* An upstream attempt.  left is what of the response body is still to be
\* read, cancelled says that the attempt's context was cancelled.
Tries == {1, 2}
Phases == {"none", "sent", "open", "failed", "closed"}
Conn == [phase : Phases, model : Models \cup {NoModel},
         resp : Responses \cup {NoResponse},
         left : {"whole", "tail", "empty"}, cancelled : BOOLEAN]

NoConn == [phase |-> "none", model |-> NoModel, resp |-> NoResponse,
           left |-> "whole", cancelled |-> FALSE]

CapUses == Kinds \cup {"none"}

Plan == [enabled : BOOLEAN, model : Models \cup {NoModel}, cap : CapUses]

NoPlan == [enabled |-> FALSE, model |-> NoModel, cap |-> "none"]

Errors == {"none", "connect", "timeout", "canceled"}

Outcomes == {"", "overloaded", "no_upstream", "bad_proxy", "bad_request",
             "bad_model_map", "unmapped_model", "build_request_failed",
             "upstream_error", "stream", "stream_stall", "client_gone",
             "stream_eof", "stream_broken", "ok", "upstream_4xx",
             "upstream_5xx", "rate_limited", "read_upstream_failed",
             "response_too_large", "sanitize_skipped_too_large"}

Bodies == {"none", "gateway", "stream", "whole", "tail", "empty", "cut"}

ASSUME GatewayAssumption ==
    /\ IsFiniteSet(Requests)
    /\ NoModel \notin Models
    /\ Inputs \subseteq Input
    /\ Responses \subseteq Response
    /\ MaxInflight \in Nat
    /\ StaticTable \in [Models -> Hit]
    /\ Fallbacks \subseteq Models
    /\ {FailoverOnError, Strict, SanitizeOn,
        AllowBaseHeader, AllowProxyHeader} \subseteq BOOLEAN
    /\ CapStatic \in CapMap
    /\ StaticBase \in {"none", "good", "broken"}

VARIABLES
    pc,      \* where each request is
    req,     \* what each request contains
    gone,    \* the requests whose client has hung up
    tokens,  \* len(gate.tokens)
    gauge,   \* the metric gateway.requests.inflight
    st,      \* the Go struct "state" of each request
    plan,    \* each request's failoverPlan
    conn,    \* the upstream attempts of each request
    cur,     \* which attempt the local variable resp of handle holds, 0 = nil
    err,     \* the local variable err of handle
    reply,   \* what the client has been sent
    mx       \* the counters of obs.Metrics

vars == <<pc, req, gone, tokens, gauge, st, plan, conn, cur, err, reply, mx>>

State == [pub : Models \cup {NoModel}, up : Models \cup {NoModel},
          kind : MatchKinds, caps : SUBSET Kinds, capUsed : CapUses,
          failedOver : BOOLEAN, attempts : Nat, outcome : Outcomes]

Reply == [writes : Nat, status : Nat, body : Bodies]

Counters == [rejected : Nat, requests : Nat, failover : Nat,
             upstreamErr : Nat, panics : Nat]

InHandle == {"resolve", "readBody", "rewrite", "build", "do", "err", "got",
             "redo", "failed", "relay", "stream"}
Counted == InHandle \cup {"return", "leave"}
Holding == Counted \cup {"admitted", "release"}
Ended == {"rejected", "done", "crashed"}
PCs == {"idle"} \cup Holding \cup Ended

----------------------------------------------------------------------------
(* Pure parts of the code                                                  *)

\* Mutant: a malformed header base falls back to the configured one.
ResolveBaseLenient(in) ==
    IF AllowBaseHeader /\ in.baseHdr \in {"good", "broken"}
    THEN in.baseHdr ELSE StaticBase

ResolveBase(in) ==
    IF AllowBaseHeader /\ in.baseHdr # "absent"
    THEN IF in.baseHdr = "invalid" THEN "none" ELSE in.baseHdr
    ELSE StaticBase

ProxyRefused(in) == AllowProxyHeader /\ in.proxyHdr = "invalid"

StaticHit(pub) ==
    IF StaticTable[pub].kind # "none" THEN StaticTable[pub]
    ELSE IF Fallbacks # {} THEN [kind |-> "fallback", ups |-> Fallbacks]
    ELSE Miss

\* A header table that misses leaves the name to the static one.
LookupKind(in) ==
    IF in.hdr = "table" /\ in.hit.kind # "none" THEN in.hit
    ELSE StaticHit(in.pub)

Want(cm) == {k \in Kinds : cm[k] # {}}

ResolveCapMap(in) == IF Want(in.capHdr) # {} THEN in.capHdr ELSE CapStatic

\* The only capability that changes the model before anything has failed.
FileRoutes(caps, cm, up) ==
    IF "file" \in caps
    THEN {IF m # up THEN [up |-> m, capUsed |-> "file"]
                    ELSE [up |-> up, capUsed |-> "none"] : m \in cm["file"]}
    ELSE {[up |-> up, capUsed |-> "none"]}

\* The plans planCapabilityFailover can return.  Lookup draws a model at
\* random: a kind is passed over when the draw is the current model.
CapPlans(s, cm) ==
    {p \in [enabled : {TRUE}, model : Models, cap : s.caps] :
        /\ p.model \in cm[p.cap] \ {s.up}
        /\ \A j \in s.caps : Rank[j] < Rank[p.cap] => s.up \in cm[j]}

FallbackPlans(s) ==
    IF ~FailoverOnError \/ Fallbacks = {} \/ s.kind = "fallback" THEN {NoPlan}
    ELSE {IF fb = s.up THEN NoPlan
          ELSE [enabled |-> TRUE, model |-> fb, cap |-> "none"] :
              fb \in Fallbacks}

PlanFailover(s, cm) ==
    IF s.capUsed # "none" THEN FallbackPlans(s)
    ELSE CapPlans(s, cm)
         \cup IF \A k \in s.caps : s.up \in cm[k]
              THEN FallbackPlans(s) ELSE {}

FailoverStatuses == {429, 500, 502, 503, 504}

CapabilityFailoverStatuses == FailoverStatuses \cup {400, 404, 413, 415, 422}

ShouldRetry(p, code) ==
    /\ p.enabled
    /\ code \in IF p.cap # "none" THEN CapabilityFailoverStatuses
                ELSE FailoverStatuses

\* Mutant: a capability switch that does not change the upstream model.
ApplyPlanHalf(s, p) ==
    IF p.cap # "none"
    THEN [s EXCEPT !.failedOver = TRUE, !.capUsed = p.cap]
    ELSE [s EXCEPT !.failedOver = TRUE, !.up = p.model, !.kind = "fallback"]

ApplyPlan(s, p) ==
    IF p.cap # "none"
    THEN [s EXCEPT !.failedOver = TRUE, !.up = p.model, !.capUsed = p.cap]
    ELSE [s EXCEPT !.failedOver = TRUE, !.up = p.model, !.kind = "fallback"]

\* sjson sets the model of an object or of an empty body and of nothing else.
Rewritable(in) == in.body # "opaque"

OutcomeForStatus(code) ==
    IF code >= 500 THEN "upstream_5xx"
    ELSE IF code = 429 THEN "rate_limited"
    ELSE IF code >= 400 THEN "upstream_4xx"
    ELSE "ok"

ClassifyUpstreamError(e, left) ==
    IF e = "canceled" /\ left THEN 499
    ELSE IF e \in {"timeout", "canceled"} THEN 504
    ELSE 502

\* What remains of a body after retryWithFallback has read it: at most
\* MAX_SANITIZE_BYTES bytes, or Content-Length if that is less.
DrainForReport(resp) == IF resp.large THEN "tail" ELSE "empty"

TooLarge == [outcome |-> "response_too_large", status |-> 400,
             body |-> "gateway"]

Unreadable == [outcome |-> "read_upstream_failed", status |-> 502,
               body |-> "gateway"]

Relayed(resp, outcome, body) ==
    [outcome |-> outcome, status |-> resp.status, body |-> body]

\* Whether more than MAX_SANITIZE_BYTES are left of a body.
OverLimit(resp, left) ==
    IF left = "tail" THEN BOOLEAN ELSE {resp.large /\ left = "whole"}

\* The ends of pipeBuffered for a response of which left is still unread.
BufferedResults(resp, left, needSanitize) ==
    LET outcome == OutcomeForStatus(resp.status)
        skipped == "sanitize_skipped_too_large"
    IN  IF needSanitize /\ resp.known /\ resp.large THEN {TooLarge}
        ELSE IF resp.status < 400 /\ ~needSanitize
        THEN {Relayed(resp, outcome, b) : b \in {left, "cut"}}
        ELSE {IF ~big THEN Relayed(resp, outcome, left)
              ELSE IF needSanitize THEN TooLarge
              ELSE Relayed(resp, skipped, left) : big \in OverLimit(resp, left)}
             \cup {Unreadable}

NeedSanitize(s) == SanitizeOn /\ s.pub # NoModel

----------------------------------------------------------------------------
(* Steps                                                                   *)

Goto(r, l) == pc' = [pc EXCEPT ![r] = l]

Answer(r, code, body) ==
    reply' = [reply EXCEPT ![r] = [writes |-> @.writes + 1,
                                   status |-> code, body |-> body]]

\* An early return of handle: the outcome, an error reply, out.
Refuse(r, outcome, code) ==
    /\ st' = [st EXCEPT ![r].outcome = outcome]
    /\ Answer(r, code, "gateway")
    /\ Goto(r, "return")

Send(r, i, model) ==
    conn' = [conn EXCEPT ![r][i] = [NoConn EXCEPT !.phase = "sent",
                                                  !.model = model]]

\* Body.Close() and cancel().
Closed(c) == [c EXCEPT !.phase = "closed", !.cancelled = TRUE]

Opened(c, resp) == [c EXCEPT !.phase = "open", !.resp = resp]

\* Client.Do has cancelled the attempt's context itself.
Failed(c) == [c EXCEPT !.phase = "failed", !.cancelled = TRUE]

Token == IF MaxInflight > 0 THEN 1 ELSE 0

Init ==
    /\ pc = [r \in Requests |-> "idle"]
    /\ req \in [Requests -> Inputs]
    /\ gone = {}
    /\ tokens = 0
    /\ gauge = 0
    /\ st = [r \in Requests |->
               [pub |-> NoModel, up |-> NoModel, kind |-> "none", caps |-> {},
                capUsed |-> "none", failedOver |-> FALSE, attempts |-> 0,
                outcome |-> ""]]
    /\ plan = [r \in Requests |-> NoPlan]
    /\ conn = [r \in Requests |-> [i \in Tries |-> NoConn]]
    /\ cur = [r \in Requests |-> 0]
    /\ err = [r \in Requests |-> "none"]
    /\ reply = [r \in Requests |-> [writes |-> 0, status |-> 0,
                                    body |-> "none"]]
    /\ mx = [rejected |-> 0, requests |-> 0, failover |-> 0,
             upstreamErr |-> 0, panics |-> 0]

\* Mutant: the gate lets one request too many in.
AdmitOneMore(r) ==
    /\ pc[r] = "idle"
    /\ MaxInflight = 0 \/ tokens <= MaxInflight
    /\ tokens' = tokens + Token
    /\ Goto(r, "admitted")
    /\ UNCHANGED <<req, gone, gauge, st, plan, conn, cur, err, reply, mx>>

\* tryAcquire succeeds: room in the channel, or no channel at all.
Admit(r) ==
    /\ pc[r] = "idle"
    /\ MaxInflight = 0 \/ tokens < MaxInflight
    /\ tokens' = tokens + Token
    /\ Goto(r, "admitted")
    /\ UNCHANGED <<req, gone, gauge, st, plan, conn, cur, err, reply, mx>>

\* Mutant: a refused request is counted as a request, too.
OverloadCountedTwice(r) ==
    /\ pc[r] = "idle"
    /\ MaxInflight > 0
    /\ tokens = MaxInflight
    /\ st' = [st EXCEPT ![r].outcome = "overloaded"]
    /\ Answer(r, 503, "gateway")
    /\ mx' = [mx EXCEPT !.rejected = @ + 1, !.requests = @ + 1]
    /\ Goto(r, "rejected")
    /\ UNCHANGED <<req, gone, tokens, gauge, plan, conn, cur, err>>

\* tryAcquire fails: 503 with Retry-After, without touching the body.
Overload(r) ==
    /\ pc[r] = "idle"
    /\ MaxInflight > 0
    /\ tokens = MaxInflight
    /\ st' = [st EXCEPT ![r].outcome = "overloaded"]
    /\ Answer(r, 503, "gateway")
    /\ mx' = [mx EXCEPT !.rejected = @ + 1]
    /\ Goto(r, "rejected")
    /\ UNCHANGED <<req, gone, tokens, gauge, plan, conn, cur, err>>

CountIn(r) ==
    /\ pc[r] = "admitted"
    /\ gauge' = gauge + 1
    /\ Goto(r, "resolve")
    /\ UNCHANGED <<req, gone, tokens, st, plan, conn, cur, err, reply, mx>>

\* Where to send the request, and through which proxy.
Resolve(r) ==
    /\ pc[r] = "resolve"
    /\ \/ /\ ResolveBase(req[r]) = "none"
          /\ Refuse(r, "no_upstream", 502)
       \/ /\ ResolveBase(req[r]) # "none"
          /\ ProxyRefused(req[r])
          /\ Refuse(r, "bad_proxy", 400)
       \/ /\ ResolveBase(req[r]) # "none"
          /\ ~ProxyRefused(req[r])
          /\ Goto(r, "readBody")
          /\ UNCHANGED <<st, reply>>
    /\ UNCHANGED <<req, gone, tokens, gauge, plan, conn, cur, err, mx>>

ReadBody(r) ==
    /\ pc[r] = "readBody"
    /\ \/ /\ req[r].body = "unreadable" \/ r \in gone
          /\ Refuse(r, "bad_request", 400)
       \/ /\ req[r].body # "unreadable"
          /\ Goto(r, IF req[r].body = "model" THEN "rewrite" ELSE "build")
          /\ UNCHANGED <<st, reply>>
    /\ UNCHANGED <<req, gone, tokens, gauge, plan, conn, cur, err, mx>>

\* rewrite and applyCapabilities.  RewriteModel cannot fail here: the body
\* is one in which the model was found.
Rewrite(r) ==
    LET in == req[r]
        hit == LookupKind(in)
        cm == ResolveCapMap(in)
        caps == in.uses \cap Want(cm)
        named(up) == {[pub |-> in.pub, up |-> f.up, kind |-> hit.kind,
                       caps |-> caps, capUsed |-> f.capUsed,
                       failedOver |-> FALSE, attempts |-> 0, outcome |-> ""] :
                          f \in FileRoutes(caps, cm, up)}
    IN  /\ pc[r] = "rewrite"
        /\ \/ /\ in.hdr = "invalid"
              /\ Answer(r, 400, "gateway")
              /\ st' = [st EXCEPT ![r].pub = in.pub,
                                  ![r].outcome = "bad_model_map"]
              /\ Goto(r, "return")
           \/ /\ in.hdr # "invalid"
              /\ hit.kind = "none" /\ Strict
              /\ Answer(r, 400, "gateway")
              /\ st' = [st EXCEPT ![r].pub = in.pub,
                                  ![r].outcome = "unmapped_model"]
              /\ Goto(r, "return")
           \/ /\ in.hdr # "invalid"
              /\ hit.kind # "none" \/ ~Strict
              /\ \E up \in IF hit.kind # "none" THEN hit.ups ELSE {in.pub} :
                    \E s \in named(up) : st' = [st EXCEPT ![r] = s]
              /\ Goto(r, "build")
              /\ UNCHANGED reply
        /\ UNCHANGED <<req, gone, tokens, gauge, plan, conn, cur, err, mx>>

\* buildRequest, planFailover, and the request is on its way.
Build(r) ==
    /\ pc[r] = "build"
    /\ \/ /\ ResolveBase(req[r]) = "broken"
          /\ Refuse(r, "build_request_failed", 500)
          /\ UNCHANGED <<plan, conn>>
       \/ /\ ResolveBase(req[r]) # "broken"
          /\ \E p \in PlanFailover(st[r], ResolveCapMap(req[r])) :
                plan' = [plan EXCEPT ![r] = p]
          /\ Send(r, 1, st[r].up)
          /\ Goto(r, "do")
          /\ UNCHANGED <<st, reply>>
    /\ UNCHANGED <<req, gone, tokens, gauge, cur, err, mx>>

\* Client.Do returns response headers.
DoOk(r) ==
    /\ pc[r] = "do"
    /\ \E resp \in Responses :
          conn' = [conn EXCEPT ![r][1] = Opened(@, resp)]
    /\ cur' = [cur EXCEPT ![r] = 1]
    /\ Goto(r, "got")
    /\ UNCHANGED <<req, gone, tokens, gauge, st, plan, err, reply, mx>>

\* Client.Do returns an error; "canceled" only once the client has left.
DoErr(r) ==
    /\ pc[r] = "do"
    /\ \E e \in Errors \ {"none"} :
          /\ e = "canceled" => r \in gone
          /\ err' = [err EXCEPT ![r] = e]
    /\ conn' = [conn EXCEPT ![r][1] = Failed(@)]
    /\ Goto(r, "err")
    /\ UNCHANGED <<req, gone, tokens, gauge, st, plan, cur, reply, mx>>

\* The start of retryWithFallback, up to its Client.Do: n failures are
\* recorded if the body can be rewritten, n + 1 if it cannot.
Redo(r, n, abort) ==
    \/ /\ Rewritable(req[r])
       /\ st' = [st EXCEPT ![r].attempts = @ + n]
       /\ Goto(r, "redo")
    \/ /\ ~Rewritable(req[r])
       /\ st' = [st EXCEPT ![r].attempts = @ + n + 1]
       /\ Goto(r, abort)

RetryAfterError(r) ==
    /\ pc[r] = "err"
    /\ plan[r].enabled
    /\ Redo(r, 1, "failed")
    /\ IF Rewritable(req[r]) THEN Send(r, 2, plan[r].model)
                             ELSE UNCHANGED conn
    /\ UNCHANGED <<req, gone, tokens, gauge, plan, cur, err, reply, mx>>

\* The error is final: no plan, or the retry could not be sent either.
GiveUp(r) ==
    /\ \/ pc[r] = "err" /\ ~plan[r].enabled
       \/ pc[r] = "failed"
    /\ mx' = [mx EXCEPT !.upstreamErr = @ + 1]
    /\ Refuse(r, "upstream_error", ClassifyUpstreamError(err[r], r \in gone))
    /\ UNCHANGED <<req, gone, tokens, gauge, plan, conn, cur, err>>

Retries(r) == ~st[r].failedOver /\ ShouldRetry(plan[r], conn[r][1].resp.status)

\* The headers are a failure worth a retry: the body is read for the report,
\* then the request is sent to the planned model.
RetryAfterStatus(r) ==
    LET first == conn[r][1]
        drained == [first EXCEPT !.left = DrainForReport(first.resp)]
    IN  /\ pc[r] = "got"
        /\ Retries(r)
        /\ Redo(r, 1, "relay")
        /\ conn' = [conn EXCEPT ![r] =
              [i \in Tries |->
                 IF i = 1 THEN drained
                 ELSE IF Rewritable(req[r])
                 THEN [NoConn EXCEPT !.phase = "sent", !.model = plan[r].model]
                 ELSE NoConn]]
        /\ UNCHANGED <<req, gone, tokens, gauge, plan, cur, err, reply, mx>>

Accept(r) ==
    /\ pc[r] = "got"
    /\ ~Retries(r)
    /\ Goto(r, "relay")
    /\ UNCHANGED <<req, gone, tokens, gauge, st, plan, conn, cur, err, reply,
                   mx>>

\* A retry whose own answer is a failure is recorded as well.
Noted(s, resp) ==
    IF resp.status >= 400 THEN [s EXCEPT !.attempts = @ + 1] ELSE s

\* Mutant: the first response is replaced without being closed.
RedoOkLeaks(r) ==
    /\ pc[r] = "redo"
    /\ \E resp \in Responses :
          /\ conn' = [conn EXCEPT ![r][2] = Opened(@, resp)]
          /\ st' = [st EXCEPT ![r] = ApplyPlan(Noted(@, resp), plan[r])]
    /\ cur' = [cur EXCEPT ![r] = 2]
    /\ err' = [err EXCEPT ![r] = "none"]
    /\ mx' = IF cur[r] = 1 THEN [mx EXCEPT !.failover = @ + 1] ELSE mx
    /\ Goto(r, "relay")
    /\ UNCHANGED <<req, gone, tokens, gauge, plan, reply>>

\* The retry has got headers: it replaces the first attempt, which is closed.
\* Only the switch after a status is counted by the failover metric.
RedoOk(r) ==
    /\ pc[r] = "redo"
    /\ \E resp \in Responses :
          /\ conn' = [conn EXCEPT ![r] =
                [i \in Tries |->
                   IF i = 2 THEN Opened(conn[r][2], resp)
                   ELSE IF cur[r] = 1 THEN Closed(conn[r][1])
                   ELSE conn[r][1]]]
          /\ st' = [st EXCEPT ![r] = ApplyPlan(Noted(@, resp), plan[r])]
    /\ cur' = [cur EXCEPT ![r] = 2]
    /\ err' = [err EXCEPT ![r] = "none"]
    /\ mx' = IF cur[r] = 1 THEN [mx EXCEPT !.failover = @ + 1] ELSE mx
    /\ Goto(r, "relay")
    /\ UNCHANGED <<req, gone, tokens, gauge, plan, reply>>

\* Mutant: a retry that fails starts the request over.
RedoErrRestarts(r) ==
    /\ pc[r] = "redo"
    /\ conn' = [conn EXCEPT ![r] = [i \in Tries |-> NoConn]]
    /\ st' = [st EXCEPT ![r].attempts = 0]
    /\ cur' = [cur EXCEPT ![r] = 0]
    /\ Goto(r, "build")
    /\ UNCHANGED <<req, gone, tokens, gauge, plan, err, reply, mx>>

\* The retry failed: back to the error, or to the response, of attempt 1.
RedoErr(r) ==
    /\ pc[r] = "redo"
    /\ conn' = [conn EXCEPT ![r][2] = Failed(@)]
    /\ st' = [st EXCEPT ![r].attempts = @ + 1]
    /\ Goto(r, IF cur[r] = 0 THEN "failed" ELSE "relay")
    /\ UNCHANGED <<req, gone, tokens, gauge, plan, cur, err, reply, mx>>

Streams(r) ==
    LET resp == conn[r][cur[r]].resp IN resp.sse /\ resp.status < 400

\* pipeStream writes the headers (and the early first event) at once.
RelayStream(r) ==
    /\ pc[r] = "relay"
    /\ Streams(r)
    /\ Answer(r, conn[r][cur[r]].resp.status, "stream")
    /\ st' = [st EXCEPT ![r].outcome = "stream"]
    /\ Goto(r, "stream")
    /\ UNCHANGED <<req, gone, tokens, gauge, plan, conn, cur, err, mx>>

StreamEnds(r) ==
    /\ pc[r] = "stream"
    /\ \E o \in {"stream", "stream_stall", "client_gone", "stream_eof",
                 "stream_broken"} :
          /\ st' = [st EXCEPT ![r].outcome = o]
          /\ mx' = IF o \in {"stream_stall", "stream_broken"}
                   THEN [mx EXCEPT !.upstreamErr = @ + 1] ELSE mx
    /\ Goto(r, "return")
    /\ UNCHANGED <<req, gone, tokens, gauge, plan, conn, cur, err, reply>>

\* Mutant: a response that cannot be read is retried like an error of Do.
RelayBufferedRetries(r) ==
    /\ pc[r] = "relay"
    /\ ~Streams(r)
    /\ LET c == conn[r][cur[r]]
       IN  \E b \in BufferedResults(c.resp, c.left, NeedSanitize(st[r])) :
              /\ Answer(r, b.status, b.body)
              /\ st' = [st EXCEPT ![r].outcome = b.outcome]
              /\ Goto(r, IF b.outcome = "read_upstream_failed"
                            /\ Rewritable(req[r]) THEN "err" ELSE "return")
    /\ UNCHANGED <<req, gone, tokens, gauge, plan, conn, cur, err, mx>>

RelayBuffered(r) ==
    /\ pc[r] = "relay"
    /\ ~Streams(r)
    /\ LET c == conn[r][cur[r]]
       IN  \E b \in BufferedResults(c.resp, c.left, NeedSanitize(st[r])) :
              /\ Answer(r, b.status, b.body)
              /\ st' = [st EXCEPT ![r].outcome = b.outcome]
    /\ Goto(r, "return")
    /\ UNCHANGED <<req, gone, tokens, gauge, plan, conn, cur, err, mx>>

\* Mutant: handle takes itself off the gauge, and so does ServeHTTP.
ReturnCountsOut(r) ==
    /\ pc[r] = "return"
    /\ conn' = [conn EXCEPT ![r] =
          [i \in Tries |-> IF i = cur[r] THEN Closed(conn[r][i])
                           ELSE conn[r][i]]]
    /\ mx' = [mx EXCEPT !.requests = @ + 1]
    /\ gauge' = gauge - 1
    /\ Goto(r, "leave")
    /\ UNCHANGED <<req, gone, tokens, st, plan, cur, err, reply>>

\* handle returns: its deferred Body.Close and cancel, then the metrics of
\* the request, still under the token.
Return(r) ==
    /\ pc[r] = "return"
    /\ conn' = [conn EXCEPT ![r] =
          [i \in Tries |-> IF i = cur[r] THEN Closed(conn[r][i])
                           ELSE conn[r][i]]]
    /\ mx' = [mx EXCEPT !.requests = @ + 1]
    /\ Goto(r, "leave")
    /\ UNCHANGED <<req, gone, tokens, gauge, st, plan, cur, err, reply>>

\* The deferred calls of ServeHTTP, last registered first.
CountOut(r) ==
    /\ pc[r] = "leave"
    /\ gauge' = gauge - 1
    /\ Goto(r, "release")
    /\ UNCHANGED <<req, gone, tokens, st, plan, conn, cur, err, reply, mx>>

Release(r) ==
    /\ pc[r] = "release"
    /\ tokens' = tokens - Token
    /\ Goto(r, "done")
    /\ UNCHANGED <<req, gone, gauge, st, plan, conn, cur, err, reply, mx>>

\* Mutant: the 500 is sent although a header may be out.
PanicAlwaysAnswers(r) ==
    /\ pc[r] \in InHandle
    /\ conn' = IF pc[r] \in {"relay", "stream"}
               THEN [conn EXCEPT ![r][cur[r]] = Closed(@)] ELSE conn
    /\ gauge' = gauge - 1
    /\ tokens' = tokens - Token
    /\ mx' = [mx EXCEPT !.panics = @ + 1]
    /\ Answer(r, 500, "gateway")
    /\ Goto(r, "crashed")
    /\ UNCHANGED <<req, gone, st, plan, cur, err>>

\* Mutant: the token and the gauge are given back by plain calls at the end
\* of ServeHTTP, which a panic skips.
PanicKeepsToken(r) ==
    /\ pc[r] \in InHandle
    /\ conn' = IF pc[r] \in {"relay", "stream"}
               THEN [conn EXCEPT ![r][cur[r]] = Closed(@)] ELSE conn
    /\ mx' = [mx EXCEPT !.panics = @ + 1]
    /\ IF reply[r].writes = 0 THEN Answer(r, 500, "gateway")
                              ELSE UNCHANGED reply
    /\ Goto(r, "crashed")
    /\ UNCHANGED <<req, gone, tokens, gauge, st, plan, cur, err>>

\* A panic inside handle unwinds through the deferred calls registered so
\* far and ends in recoverMW: a 500 unless a header is already out.
Panic(r) ==
    /\ pc[r] \in InHandle
    /\ conn' = IF pc[r] \in {"relay", "stream"}
               THEN [conn EXCEPT ![r][cur[r]] = Closed(@)] ELSE conn
    /\ gauge' = gauge - 1
    /\ tokens' = tokens - Token
    /\ mx' = [mx EXCEPT !.panics = @ + 1]
    /\ IF reply[r].writes = 0 THEN Answer(r, 500, "gateway")
                              ELSE UNCHANGED reply
    /\ Goto(r, "crashed")
    /\ UNCHANGED <<req, gone, st, plan, cur, err>>

\* The client hangs up; net/http cancels the request's context.
ClientLeaves(r) ==
    /\ pc[r] \in Holding \ {"release"}
    /\ r \notin gone
    /\ gone' = gone \cup {r}
    /\ UNCHANGED <<pc, req, tokens, gauge, st, plan, conn, cur, err, reply,
                   mx>>

\* net/http cancels the context of a request whose handler has ended, and
\* with it whatever upstream attempt is still alive.
ServerCancels(r) ==
    /\ pc[r] \in Ended
    /\ \E i \in Tries : conn[r][i].phase \in {"sent", "open"}
    /\ conn' = [conn EXCEPT ![r] =
          [i \in Tries |-> IF conn[r][i].phase \in {"sent", "open"}
                           THEN Closed(conn[r][i]) ELSE conn[r][i]]]
    /\ UNCHANGED <<pc, req, gone, tokens, gauge, st, plan, cur, err, reply,
                   mx>>

\* Everything the goroutine of r does by itself once it holds a token.
Step(r) ==
    \/ CountIn(r) \/ Resolve(r) \/ ReadBody(r) \/ Rewrite(r) \/ Build(r)
    \/ DoOk(r) \/ DoErr(r) \/ RetryAfterError(r) \/ GiveUp(r)
    \/ RetryAfterStatus(r) \/ Accept(r) \/ RedoOk(r) \/ RedoErr(r)
    \/ RelayStream(r) \/ StreamEnds(r) \/ RelayBuffered(r)
    \/ Return(r) \/ CountOut(r) \/ Release(r)

Next ==
    \E r \in Requests :
        Admit(r) \/ Overload(r) \/ Step(r) \/ Panic(r)
        \/ ClientLeaves(r) \/ ServerCancels(r)

Safety == Init /\ [][Next]_vars

Fairness ==
    \A r \in Requests : WF_vars(Step(r)) /\ WF_vars(ServerCancels(r))

Spec == Safety /\ Fairness
----------------------------------------------------------------------------
(* Properties                                                              *)

TypeOK ==
    /\ pc \in [Requests -> PCs]
    /\ req \in [Requests -> Inputs]
    /\ gone \subseteq Requests
    /\ tokens \in Nat
    /\ gauge \in Nat
    /\ st \in [Requests -> State]
    /\ plan \in [Requests -> Plan]
    /\ conn \in [Requests -> [Tries -> Conn]]
    /\ cur \in [Requests -> {0, 1, 2}]
    /\ err \in [Requests -> Errors]
    /\ reply \in [Requests -> Reply]
    /\ mx \in Counters

Holders == {r \in Requests : pc[r] \in Holding}

\* The gate (gate.go:44-55) counts exactly the requests that were admitted and
\* have not left, however they leave (normal return, early return, panic), and
\* so never more than MAX_INFLIGHT of them.
TokensMatchHolders ==
    MaxInflight > 0 => /\ tokens = Cardinality(Holders)
                       /\ tokens <= MaxInflight

\* The dashboard's in-flight gauge (gateway.go:230-231) counts exactly the
\* requests between its two updates: every +1 is paired with a -1 on every
\* path, and the gauge never shows more requests than hold a token.
GaugeMatchesCounted == gauge = Cardinality({r \in Requests : pc[r] \in Counted})

\* Tokens and gauge are, at every moment, what the places of the requests say.
CountsAreExact == TokensMatchHolders /\ GaugeMatchesCounted

\* Every request that has come to an end is in exactly one of the counters
\* requests, rejected and panics (gateway.go:224, 236; server.go:153).
CountedOnce ==
    mx.requests + mx.rejected + mx.panics =
        Cardinality({r \in Requests : pc[r] \in Ended \cup {"leave", "release"}})

\* The model whose names are scrubbed from the reply (replacerFor reads
\* st.upstreamModel) is the model that produced the response being relayed,
\* also after a switch, an aborted switch and a file pre-route; and the reply
\* is scrubbed towards the name the client asked for.
ReplacerMatchesResponder ==
    \A r \in Requests : pc[r] \in {"relay", "stream"} =>
        /\ st[r].up = conn[r][cur[r]].model
        /\ st[r].pub = IF req[r].body = "model" THEN req[r].pub ELSE NoModel

\* The client gets one status line and no more, whatever goes wrong: an early
\* error reply, a relayed response, a panic before or after the header is out
\* (server.go:137-174).  A request that has ended has been answered.
OneReply ==
    \A r \in Requests :
        /\ reply[r].writes <= 1
        /\ pc[r] \in Ended => reply[r].writes = 1

\* When handle returns normally, every upstream response it obtained has been
\* closed and every attempt's context cancelled: the swap of the first
\* response for the second (gateway.go:379-381) loses neither.
ClosedOnReturn ==
    \A r \in Requests : pc[r] \in {"leave", "release", "done"} =>
        \A i \in Tries : conn[r][i].phase # "none" =>
            conn[r][i].phase \in {"failed", "closed"} /\ conn[r][i].cancelled

\* A request whose base or proxy header is malformed is refused, never sent
\* somewhere else instead (credential.go:157-188).
NoSilentRouting ==
    \A r \in Requests : conn[r][1].phase # "none" =>
        /\ AllowBaseHeader => req[r].baseHdr \notin {"invalid", "broken"}
        /\ AllowProxyHeader => req[r].proxyHdr # "invalid"

\* No upstream call is started for a request that has been sent a byte
\* (failover.go:164-165): two responses are never spliced.
NoCallAfterReply ==
    [][\A r \in Requests : \A i \in Tries :
          conn[r][i].phase = "none" /\ conn'[r][i].phase # "none" =>
              reply'[r].writes = 0]_vars

\* Once admitted, a request comes to an end.
AdmittedEnds ==
    \A r \in Requests : pc[r] \in Holding ~> pc[r] \in Ended

\* No upstream response stays open for ever, not even one that a panic has
\* taken from its handler.
UpstreamReleased ==
    \A r \in Requests : \A i \in Tries :
        conn[r][i].phase \in {"sent", "open"}
            ~> conn[r][i].phase \in {"failed", "closed"}

\* No request, token or upstream response is held for ever (gateway.go:213-231,
\* 398-402).
NothingHeldForever == AdmittedEnds /\ UpstreamReleased

\* The gate keeps the promise of Admission.
Gate == INSTANCE Admission WITH
            Clients <- Requests, Limit <- MaxInflight,
            inside <- Holders,
            served <- {r \in Requests : pc[r] \in {"done", "crashed"}},
            turnedAway <- {r \in Requests : pc[r] = "rejected"}

GateKeepsPromise == Gate!ASpec

----------------------------------------------------------------------------
(* What the documentation says and the code does not do                    *)

\* README.md:11, failover.go:173-174: when a switch cannot be carried out the
\* client gets the first failure back, an upstream error with its body.
ErrorBodyRelayed ==
    \A r \in Requests : reply[r].body \notin {"empty", "tail"}

\* README.md:203, obs/metrics.go:36: the failover metric is the number of
\* switches to another model.
FailoverMetricCountsSwitches ==
    mx.failover = Cardinality({r \in Requests : st[r].failedOver})

\* failover.go:179: the first response is closed once it has been read, before
\* the retry, to give its connection back.
FirstResponseClosedBeforeRetry ==
    \A r \in Requests : conn[r][2].phase = "sent" => conn[r][1].phase # "open"
=============================================================================
