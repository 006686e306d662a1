----------------------------- MODULE RequestSpan -----------------------------
(***************************************************************************)
(* What the operator gets to see of a request: the attributes and the      *)
(* status of its span (internal/obs/errors.go, gateway/observe.go) and the *)
(* level of its log line (Gateway.log), written along the way by the       *)
(* actions of Gateway.  Attributes are only ever overwritten, never taken  *)
(* back, so that what a span says at the end depends on the order of the   *)
(* calls and on which of them leave an attribute alone.                    *)
(*                                                                         *)
(* Every action is one of Gateway together with what it records; a request *)
(* whose path is excluded from tracing is not modelled.                    *)
(***************************************************************************)
EXTENDS Gateway

VARIABLES
    span,   \* the attributes of each request's span
    stErr,  \* st.err is set
    line    \* the level of the request's log line

ovars == <<vars, span, stErr, line>>

\* What RecordFailover writes: stage "" if it was never called, first 0 if the
\* first attempt had no status, to NoModel if no model took over.
NoFailover == [stage |-> "", outcome |-> "", first |-> 0, from |-> NoModel,
               to |-> NoModel]

\* red: the status is Error; kind: gateway.error.kind; warn: logfire.level_num
\* is LevelWarn; count, stage, model and code: gateway.attempt.*; client:
\* http.response.status_code; upstream: gateway.upstream.status_code.
Blank == [red |-> FALSE, kind |-> "", warn |-> FALSE, count |-> 0,
          stage |-> "", model |-> NoModel, code |-> 0,
          failover |-> NoFailover, client |-> 0, upstream |-> 0]

----------------------------------------------------------------------------
(* obs/errors.go                                                           *)

\* RecordError, RecordGatewayError and RecordUpstreamError.
Red(s, kind) == [s EXCEPT !.red = TRUE, !.kind = kind]

\* Mutant: a failed attempt turns the span red.
AttemptFailureRed(s, n, stage, model, code) ==
    [s EXCEPT !.count = n, !.stage = stage, !.model = model, !.warn = TRUE,
              !.code = IF code > 0 THEN code ELSE @, !.red = TRUE]

\* RecordAttemptFailure: the n-th failure.  Without a status code the one of
\* an earlier failure stays.
AttemptFailure(s, n, stage, model, code) ==
    [s EXCEPT !.count = n, !.stage = stage, !.model = model, !.warn = TRUE,
              !.code = IF code > 0 THEN code ELSE @]

\* recordFailover
Failover(s, stage, outcome, first, from, to) ==
    [s EXCEPT !.failover = [stage |-> stage, outcome |-> outcome,
                            first |-> first, from |-> from, to |-> to]]

Aborted(s, stage, first, from) ==
    Failover(s, stage, "aborted", first, from, NoModel)

\* Mutant: a retry that was sent counts as a rescue.
SwitchedBlindly(s, stage, first, from, to, final) ==
    Failover(s, stage, "succeeded", first, from, to)

\* RecordFailover: by the status of the retry's response.
Switched(s, stage, first, from, to, final) ==
    Failover(s, stage, IF final >= 400 THEN "exhausted" ELSE "succeeded",
             first, from, to)

\* handle once it has the headers it will relay, and SetRequestMsg: up is the
\* status of the response that was given up, if there is one.
Headers(s, client, up) ==
    [s EXCEPT !.client = client, !.upstream = up,
              !.warn = @ \/ (up >= 400 /\ client < 400)]

----------------------------------------------------------------------------
(* Who records what                                                        *)

Note(r, s) == span' = [span EXCEPT ![r] = s]

SetErr(r, b) == stErr' = [stErr EXCEPT ![r] = b]

LogLevel(failed, status) ==
    IF failed \/ status >= 500 THEN "error"
    ELSE IF status >= 400 THEN "warn" ELSE "info"

OInit ==
    /\ Init
    /\ span = [r \in Requests |-> Blank]
    /\ stErr = [r \in Requests |-> FALSE]
    /\ line = [r \in Requests |-> "none"]

\* Nothing is recorded here, or only how long things took.
Quietly(r) ==
    /\ \/ Admit(r) \/ CountIn(r) \/ DoOk(r) \/ DoErr(r) \/ RelayStream(r)
       \/ CountOut(r) \/ Release(r) \/ Panic(r)
       \/ ClientLeaves(r) \/ ServerCancels(r)
    /\ UNCHANGED <<span, stErr, line>>

\* The refusal is logged, and has no tail attributes.
OverloadSpan(r) ==
    /\ Overload(r)
    /\ Note(r, Red(span[r], "overloaded"))
    /\ line' = [line EXCEPT ![r] = LogLevel(FALSE, 503)]
    /\ UNCHANGED stErr

\* The refusals that have a Go error keep it in st.err.
WithErr == {"bad_request", "build_request_failed"}

\* Before the upstream call: RecordGatewayError on every early return.
PrepareSpan(r) ==
    /\ Resolve(r) \/ ReadBody(r) \/ Rewrite(r) \/ Build(r)
    /\ Note(r, IF pc'[r] = "return" THEN Red(span[r], st'[r].outcome)
                                    ELSE span[r])
    /\ SetErr(r, st'[r].outcome \in WithErr)
    /\ UNCHANGED line

\* What Redo records after s: one more failure if the body cannot be rewritten,
\* which ends the failover.
RedoSpan(r, s, stage, first) ==
    IF Rewritable(req[r]) THEN s
    ELSE Aborted(AttemptFailure(s, s.count + 1, "rewrite", plan[r].model, 0),
                 stage, first, st[r].up)

RetryAfterErrorSpan(r) ==
    /\ RetryAfterError(r)
    /\ Note(r, RedoSpan(r, AttemptFailure(span[r], st[r].attempts + 1,
                                          "transport", st[r].up, 0),
                        "transport", 0))
    /\ UNCHANGED <<stErr, line>>

RetryAfterStatusSpan(r) ==
    LET first == conn[r][1].resp.status
        s == RedoSpan(r, AttemptFailure(span[r], st[r].attempts + 1, "status",
                                        st[r].up, first), "status", first)
    IN  /\ RetryAfterStatus(r)
        /\ Note(r, IF Rewritable(req[r]) THEN s ELSE Headers(s, first, first))
        /\ UNCHANGED <<stErr, line>>

AcceptSpan(r) ==
    LET code == conn[r][1].resp.status
    IN  /\ Accept(r)
        /\ Note(r, Headers(span[r], code, code))
        /\ UNCHANGED <<stErr, line>>

\* Mutant: the failure of a retry that was sent is left to others to record.
RedoOkUnnoted(r) ==
    LET first == conn[r][1].resp.status
        stage == IF cur[r] = 1 THEN "status" ELSE "transport"
        code == conn'[r][2].resp.status
        t == Switched(span[r], stage, first, st[r].up, plan[r].model, code)
    IN  /\ RedoOk(r)
        /\ Note(r, Headers(t, code, IF cur[r] = 1 THEN first ELSE code))
        /\ UNCHANGED <<stErr, line>>

\* The retry has got headers; if they are a failure, too, it is recorded.
RedoOkSpan(r) ==
    LET first == conn[r][1].resp.status
        stage == IF cur[r] = 1 THEN "status" ELSE "transport"
        code == conn'[r][2].resp.status
        s == IF code >= 400
             THEN AttemptFailure(span[r], st[r].attempts + 1, "status",
                                 plan[r].model, code)
             ELSE span[r]
        t == Switched(s, stage, first, st[r].up, plan[r].model, code)
    IN  /\ RedoOk(r)
        /\ Note(r, Headers(t, code, IF cur[r] = 1 THEN first ELSE code))
        /\ UNCHANGED <<stErr, line>>

RedoErrSpan(r) ==
    LET first == conn[r][1].resp.status
        stage == IF cur[r] = 1 THEN "status" ELSE "transport"
        s == Aborted(AttemptFailure(span[r], st[r].attempts + 1, "transport",
                                    plan[r].model, 0), stage, first, st[r].up)
    IN  /\ RedoErr(r)
        /\ Note(r, IF cur[r] = 1 THEN Headers(s, first, first) ELSE s)
        /\ UNCHANGED <<stErr, line>>

GiveUpSpan(r) ==
    /\ GiveUp(r)
    /\ Note(r, Red(span[r], "upstream_error"))
    /\ SetErr(r, TRUE)
    /\ UNCHANGED line

\* Only a stall and a break are failures; the error of a client that has left
\* is kept for the log, that of an upstream that has ended is not.
StreamEndsSpan(r) ==
    /\ StreamEnds(r)
    /\ LET o == st'[r].outcome
       IN  /\ Note(r, IF o \in {"stream_stall", "stream_broken"}
                      THEN Red(span[r], o) ELSE span[r])
           /\ SetErr(r, o \in {"stream_stall", "stream_broken", "client_gone"})
    /\ UNCHANGED line

\* Mutant: the upstream's failure is recorded last.
RejectOversizeBackwards(s, resp) ==
    LET t == Red(s, "response_too_large")
    IN  IF resp.status >= 400 THEN Red(t, "upstream_status") ELSE t

\* rejectOversizeResponse: the refusal is recorded after the upstream's failure.
RejectOversize(s, resp) ==
    Red(IF resp.status >= 400 THEN Red(s, "upstream_status") ELSE s,
        "response_too_large")

\* pipeBuffered
Buffered(s, resp, outcome, body) ==
    IF outcome = "response_too_large" THEN RejectOversize(s, resp)
    ELSE IF outcome = "read_upstream_failed" THEN Red(s, outcome)
    ELSE IF body = "cut" THEN Red(s, "write_client_failed")
    ELSE IF resp.status >= 400 THEN Red(s, "upstream_status")
    ELSE s

\* The errors of the reading and of the zero-copy relay are kept in st.err, and
\* so is that of the one write of a buffered body, which fails if the client has
\* left.
RelayBufferedSpan(r) ==
    LET resp == conn[r][cur[r]].resp
        o == st'[r].outcome
        body == reply'[r].body
        oneWrite == /\ o = OutcomeForStatus(resp.status)
                    /\ NeedSanitize(st[r]) \/ resp.status >= 400
    IN  /\ RelayBuffered(r)
        /\ Note(r, Buffered(span[r], resp, o, body))
        /\ \E b \in IF oneWrite /\ r \in gone THEN BOOLEAN
                    ELSE {o = "read_upstream_failed" \/ body = "cut"} :
              SetErr(r, b)
        /\ UNCHANGED line

\* setTailAttrs and the log line, still under the token.
ReturnSpan(r) ==
    /\ Return(r)
    /\ Note(r, [span[r] EXCEPT !.client = reply[r].status,
                               !.count = st[r].attempts])
    /\ line' = [line EXCEPT ![r] = LogLevel(stErr[r], reply[r].status)]
    /\ UNCHANGED stErr

ONext ==
    \E r \in Requests :
        \/ Quietly(r) \/ OverloadSpan(r) \/ PrepareSpan(r)
        \/ RetryAfterErrorSpan(r) \/ RetryAfterStatusSpan(r) \/ AcceptSpan(r)
        \/ RedoOkSpan(r) \/ RedoErrSpan(r) \/ GiveUpSpan(r)
        \/ StreamEndsSpan(r) \/ RelayBufferedSpan(r) \/ ReturnSpan(r)

OSafety == OInit /\ [][ONext]_ovars

OSpec == OSafety /\ Fairness

----------------------------------------------------------------------------
(* Properties                                                              *)

Stages == {"", "status", "transport", "rewrite"}

\* The values the variables may have.
SpanTypeOK ==
    /\ stErr \in [Requests -> BOOLEAN]
    /\ line \in [Requests -> {"none", "info", "warn", "error"}]
    /\ \A r \in Requests :
          /\ span[r].red \in BOOLEAN /\ span[r].warn \in BOOLEAN
          /\ span[r].stage \in Stages /\ span[r].failover.stage \in Stages
          /\ {span[r].model, span[r].failover.from, span[r].failover.to}
                \subseteq Models \cup {NoModel}
          /\ span[r].count \in 0 .. 2

\* The requests whose span is complete; a panic leaves one as it is.
Told == {r \in Requests : pc[r] \in {"leave", "release", "done", "rejected"}}

\* What the client got is a failure, or breaks off because of one.
ClientSawFailure(r) ==
    \/ reply[r].status >= 400
    \/ st[r].outcome \in {"stream_stall", "stream_broken"}
    \/ reply[r].body = "cut"

\* obs/errors.go:194-195, 389-392, observe.go:54-58: a span is red if and only
\* if the client has seen a failure, whatever was tried in between; it shows the
\* status the client got; and a line at level info means that nothing is red.  A
\* request that is not red has an error in the log only if the client has left.
SpanIsRedOnFailure ==
    \A r \in Told :
        /\ span[r].red <=> ClientSawFailure(r)
        /\ pc[r] # "rejected" => span[r].client = reply[r].status
        /\ span[r].red => line[r] # "info"
        /\ line[r] # "info" /\ ~span[r].red =>
              st[r].outcome = "client_gone" \/ r \in gone

\* gateway.go:363-365, response.go:370-372: the kind of the error is the outcome
\* the metrics have, unless it is the upstream's own failure that is relayed or
\* a relay that broke off; what was recorded first does not hide what came of
\* it, and a span that is not red has no kind.
KindIsOutcome ==
    \A r \in Told : span[r].kind =
        IF ~span[r].red THEN ""
        ELSE IF reply[r].body = "cut" THEN "write_client_failed"
        ELSE IF reply[r].status >= 400 /\ reply[r].body # "gateway"
        THEN "upstream_status"
        ELSE st[r].outcome

\* Whatever way a request ends, refused at the gate and in the midst of others
\* included, it is counted once and its span says what the client has seen.
EndsAreTold == CountedOnce /\ SpanIsRedOnFailure /\ KindIsOutcome

Over == Counted \ {"resolve", "readBody", "rewrite", "build", "do", "err",
                   "got", "redo"}

\* obs/errors.go:72-81, 194-213, failover.go:16-60: what a span says of a switch
\* is what became of the two attempts: which model failed and how, which other
\* one took over, and whether that rescued the request, was in vain, or was never
\* sent.  There is no switch after a success, or after 401 or 403, which no model
\* can cure, and a request that was rescued can be found by its level.
SwitchTold(r) ==
    LET f == span[r].failover
        first == conn[r][1]
        second == conn[r][2]
    IN  /\ f.stage # "" <=> span[r].count > 0
        /\ st[r].failedOver <=> f.outcome \in {"succeeded", "exhausted"}
        /\ f.stage # "" =>
              /\ f.from = first.model
              /\ f.stage = IF first.phase = "failed" THEN "transport"
                                                     ELSE "status"
              /\ f.first = first.resp.status
              /\ f.first \notin {401, 403} /\ (f.first > 0 => f.first >= 400)
              /\ second.phase # "none" => second.model # first.model
              /\ f.to = IF st[r].failedOver THEN second.model ELSE NoModel
        /\ f.outcome = "succeeded" => second.resp.status < 400 /\ span[r].warn
        /\ f.outcome = "exhausted" => second.resp.status >= 400
        /\ f.outcome = "aborted" => second.phase \in {"none", "failed"}

\* obs/errors.go:399-404: the number of failures is that of the attempts that
\* failed, none is missing, and step and model are those of the last of them.
AttemptsTold(r) ==
    LET s == span[r]
        first == conn[r][1]
        second == conn[r][2]
        retried == s.failover.stage # ""
        again == IF second.phase = "failed" THEN "transport"
                 ELSE IF second.phase = "none" THEN "rewrite" ELSE "status"
        twice == second.phase \in {"none", "failed"}
                 \/ second.resp.status >= 400
    IN  /\ s.count = IF ~retried THEN 0 ELSE IF twice THEN 2 ELSE 1
        /\ retried =>
              /\ first.phase = "failed" \/ first.resp.status >= 400
              /\ s.stage = IF twice THEN again ELSE s.failover.stage
              /\ s.model = IF twice THEN plan[r].model ELSE first.model

\* A request that has been tried twice is told as two: how each try ended and
\* how many failed.
FailoverIsTold ==
    \A r \in Requests : pc[r] \in Over => SwitchTold(r) /\ AttemptsTold(r)

----------------------------------------------------------------------------
(* What the documentation says and the code does not do                    *)

\* obs/errors.go:402-403: where a later failure overwrites an earlier one, the
\* attributes describe the last one.  A status code stays when the later failure
\* has none, and is then read as the second model's.
AttemptIsOneFailure ==
    \A r \in Requests : span[r].stage \in {"transport", "rewrite"} =>
        span[r].code = 0

\* obs/errors.go:296-297: a span that is red is not given the level warn, which
\* would lower it.
WarnIsNoDowngrade == \A r \in Told : span[r].red => ~span[r].warn

\* observe.go:56-58: the final status is on the span of every request.
EverySpanHasAStatus == \A r \in Told : span[r].client = reply[r].status
=============================================================================
