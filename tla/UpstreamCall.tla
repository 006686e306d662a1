---------------------------- MODULE UpstreamCall ----------------------------
(***************************************************************************)
(* One streaming call to the upstream, from Client.Do to the end of        *)
(* pipeStream: the first-byte watchdog (upstream/transport.go), the idle   *)
(* watchdog (upstream/stall.go), the total timeout, a client that may hang *)
(* up, and how the end of the stream is classified (gateway/response.go).  *)
(*                                                                         *)
(* Four parties interleave: the request's goroutine, the goroutine in      *)
(* which a timer runs its callback, the upstream and the client.  The      *)
(* first-byte timer may run out whenever it is armed.  The idle timer is   *)
(* measured in ticks, because what it measures is the question.            *)
(***************************************************************************)
EXTENDS Integers

CONSTANTS
    Stall,       \* UPSTREAM_STALL_TIMEOUT in ticks, 0 = no idle watchdog
    MaxChunks    \* bound: how many pieces the upstream sends

ASSUME CallAssumption == Stall \in Nat /\ MaxChunks \in Nat

VARIABLES
    pc,       \* where the request's goroutine is
    settled,  \* the atomic flag of Do
    fb,       \* the first-byte timer and its callback
    ctx,      \* "live", or what cancelled the context first
    got,      \* what hc.Do has returned
    result,   \* what Do has returned
    body,     \* the response body
    sg,       \* the idle timer and its callback
    tripped,  \* StallReader.tripped
    idle,     \* ticks since the idle timer was last reset
    silent,   \* ticks since the upstream last sent something
    quiet,    \* what silent was when the idle timer last ran out
    queue,    \* pieces that have arrived and were not read
    sent,     \* pieces sent so far
    feed,     \* "flowing", or how the upstream ended the stream
    gone,     \* the client has hung up
    broken,   \* the bufio.Writer has met a write error
    outcome   \* st.outcome

doVars == <<settled, fb, got, result>>
stallVars == <<sg, tripped, idle, quiet>>
netVars == <<silent, queue, sent, feed>>
vars == <<pc, doVars, ctx, body, stallVars, netVars, gone, broken, outcome>>

Causes == {"first_byte", "stall", "client", "total", "owner"}
Endings == {"eof", "cut", "reset", "failed"}

\* The context remembers its first cancellation.
Cancel(cause) == ctx' = IF ctx = "live" THEN cause ELSE ctx

\* What a call sees of a cancelled context.
CtxError == IF ctx = "total" THEN "deadline" ELSE "canceled"

Init ==
    /\ pc = "sending" /\ settled = FALSE /\ fb = "armed" /\ ctx = "live"
    /\ got = "none" /\ result = "none" /\ body = "none"
    /\ sg = "off" /\ tripped = FALSE /\ idle = 0 /\ quiet = 0
    /\ silent = 0 /\ queue = 0 /\ sent = 0 /\ feed = "flowing"
    /\ gone = FALSE /\ broken = FALSE /\ outcome = "stream"

----------------------------------------------------------------------------
(* Client.Do                                                               *)

FirstByteRunsOut ==
    /\ fb = "armed"
    /\ fb' = "running"
    /\ UNCHANGED <<pc, settled, got, result, ctx, body, stallVars, netVars,
                   gone, broken, outcome>>

FirstByteCAS ==
    /\ fb = "running"
    /\ settled' = TRUE
    /\ fb' = IF settled THEN "over" ELSE "won"
    /\ UNCHANGED <<pc, got, result, ctx, body, stallVars, netVars, gone,
                   broken, outcome>>

FirstByteCancel ==
    /\ fb = "won"
    /\ fb' = "over"
    /\ Cancel("first_byte")
    /\ UNCHANGED <<pc, settled, got, result, body, stallVars, netVars, gone,
                   broken, outcome>>

\* hc.Do returns: headers, the context's error, or an error of its own.
Answered ==
    /\ pc = "sending"
    /\ \/ got' = "resp" /\ body' = "open"
       \/ got' = "refused" /\ UNCHANGED body
       \/ ctx # "live" /\ got' = CtxError /\ UNCHANGED body
    /\ pc' = "answered"
    /\ UNCHANGED <<settled, fb, result, ctx, stallVars, netVars, gone, broken,
                   outcome>>

\* timer.Stop, which cannot call back a callback that has started.
StopFirstByte ==
    /\ pc = "answered"
    /\ fb' = IF fb = "armed" THEN "over" ELSE fb
    /\ pc' = "stopped"
    /\ UNCHANGED <<settled, got, result, ctx, body, stallVars, netVars, gone,
                   broken, outcome>>

\* Mutant: Do looks at the flag without claiming it.
SettleUnclaimed ==
    /\ pc = "stopped"
    /\ IF settled
       THEN /\ result' = "first_byte"
            /\ body' = IF got = "resp" THEN "closed" ELSE body
            /\ pc' = "end"
            /\ UNCHANGED ctx
       ELSE IF got # "resp"
       THEN /\ result' = got
            /\ Cancel("owner")
            /\ pc' = "end"
            /\ UNCHANGED body
       ELSE /\ result' = "ok"
            /\ pc' = "open"
            /\ UNCHANGED <<ctx, body>>
    /\ UNCHANGED <<settled, fb, got, stallVars, netVars, gone, broken, outcome>>

\* Mutant: the response that came too late is not closed.
SettleLeaks ==
    /\ pc = "stopped"
    /\ settled' = TRUE
    /\ IF settled
       THEN /\ result' = "first_byte"
            /\ pc' = "end"
            /\ UNCHANGED <<ctx, body>>
       ELSE IF got # "resp"
       THEN /\ result' = got
            /\ Cancel("owner")
            /\ pc' = "end"
            /\ UNCHANGED body
       ELSE /\ result' = "ok"
            /\ pc' = "open"
            /\ UNCHANGED <<ctx, body>>
    /\ UNCHANGED <<fb, got, stallVars, netVars, gone, broken, outcome>>

\* Mutant: the error of hc.Do is looked at before the flag.
SettleErrorFirst ==
    /\ pc = "stopped"
    /\ settled' = TRUE
    /\ IF got # "resp"
       THEN /\ result' = got
            /\ Cancel("owner")
            /\ pc' = "end"
            /\ UNCHANGED body
       ELSE IF settled
       THEN /\ result' = "first_byte"
            /\ body' = "closed"
            /\ pc' = "end"
            /\ UNCHANGED ctx
       ELSE /\ result' = "ok"
            /\ pc' = "open"
            /\ UNCHANGED <<ctx, body>>
    /\ UNCHANGED <<fb, got, stallVars, netVars, gone, broken, outcome>>

\* The CAS of Do and its three returns.  After a lost CAS the cancel is left
\* to the callback, and the error is a TimeoutError of kind first_byte.
Settle ==
    /\ pc = "stopped"
    /\ settled' = TRUE
    /\ IF settled
       THEN /\ result' = "first_byte"
            /\ body' = IF got = "resp" THEN "closed" ELSE body
            /\ pc' = "end"
            /\ UNCHANGED ctx
       ELSE IF got # "resp"
       THEN /\ result' = got
            /\ Cancel("owner")
            /\ pc' = "end"
            /\ UNCHANGED body
       ELSE /\ result' = "ok"
            /\ pc' = "open"
            /\ UNCHANGED <<ctx, body>>
    /\ UNCHANGED <<fb, got, stallVars, netVars, gone, broken, outcome>>

----------------------------------------------------------------------------
(* pipeStream, PipeSSE and the idle watchdog                               *)

\* The headers are flushed, with the synthetic first event if there is one,
\* and NewStallReader starts its timer; without a limit there is no
\* StallReader.
WrapBody ==
    /\ pc = "open"
    /\ broken' \in IF gone THEN BOOLEAN ELSE {FALSE}
    /\ sg' = IF Stall > 0 THEN "armed" ELSE "off"
    /\ idle' = 0
    /\ pc' = "next"
    /\ UNCHANGED <<doVars, ctx, body, tripped, quiet, netVars, gone, outcome>>

\* Mutant: the timer is started once and not reset by a Read.
ReadWithoutReset ==
    /\ pc = "next"
    /\ pc' = "reading"
    /\ UNCHANGED <<doVars, ctx, body, stallVars, netVars, gone, broken, outcome>>

\* Read resets the timer, also one that has run out, and asks for data.
Read ==
    /\ pc = "next"
    /\ idle' = 0
    /\ sg' = IF sg \in {"armed", "over"} THEN "armed" ELSE sg
    /\ pc' = "reading"
    /\ UNCHANGED <<doVars, ctx, body, tripped, quiet, netVars, gone, broken,
                   outcome>>

ReadData ==
    /\ pc = "reading"
    /\ queue > 0
    /\ queue' = queue - 1
    /\ pc' = "writing"
    /\ UNCHANGED <<doVars, ctx, body, stallVars, silent, sent, feed, gone,
                   broken, outcome>>

\* timer.Stop at the end of a Read that failed and in Close.
StopIdle == sg' = IF sg = "armed" THEN "over" ELSE sg

\* The upstream has ended the stream and nothing is left to be read: EOF,
\* unexpected EOF or GOAWAY, connection reset or RST_STREAM(CANCEL), or
\* something else.  PipeSSE returns nil for an EOF, whatever the last flush
\* did.
ReadEnds ==
    /\ pc = "reading"
    /\ queue = 0
    /\ feed # "flowing"
    /\ StopIdle
    /\ pc' = feed
    /\ UNCHANGED <<doVars, ctx, body, tripped, idle, quiet, netVars, gone,
                   broken, outcome>>

\* A Read under a cancelled context.
ReadCancelled ==
    /\ pc = "reading"
    /\ ctx # "live"
    /\ StopIdle
    /\ pc' = CtxError
    /\ UNCHANGED <<doVars, ctx, body, tripped, idle, quiet, netVars, gone,
                   broken, outcome>>

\* Write and flush.  The error of a flush is dropped, but the bufio.Writer
\* keeps it and returns it from the next Write.
Write ==
    /\ pc = "writing"
    /\ ~broken
    /\ broken' \in IF gone THEN BOOLEAN ELSE {FALSE}
    /\ pc' = "next"
    /\ UNCHANGED <<doVars, ctx, body, stallVars, netVars, gone, outcome>>

WriteFails ==
    /\ pc = "writing"
    /\ broken \/ gone
    /\ broken' = TRUE
    /\ pc' = "epipe"
    /\ UNCHANGED <<doVars, ctx, body, stallVars, netVars, gone, outcome>>

Failures == {"cut", "reset", "failed", "epipe", "canceled", "deadline"}

IsClientGone(e) == e \in {"canceled", "epipe", "reset"}

\* Mutant: isClientGone is asked before the idle watchdog.
ClassifyClientFirst ==
    /\ pc \in Failures \cup {"eof"}
    /\ outcome' = IF pc = "eof" THEN "stream"
                  ELSE IF IsClientGone(pc) THEN "client_gone"
                  ELSE IF tripped THEN "stream_stall"
                  ELSE IF pc = "cut" THEN "stream_eof"
                  ELSE "stream_broken"
    /\ StopIdle
    /\ pc' = "closing"
    /\ UNCHANGED <<doVars, ctx, body, tripped, idle, quiet, netVars, gone,
                   broken>>

\* The end of pipeStream, with its deferred Close of the StallReader.
Classify ==
    /\ pc \in Failures \cup {"eof"}
    /\ outcome' = IF pc = "eof" THEN "stream"
                  ELSE IF tripped THEN "stream_stall"
                  ELSE IF IsClientGone(pc) THEN "client_gone"
                  ELSE IF pc = "cut" THEN "stream_eof"
                  ELSE "stream_broken"
    /\ StopIdle
    /\ pc' = "closing"
    /\ UNCHANGED <<doVars, ctx, body, tripped, idle, quiet, netVars, gone,
                   broken>>

\* handle's deferred Body.Close and cancel.
Close ==
    /\ pc = "closing"
    /\ body' = "closed"
    /\ Cancel("owner")
    /\ pc' = "end"
    /\ UNCHANGED <<doVars, stallVars, netVars, gone, broken, outcome>>

IdleRunsOut ==
    /\ sg = "armed"
    /\ idle = Stall
    /\ sg' = "running"
    /\ quiet' = silent
    /\ UNCHANGED <<pc, doVars, ctx, body, tripped, idle, netVars, gone, broken,
                   outcome>>

\* Mutant: the callback cancels first and leaves its mark afterwards.
IdleMarksLate ==
    /\ sg = "running"
    /\ Cancel("stall")
    /\ sg' = "marked"
    /\ UNCHANGED <<pc, doVars, body, tripped, idle, quiet, netVars, gone,
                   broken, outcome>>

IdleMarks ==
    /\ sg = "running"
    /\ tripped' = TRUE
    /\ sg' = "marked"
    /\ UNCHANGED <<pc, doVars, ctx, body, idle, quiet, netVars, gone, broken,
                   outcome>>

\* Mutant: the callback only leaves its mark, for the next Read to find.
IdleOnlyMarks ==
    /\ sg = "marked"
    /\ sg' = "over"
    /\ UNCHANGED <<pc, doVars, ctx, body, tripped, idle, quiet, netVars, gone,
                   broken, outcome>>

IdleCancels ==
    /\ sg = "marked"
    /\ Cancel("stall")
    /\ sg' = "over"
    /\ UNCHANGED <<pc, doVars, body, tripped, idle, quiet, netVars, gone,
                   broken, outcome>>

----------------------------------------------------------------------------
(* The world                                                               *)

Arrives ==
    /\ result = "ok" /\ feed = "flowing" /\ sent < MaxChunks
    /\ queue' = queue + 1
    /\ sent' = sent + 1
    /\ silent' = 0
    /\ UNCHANGED <<pc, doVars, ctx, body, stallVars, feed, gone, broken,
                   outcome>>

UpstreamEnds ==
    /\ result = "ok" /\ feed = "flowing"
    /\ feed' \in Endings
    /\ UNCHANGED <<pc, doVars, ctx, body, stallVars, silent, queue, sent, gone,
                   broken, outcome>>

ClientLeaves ==
    /\ ~gone /\ pc # "end"
    /\ gone' = TRUE
    /\ Cancel("client")
    /\ UNCHANGED <<pc, doVars, body, stallVars, netVars, broken, outcome>>

TotalRunsOut ==
    /\ ctx = "live"
    /\ ctx' = "total"
    /\ UNCHANGED <<pc, doVars, body, stallVars, netVars, gone, broken, outcome>>

\* Time passes while the goroutine waits: for the upstream, or for a client
\* that takes its time to accept a write.
Tick ==
    /\ Stall > 0
    /\ \/ pc = "reading" /\ queue = 0 /\ feed = "flowing" /\ ctx = "live"
       \/ pc = "writing"
    /\ idle < Stall \/ silent < Stall
    /\ idle' = IF idle < Stall THEN idle + 1 ELSE idle
    /\ silent' = IF silent < Stall THEN silent + 1 ELSE silent
    /\ UNCHANGED <<pc, doVars, ctx, body, sg, tripped, quiet, queue, sent, feed,
                   gone, broken, outcome>>

Goroutine ==
    \/ StopFirstByte \/ Settle \/ WrapBody \/ Read \/ ReadData \/ ReadEnds
    \/ ReadCancelled \/ Classify \/ Close

Callbacks ==
    FirstByteCAS \/ FirstByteCancel \/ IdleMarks \/ IdleCancels

Next ==
    \/ Answered \/ Write \/ WriteFails \/ Goroutine \/ Callbacks
    \/ FirstByteRunsOut \/ IdleRunsOut
    \/ Arrives \/ UpstreamEnds \/ ClientLeaves \/ TotalRunsOut \/ Tick

\* Goroutines, timers and time make progress; http.Client.Do returns once its
\* context is cancelled; a write to the client comes to an end.  The total
\* timeout is not asked for: the two watchdogs have to do without it.
Fairness ==
    /\ WF_vars(Goroutine) /\ WF_vars(FirstByteCAS)
    /\ WF_vars(FirstByteCancel) /\ WF_vars(IdleMarks) /\ WF_vars(IdleCancels)
    /\ WF_vars(FirstByteRunsOut) /\ WF_vars(Tick) /\ WF_vars(IdleRunsOut)
    /\ WF_vars(ctx # "live" /\ Answered)
    /\ WF_vars(Write \/ WriteFails)

Safety == Init /\ [][Next]_vars

Spec == Safety /\ Fairness
----------------------------------------------------------------------------
(* Properties                                                              *)

TypeOK ==
    /\ pc \in {"sending", "answered", "stopped", "open", "next", "reading",
               "writing", "closing", "end", "eof"} \cup Failures
    /\ settled \in BOOLEAN /\ tripped \in BOOLEAN
    /\ gone \in BOOLEAN /\ broken \in BOOLEAN
    /\ fb \in {"armed", "running", "won", "over"}
    /\ ctx \in {"live"} \cup Causes
    /\ got \in {"none", "resp", "refused", "canceled", "deadline"}
    /\ result \in {"none", "ok", "first_byte", "refused", "canceled",
                   "deadline"}
    /\ body \in {"none", "open", "closed"}
    /\ sg \in {"off", "armed", "running", "marked", "over"}
    /\ idle \in 0 .. Stall /\ silent \in 0 .. Stall /\ quiet \in 0 .. Stall
    /\ sent \in 0 .. MaxChunks /\ queue \in 0 .. sent
    /\ feed \in {"flowing"} \cup Endings
    /\ outcome \in {"stream", "stream_stall", "client_gone", "stream_eof",
                    "stream_broken"}

\* The CAS of Do (transport.go:239-241, 332): once Do has returned a response
\* the first-byte watchdog is out of the game, it neither has cancelled nor
\* will cancel the context of the stream.
WatchdogSparesStream ==
    result = "ok" => ctx # "first_byte" /\ fb # "won"

\* A timeout is put down to the watchdog that fired: a call cut short before
\* its headers is a first-byte timeout, never a bare cancellation that would
\* pass for a client that went away (transport.go:332-345).
FirstByteOwnsUp ==
    pc = "end" /\ ctx = "first_byte" => result = "first_byte"

\* A response is either handed to the caller or closed by Do, and in the end
\* closed: an answer that comes in while the watchdog fires is not leaked.
NoBodyLeft == pc = "end" /\ got = "resp" => body = "closed"

\* stall.go:32-37, response.go:143-150: a stream the idle watchdog has cut is
\* not mistaken for one whose client has left.
StallNotSwallowed ==
    pc = "closing" /\ outcome = "client_gone" /\ ~gone => feed = "reset"

\* Neither watchdog's cut is put down to somebody else, in whatever order the
\* timer, the cancellation and the reader come.
WatchdogsOwnUp == WatchdogSparesStream /\ FirstByteOwnsUp /\ StallNotSwallowed

\* stall.go:58-62: a client that reads at once is never cut off while its
\* upstream keeps sending.  When the watchdog fires during a Read, Stall ticks
\* of silence have passed, or the data came after they had.
ProgressIsSafe ==
    [][IdleRunsOut /\ pc = "reading" => silent = Stall \/ queue > 0]_vars

\* Every call ends, and its context is cancelled: an upstream that falls
\* silent, before its headers or in the middle of the stream, does not hold
\* the request until the total timeout (stall.go:14-17).
CallEnds == <>[](pc = "end" /\ ctx # "live")

----------------------------------------------------------------------------
(* What the documentation says and the code does not do                    *)

\* stall.go:18-22: what the idle watchdog tells apart is the time between two
\* pieces of data from the upstream.
StallMeansSilence == outcome = "stream_stall" => quiet = Stall

\* response.go:420-422: the outcome client_gone is kept for clients that have
\* left, not for failures of the upstream.
ClientGoneMeansClient == outcome = "client_gone" => gone
=============================================================================
