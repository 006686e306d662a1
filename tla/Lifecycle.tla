------------------------------ MODULE Lifecycle ------------------------------
(***************************************************************************)
(* The end of the process: main.run, server.Run and the budget of          *)
(* config.Lifecycle, between a load balancer that sends requests as long   *)
(* as its last probe of /readyz said 200, and an orchestrator that sends   *)
(* SIGTERM and, Grace later, SIGKILL.  Time passes in ticks; a step of the *)
(* process takes no time except where the code waits.                      *)
(***************************************************************************)
EXTENDS Integers

CONSTANTS
    Requests,
    Configs,         \* the budgets to be looked at, as written: may be unset,
                     \* and what the operator leaves beyond their sum
    DefaultShutdown, \* the 20 s and the 5 s of Effective, in ticks
    DefaultFlush,
    ProbeEvery       \* the load balancer's interval between two probes

ASSUME LifecycleAssumption ==
    /\ Configs \subseteq [drain : Int, shutdown : Int, flush : Int, spare : Nat]
    /\ {DefaultShutdown, DefaultFlush} \subseteq Nat \ {0}
    /\ ProbeEvery \in Nat

VARIABLES
    cfg,       \* config.Lifecycle as written, and spare (see Grace)
    pc,        \* where Run, and then the deferred calls of run, are
    ready,     \* Server.ready
    listener,
    failure,   \* the error of ListenAndServe is in errCh
    signalled, \* ctx is cancelled
    timer,     \* ticks left of what the process waits for
    exit,      \* what run returns
    clock,     \* ticks since SIGTERM
    lb, age,   \* whether the balancer sends requests; ticks since its last probe
    req,       \* where each request is
    unsent,    \* the records of each pipeline that no exporter has sent yet
    open,      \* the pipelines that still take records
    missed     \* the records that came too late, or were dropped

procVars == <<pc, ready, listener, failure, timer, exit>>
lbVars == <<lb, age>>
obsVars == <<unsent, open, missed>>
vars == <<cfg, procVars, signalled, clock, lbVars, req, obsVars>>

Pipelines == {"metrics", "traces"}

\* Lifecycle.Effective: zero means the default, except for the delay.
Drain == IF cfg.drain < 0 THEN 0 ELSE cfg.drain
ShutdownTimeout == IF cfg.shutdown <= 0 THEN DefaultShutdown ELSE cfg.shutdown
FlushTimeout == IF cfg.flush <= 0 THEN DefaultFlush ELSE cfg.flush
Total == Drain + ShutdownTimeout + FlushTimeout

\* stop_grace_period: the operator keeps the rule of config.go:60-64 if spare is
\* positive.
Grace == Total + cfg.spare

Active == {r \in Requests : req[r] = "active"}
Gone == {"exited", "killed"}

Init ==
    /\ cfg \in Configs
    /\ pc = "select" /\ ready = TRUE
    /\ listener = "starting" /\ failure = FALSE
    /\ signalled = FALSE /\ timer = 0 /\ exit = "none" /\ clock = 0
    /\ lb = FALSE /\ age = 0
    /\ req = [r \in Requests |-> "none"]
    /\ unsent = [p \in Pipelines |-> {}]
    /\ open = Pipelines /\ missed = {}

----------------------------------------------------------------------------
(* The goroutine that serves                                               *)

Listen ==
    /\ listener = "starting" /\ pc \notin Gone
    /\ \/ listener' = "open" /\ UNCHANGED failure
       \/ listener' = "failed" /\ failure' = TRUE
    /\ UNCHANGED <<cfg, pc, ready, signalled, timer, exit, clock, lbVars, req,
                   obsVars>>

\* A handler returns, and with it its span and its measurements end.
Finish(r) ==
    /\ req[r] = "active" /\ pc \notin Gone
    /\ req' = [req EXCEPT ![r] = "done"]
    /\ unsent' = [p \in Pipelines |->
                     IF p \in open THEN unsent[p] \cup {r} ELSE unsent[p]]
    /\ missed' = IF open = Pipelines THEN missed ELSE missed \cup {r}
    /\ UNCHANGED <<cfg, procVars, signalled, clock, lbVars, open>>

\* An exporter sends what has gathered, on its own schedule.
Export(p) ==
    /\ p \in open /\ unsent[p] # {} /\ pc \notin Gone
    /\ unsent' = [unsent EXCEPT ![p] = {}]
    /\ UNCHANGED <<cfg, procVars, signalled, clock, lbVars, req, open, missed>>

----------------------------------------------------------------------------
(* Run and the deferred calls                                              *)

\* The select has either to take when both are ready.
ServeFails ==
    /\ pc = "select" /\ failure
    /\ exit' = "listen" /\ pc' = "metrics" /\ timer' = FlushTimeout
    /\ open' = open \ {"metrics"}
    /\ UNCHANGED <<cfg, ready, listener, failure, signalled, clock, lbVars, req,
                   unsent, missed>>

\* Mutant: readiness is withdrawn when the delay is over.
BeginDrainSilently ==
    /\ pc = "select" /\ signalled
    /\ pc' = "drain" /\ timer' = Drain
    /\ UNCHANGED <<cfg, ready, listener, failure, signalled, exit, clock, lbVars,
                   req, obsVars>>

BeginDrain ==
    /\ pc = "select" /\ signalled
    /\ ready' = FALSE
    /\ pc' = "drain" /\ timer' = Drain
    /\ UNCHANGED <<cfg, listener, failure, signalled, exit, clock, lbVars, req,
                   obsVars>>

\* Mutant: the deadline of Shutdown counts from the signal.
BeginShutdownLate ==
    /\ pc = "drain" /\ timer = 0
    /\ listener' = "closed" /\ pc' = "shutdown"
    /\ timer' = IF ShutdownTimeout > Drain THEN ShutdownTimeout - Drain ELSE 0
    /\ UNCHANGED <<cfg, ready, failure, signalled, exit, clock, lbVars, req,
                   obsVars>>

\* Shutdown closes the listener, and a serving goroutine that comes later finds
\* the server shut down.
BeginShutdown ==
    /\ pc = "drain" /\ timer = 0
    /\ listener' = "closed" /\ pc' = "shutdown" /\ timer' = ShutdownTimeout
    /\ UNCHANGED <<cfg, ready, failure, signalled, exit, clock, lbVars, req,
                   obsVars>>

\* Mutant: the telemetry is given the time to the end of the drain as well.
EndShutdownGenerous ==
    /\ pc = "shutdown"
    /\ \/ Active = {} /\ exit' = "ok"
       \/ timer = 0 /\ exit' = "deadline"
    /\ pc' = "metrics" /\ timer' = FlushTimeout + Drain
    /\ open' = open \ {"metrics"}
    /\ UNCHANGED <<cfg, ready, listener, failure, signalled, clock, lbVars, req,
                   unsent, missed>>

\* Mutant: Shutdown is given a context without a deadline.
EndShutdownPatient ==
    /\ pc = "shutdown" /\ Active = {}
    /\ exit' = "ok" /\ pc' = "metrics" /\ timer' = FlushTimeout
    /\ open' = open \ {"metrics"}
    /\ UNCHANGED <<cfg, ready, listener, failure, signalled, clock, lbVars, req,
                   unsent, missed>>

\* Shutdown returns when nothing is active or its context has ended; it closes
\* no active connection.  Then the deferred flush starts with its own context.
EndShutdown ==
    /\ pc = "shutdown"
    /\ \/ Active = {} /\ exit' = "ok"
       \/ timer = 0 /\ exit' = "deadline"
    /\ pc' = "metrics" /\ timer' = FlushTimeout
    /\ open' = open \ {"metrics"}
    /\ UNCHANGED <<cfg, ready, listener, failure, signalled, clock, lbVars, req,
                   unsent, missed>>

\* A provider's Shutdown takes no more records, sends what it has, or gives up
\* when the context ends.  The two providers share the context.
Flushed(p) ==
    /\ \/ UNCHANGED missed
       \/ timer = 0 /\ missed' = missed \cup unsent[p]
    /\ unsent' = [unsent EXCEPT ![p] = {}]

FlushMetrics ==
    /\ pc = "metrics"
    /\ Flushed("metrics")
    /\ open' = open \ {"traces"}
    /\ pc' = "traces"
    /\ UNCHANGED <<cfg, ready, listener, failure, signalled, timer, exit, clock,
                   lbVars, req>>

\* Whatever still runs is cut when the process ends.
End(how) ==
    /\ pc' = how
    /\ req' = [r \in Requests |-> IF r \in Active THEN "cut" ELSE req[r]]

\* Mutant: the traces are left to the exporter.
FlushTracesNot ==
    /\ pc = "traces"
    /\ End("exited")
    /\ UNCHANGED <<cfg, ready, listener, failure, signalled, timer, exit, clock,
                   lbVars, obsVars>>

FlushTraces ==
    /\ pc = "traces"
    /\ Flushed("traces")
    /\ End("exited")
    /\ UNCHANGED <<cfg, ready, listener, failure, signalled, timer, exit, clock,
                   lbVars, open>>

----------------------------------------------------------------------------
(* The orchestrator and the load balancer                                  *)

Term ==
    /\ ~signalled /\ pc \notin Gone
    /\ signalled' = TRUE
    /\ UNCHANGED <<cfg, procVars, clock, lbVars, req, obsVars>>

Kill ==
    /\ signalled /\ clock = Grace /\ pc \notin Gone
    /\ End("killed")
    /\ UNCHANGED <<cfg, ready, listener, failure, signalled, timer, exit, clock,
                   lbVars, obsVars>>

\* /readyz, which answers 503 once ready is FALSE.
Probe ==
    /\ age > 0
    /\ lb' = (listener = "open" /\ ready /\ pc \notin Gone)
    /\ age' = 0
    /\ UNCHANGED <<cfg, procVars, signalled, clock, req, obsVars>>

Route(r) ==
    /\ lb /\ req[r] = "none"
    /\ req' = [req EXCEPT ![r] = IF listener = "open" /\ pc \notin Gone
                                 THEN "active" ELSE "refused"]
    /\ UNCHANGED <<cfg, procVars, signalled, clock, lbVars, obsVars>>

\* Time does not pass a deadline: neither the process's, nor the balancer's,
\* nor the orchestrator's.
Tick ==
    /\ pc \notin Gone /\ age < ProbeEvery
    /\ pc = "select" => ~signalled /\ ~failure
    /\ pc # "select" => timer > 0
    /\ signalled => clock < Grace
    /\ age' = age + 1
    /\ clock' = IF signalled THEN clock + 1 ELSE clock
    /\ timer' = IF pc = "select" THEN timer ELSE timer - 1
    /\ UNCHANGED <<cfg, pc, ready, listener, failure, signalled, exit, lb, req,
                   obsVars>>

Serving == Listen \/ \E r \in Requests : Finish(r)
Main == ServeFails \/ BeginDrain \/ BeginShutdown \/ EndShutdown
            \/ FlushMetrics \/ FlushTraces

Next ==
    \/ Serving \/ Main
    \/ \E p \in Pipelines : Export(p)
    \/ Term \/ Kill \/ Probe \/ Tick
    \/ \E r \in Requests : Route(r)

\* Go runs a goroutine that can run, time passes, and balancers probe.
Spec == Init /\ [][Next]_vars /\ WF_vars(Main) /\ WF_vars(Tick) /\ WF_vars(Probe)
----------------------------------------------------------------------------
(* Properties                                                              *)

\* The values the variables may have.
TypeOK ==
    /\ cfg \in Configs
    /\ pc \in {"select", "drain", "shutdown", "metrics", "traces"} \cup Gone
    /\ ready \in BOOLEAN /\ failure \in BOOLEAN /\ signalled \in BOOLEAN
    /\ listener \in {"starting", "open", "failed", "closed"}
    /\ exit \in {"none", "ok", "listen", "deadline"}
    /\ timer \in 0 .. Total /\ clock \in 0 .. Grace
    /\ lb \in BOOLEAN /\ age \in 0 .. ProbeEvery
    /\ req \in [Requests -> {"none", "active", "done", "cut", "refused"}]
    /\ unsent \in [Pipelines -> SUBSET Requests]
    /\ open \subseteq Pipelines /\ missed \subseteq Requests

\* server.go:79-84, config.go:52-54: when the delay is as long as the interval
\* of the probes, no request the balancer sends meets a closed listener before
\* the process has gone through the whole of its exit.
NoneRefused ==
    Drain > ProbeEvery => \A r \in Requests : req[r] # "refused"

\* config.go:55: an exit that follows a signal cuts a request only after it
\* was given the whole of ShutdownTimeout beyond the delay.
CutOnlyAfterTimeout ==
    (\E r \in Requests : req[r] = "cut") /\ exit # "listen"
        => clock >= Drain + ShutdownTimeout

\* An exit costs no request its answer before the budget is used up.
RequestsAreSpared == NoneRefused /\ CutOnlyAfterTimeout

\* config.go:60-62: as long as the sum of the budget is below the grace period
\* the process leaves by itself, its last flush included.
NeverKilled == Total < Grace => pc # "killed"

\* main.go:206-215: what is recorded before the flush reaches the collector,
\* unless that takes longer than FlushTimeout; after an exit within all of its
\* deadlines no record is left unsent or was dropped.
LastBatchSent ==
    pc = "exited" =>
        /\ \A p \in Pipelines : unsent[p] = {}
        /\ exit = "ok" /\ timer > 0 => missed = {}

\* A process that was told to end ends.
TermEnds == signalled ~> pc \in Gone

\* config.go:56: "beyond it they are disconnected by force".  Shutdown gives up
\* waiting and disconnects nobody: requests run on, next to the flush that
\* takes no more of their records.
ForcedAtTimeout == pc \in {"metrics", "traces"} /\ exit = "deadline" => Active = {}
=============================================================================
