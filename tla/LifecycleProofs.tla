--------------------------- MODULE LifecycleProofs ---------------------------
(***************************************************************************)
(* Proofs about the end of the process, for every budget, every number of  *)
(* requests and every interval of the probes: it leaves before it is       *)
(* killed, refuses and cuts nobody early, and sends what was recorded.     *)
(***************************************************************************)
EXTENDS Lifecycle, TLAPS

LEMMA Budget ==
    ASSUME cfg \in Configs
    PROVE  /\ Drain \in Nat /\ ShutdownTimeout \in Nat /\ FlushTimeout \in Nat
           /\ Total \in Nat /\ Grace \in Nat
           /\ Total = Drain + ShutdownTimeout + FlushTimeout /\ Grace >= Total
<1>1. /\ cfg.drain \in Int /\ cfg.shutdown \in Int /\ cfg.flush \in Int
      /\ cfg.spare \in Nat /\ DefaultShutdown \in Nat /\ DefaultFlush \in Nat
  BY LifecycleAssumption
<1>2. Drain \in Nat
  BY <1>1 DEF Drain
<1>3. ShutdownTimeout \in Nat
  BY <1>1 DEF ShutdownTimeout
<1>4. FlushTimeout \in Nat
  BY <1>1 DEF FlushTimeout
<1> QED
  BY <1>1, <1>2, <1>3, <1>4 DEF Total, Grace

LEMMA BudgetStays ==
    ASSUME [Next]_vars
    PROVE  /\ cfg' = cfg /\ Drain' = Drain /\ Total' = Total /\ Grace' = Grace
           /\ ShutdownTimeout' = ShutdownTimeout /\ FlushTimeout' = FlushTimeout
<1>1. cfg' = cfg
  BY DEF Next, vars, Serving, Main, Listen, Finish, ServeFails, BeginDrain,
     BeginShutdown, EndShutdown, FlushMetrics, FlushTraces, Export, Term, Kill,
     Probe, Tick, Route
<1> QED
  BY <1>1 DEF Drain, Total, Grace, ShutdownTimeout, FlushTimeout

----------------------------------------------------------------------------
(* The budget                                                              *)

Waiting == {"select", "drain", "shutdown", "metrics", "traces"}

\* How much of the budget is used up at each place.
ClockInv ==
    /\ cfg \in Configs /\ timer \in Nat /\ clock \in Nat
    /\ pc \in Waiting \cup Gone
    /\ ~signalled => clock = 0
    /\ pc = "select" => clock = 0
    /\ pc = "drain" => signalled /\ clock + timer = Drain
    /\ pc = "shutdown" => signalled /\ clock + timer = Drain + ShutdownTimeout
    /\ pc \in {"metrics", "traces"} => clock + timer <= Total
    /\ pc \in {"metrics", "traces", "exited"} => exit \in {"ok", "listen", "deadline"}
    /\ exit = "deadline" => clock >= Drain + ShutdownTimeout
    /\ pc = "killed" => clock = Grace
    /\ clock <= Total /\ timer <= Total

LEMMA StepClock ==
    ASSUME ClockInv, [Next]_vars
    PROVE  ClockInv'
<1> USE Budget, BudgetStays DEF ClockInv, Waiting, Gone, procVars, obsVars,
        lbVars
<1>1. CASE UNCHANGED vars
  BY <1>1 DEF vars
<1>2. CASE Listen \/ Term \/ Probe
  BY <1>2 DEF Listen, Term, Probe
<1>3. ASSUME NEW r \in Requests, Finish(r) \/ Route(r) PROVE ClockInv'
  BY <1>3 DEF Finish, Route
<1>4. ASSUME NEW p \in Pipelines, Export(p) PROVE ClockInv'
  BY <1>4 DEF Export
<1>5. CASE ServeFails
  BY <1>5 DEF ServeFails
<1>6. CASE BeginDrain
  BY <1>6 DEF BeginDrain
<1>7. CASE BeginShutdown
  BY <1>7 DEF BeginShutdown
<1>8. CASE EndShutdown
  BY <1>8 DEF EndShutdown
<1>9. CASE FlushMetrics
  BY <1>9 DEF FlushMetrics
<1>10. CASE FlushTraces
  BY <1>10 DEF FlushTraces, End
<1>11. CASE Kill
  BY <1>11 DEF Kill, End
<1>12. CASE Tick
  BY <1>12 DEF Tick
<1> QED
  BY <1>1, <1>2, <1>3, <1>4, <1>5, <1>6, <1>7, <1>8, <1>9, <1>10, <1>11, <1>12
  DEF Next, Serving, Main

LEMMA ClockInvariance == Spec => []ClockInv
<1>1. ASSUME Init PROVE ClockInv
  BY <1>1, Budget DEF Init, ClockInv, Waiting, Gone
<1> QED
  BY <1>1, StepClock, PTL DEF Spec

\* As long as the sum of the budget is below the grace period the process leaves
\* by itself, whatever is in flight (config.go:60-64, main.go:206-215).
THEOREM LeavesInTime == Spec => []NeverKilled
<1>1. ClockInv => NeverKilled
  BY Budget DEF ClockInv, NeverKilled
<1> QED
  BY <1>1, ClockInvariance, PTL

----------------------------------------------------------------------------
(* Types                                                                   *)

\* What is not a time.
Values ==
    /\ ready \in BOOLEAN /\ failure \in BOOLEAN /\ signalled \in BOOLEAN
    /\ listener \in {"starting", "open", "failed", "closed"}
    /\ exit \in {"none", "ok", "listen", "deadline"}
    /\ lb \in BOOLEAN /\ age \in 0 .. ProbeEvery
    /\ req \in [Requests -> {"none", "active", "done", "cut", "refused"}]
    /\ unsent \in [Pipelines -> SUBSET Requests]
    /\ open \subseteq Pipelines /\ missed \subseteq Requests

LEMMA StepValues ==
    ASSUME Values, [Next]_vars
    PROVE  Values'
<1> USE DEF Values, procVars, obsVars, lbVars
<1>1. CASE UNCHANGED vars
  BY <1>1 DEF vars
<1>2. CASE Listen \/ Term
  BY <1>2 DEF Listen, Term
<1>2a. CASE Probe
  <2>1. lb' \in BOOLEAN /\ age' = 0
    BY <1>2a, Zenon DEF Probe
  <2>2. UNCHANGED <<procVars, signalled, req, obsVars>>
    BY <1>2a DEF Probe
  <2> QED
    BY <2>1, <2>2, LifecycleAssumption
<1>3. CASE Tick
  BY <1>3, LifecycleAssumption DEF Tick
<1>4. ASSUME NEW r \in Requests, Finish(r) \/ Route(r) PROVE Values'
  BY <1>4 DEF Finish, Route
<1>5. ASSUME NEW p \in Pipelines, Export(p) PROVE Values'
  BY <1>5 DEF Export
<1>6. CASE ServeFails \/ BeginDrain \/ BeginShutdown \/ EndShutdown
  BY <1>6 DEF ServeFails, BeginDrain, BeginShutdown, EndShutdown
<1>7. CASE FlushMetrics
  BY <1>7 DEF FlushMetrics, Flushed, Pipelines
<1>8. CASE FlushTraces
  BY <1>8 DEF FlushTraces, Flushed, End, Pipelines
<1>9. CASE Kill
  BY <1>9 DEF Kill, End
<1> QED
  BY <1>1, <1>2, <1>3, <1>4, <1>5, <1>6, <1>7, <1>8, <1>9,
     <1>2a
  DEF Next, Serving, Main

LEMMA ValuesInvariance == Spec => []Values
<1>1. ASSUME Init PROVE Values
  <2>1. 0 \in 0 .. ProbeEvery
    BY LifecycleAssumption
  <2>2. /\ age = 0 /\ ready = TRUE /\ failure = FALSE /\ signalled = FALSE
        /\ listener = "starting" /\ exit = "none" /\ lb = FALSE
        /\ req = [r \in Requests |-> "none"]
        /\ unsent = [p \in Pipelines |-> {}]
        /\ open = Pipelines /\ missed = {}
    BY <1>1, Zenon DEF Init
  <2> QED
    BY <2>1, <2>2, Zenon DEF Values
<1> QED
  BY <1>1, StepValues, PTL DEF Spec

\* Every variable keeps its type: no wait is longer than the budget, and the
\* process does not outlive its grace period.
THEOREM LifecycleTypeCorrect == Spec => []TypeOK
<1>1. ClockInv /\ Values => TypeOK
  BY Budget DEF ClockInv, Values, TypeOK, Waiting, Gone
<1> QED
  BY <1>1, ClockInvariance, ValuesInvariance, PTL

----------------------------------------------------------------------------
(* The requests                                                            *)

\* Once Shutdown has begun nobody comes in, and when it has ended well nobody is
\* left.
ActiveInv ==
    /\ exit \in {"ok", "deadline"} \/ pc = "shutdown" => listener = "closed"
    /\ exit = "ok" => \A r \in Requests : req[r] \notin {"active", "cut"}
    /\ pc \in Waiting => \A r \in Requests : req[r] # "cut"
    /\ pc \in {"select", "drain", "shutdown"} => exit = "none"

\* A balancer that still sends requests has last probed before the drain began.
ProbeInv ==
    /\ age \in 0 .. ProbeEvery /\ lb \in BOOLEAN
    /\ failure => listener \in {"failed", "closed"}
    /\ pc \in {"shutdown", "metrics", "traces"} => listener \in {"failed", "closed"}
    /\ pc = "drain" => ~ready
    /\ lb => listener \in {"open", "closed"}
    /\ pc = "drain" /\ lb => age + timer >= Drain
    /\ Drain > ProbeEvery =>
          /\ lb => listener # "closed" /\ pc \notin Gone
          /\ \A r \in Requests : req[r] # "refused"

LEMMA StepActive ==
    ASSUME Values, ActiveInv, [Next]_vars
    PROVE  ActiveInv'
<1> USE DEF Values, ActiveInv, Waiting, Gone, procVars, obsVars, lbVars
<1>1. CASE UNCHANGED vars
  BY <1>1 DEF vars
<1>2. CASE Listen \/ Term \/ Probe \/ Tick
  BY <1>2 DEF Listen, Term, Probe, Tick
<1>3. ASSUME NEW r \in Requests, Finish(r) \/ Route(r) PROVE ActiveInv'
  BY <1>3 DEF Finish, Route
<1>4. ASSUME NEW p \in Pipelines, Export(p) PROVE ActiveInv'
  BY <1>4 DEF Export
<1>5. CASE ServeFails \/ BeginDrain \/ BeginShutdown \/ FlushMetrics
  BY <1>5 DEF ServeFails, BeginDrain, BeginShutdown, FlushMetrics
<1>6. CASE EndShutdown
  BY <1>6 DEF EndShutdown, Active
<1>7. CASE FlushTraces
  BY <1>7 DEF FlushTraces, End, Active
<1>8. CASE Kill
  BY <1>8 DEF Kill, End, Active
<1> QED
  BY <1>1, <1>2, <1>3, <1>4, <1>5, <1>6, <1>7, <1>8 DEF Next, Serving, Main
LEMMA StepProbe ==
    ASSUME ClockInv, Values, ProbeInv, [Next]_vars
    PROVE  ProbeInv'
<1> USE Budget, BudgetStays, LifecycleAssumption
        DEF ClockInv, Values, ProbeInv, Waiting, Gone, procVars, obsVars, lbVars
<1>1. CASE UNCHANGED vars
  BY <1>1 DEF vars
<1>2. CASE Listen
  BY <1>2 DEF Listen
<1>3. CASE Term
  BY <1>3 DEF Term
<1>4. CASE Probe
  BY <1>4 DEF Probe
<1>5. CASE Tick
  BY <1>5 DEF Tick
<1>6. ASSUME NEW r \in Requests, Finish(r) \/ Route(r) PROVE ProbeInv'
  BY <1>6 DEF Finish, Route
<1>7. ASSUME NEW p \in Pipelines, Export(p) PROVE ProbeInv'
  BY <1>7 DEF Export
<1>8. CASE ServeFails
  BY <1>8 DEF ServeFails
<1>9. CASE BeginDrain
  BY <1>9 DEF BeginDrain
<1>10. CASE BeginShutdown
  BY <1>10 DEF BeginShutdown
<1>11. CASE EndShutdown
  BY <1>11 DEF EndShutdown
<1>12. CASE FlushMetrics
  BY <1>12 DEF FlushMetrics
<1>13. CASE FlushTraces
  BY <1>13 DEF FlushTraces, End, Active
\* At the end of the grace period a drain is over, or there was none.
<1>14. CASE Kill
  <2>1. Drain > ProbeEvery /\ lb => pc \notin Waiting
    BY <1>14 DEF Kill
  <2> QED
    BY <1>14, <2>1 DEF Kill, End, Active
<1> QED
  BY <1>1, <1>2, <1>3, <1>4, <1>5, <1>6, <1>7, <1>8, <1>9, <1>10, <1>11,
     <1>12, <1>13, <1>14
  DEF Next, Serving, Main

\* No request is sent to a closed listener if the drain is longer than the
\* interval of the probes, and none is cut before it has had its time
\* (server.go:79-84, config.go:52-55).
THEOREM NobodyIsHurried == Spec => []RequestsAreSpared
<1>1. ASSUME Init PROVE ActiveInv /\ ProbeInv
  <2>1. ActiveInv
    BY <1>1 DEF Init, ActiveInv, Waiting
  <2>2. 0 \in 0 .. ProbeEvery
    BY LifecycleAssumption
  <2>3. /\ age = 0 /\ failure = FALSE /\ lb = FALSE /\ pc = "select"
        /\ req = [r \in Requests |-> "none"]
    BY <1>1, Zenon DEF Init
  <2>4. lb \in BOOLEAN /\ ~lb /\ ~failure
    BY <2>3, Zenon
  <2> QED
    BY <2>1, <2>2, <2>3, <2>4 DEF ProbeInv
<1>2. Values /\ ClockInv /\ ActiveInv /\ ProbeInv /\ [Next]_vars
        => ActiveInv' /\ ProbeInv'
  BY StepActive, StepProbe
<1>3. ClockInv /\ ActiveInv /\ ProbeInv => RequestsAreSpared
  <2> SUFFICES ASSUME ClockInv, ActiveInv, ProbeInv PROVE RequestsAreSpared
    OBVIOUS
  <2>1. NoneRefused
    BY DEF ProbeInv, NoneRefused
  <2>2. CutOnlyAfterTimeout
    BY Budget DEF ClockInv, ActiveInv, CutOnlyAfterTimeout, Waiting, Gone
  <2> QED
    BY <2>1, <2>2 DEF RequestsAreSpared
<1> QED
  BY <1>1, <1>2, <1>3, ValuesInvariance, ClockInvariance, PTL DEF Spec

----------------------------------------------------------------------------
(* The records                                                             *)

RecordInv ==
    /\ pc \in {"select", "drain", "shutdown"} => open = Pipelines /\ missed = {}
    /\ pc = "metrics" => open = {"traces"}
    /\ pc \in {"traces", "exited"} => open = {} /\ unsent["metrics"] = {}
    /\ pc = "exited" => unsent["traces"] = {}
    /\ pc \in {"metrics", "traces", "exited"} /\ exit = "ok" /\ timer > 0
          => missed = {}

LEMMA StepRecord ==
    ASSUME ClockInv, Values, ActiveInv, RecordInv, [Next]_vars
    PROVE  RecordInv'
<1> USE DEF ClockInv, Values, ActiveInv, RecordInv, Waiting, Gone, Pipelines,
        procVars, obsVars, lbVars
<1>1. CASE UNCHANGED vars
  BY <1>1 DEF vars
<1>2. CASE Listen \/ Term \/ Probe \/ Tick
  BY <1>2 DEF Listen, Term, Probe, Tick
<1>3. ASSUME NEW r \in Requests, Finish(r) \/ Route(r) PROVE RecordInv'
  BY <1>3 DEF Finish, Route
<1>4. ASSUME NEW p \in Pipelines, Export(p) PROVE RecordInv'
  BY <1>4 DEF Export
<1>5. CASE ServeFails \/ BeginDrain \/ BeginShutdown \/ EndShutdown
  BY <1>5 DEF ServeFails, BeginDrain, BeginShutdown, EndShutdown
<1>6. CASE FlushMetrics
  BY <1>6 DEF FlushMetrics, Flushed
<1>7. CASE FlushTraces
  BY <1>7 DEF FlushTraces, Flushed, End
<1>8. CASE Kill
  BY <1>8 DEF Kill, End
<1> QED
  BY <1>1, <1>2, <1>3, <1>4, <1>5, <1>6, <1>7, <1>8 DEF Next, Serving, Main

\* What was recorded before the flush is sent, unless that takes longer than
\* FlushTimeout (main.go:206-215).
THEOREM RecordsAreSent == Spec => []LastBatchSent
<1>1. ASSUME Init PROVE ActiveInv /\ RecordInv
  BY <1>1 DEF Init, ActiveInv, RecordInv, Gone, Waiting
<1>2. Values /\ ClockInv /\ ActiveInv /\ RecordInv /\ [Next]_vars
        => ActiveInv' /\ RecordInv'
  BY StepActive, StepRecord
<1>3. ClockInv /\ ActiveInv /\ RecordInv => LastBatchSent
  BY DEF RecordInv, LastBatchSent, Pipelines
<1> QED
  BY <1>1, <1>2, <1>3, ValuesInvariance, ClockInvariance, PTL DEF Spec
=============================================================================
