--------------------------- MODULE GatewayProofs ---------------------------
(***************************************************************************)
(* Proofs about Gateway and RequestSpan, for every set of requests, every  *)
(* configuration and every set of answers: first what happens to requests, *)
(* then what the operator gets to see of it - that recording changes       *)
(* nothing, and that what is recorded is what the client has seen, and of  *)
(* every try what became of it.                                            *)
(***************************************************************************)
EXTENDS RequestSpan, FiniteSetTheorems, TLAPS

\* TypeOK but for the two counters, whose being natural numbers is a matter
\* of counting and not of types.
Types ==
    /\ pc \in [Requests -> PCs]
    /\ req \in [Requests -> Inputs]
    /\ gone \subseteq Requests
    /\ st \in [Requests -> State]
    /\ plan \in [Requests -> Plan]
    /\ conn \in [Requests -> [Tries -> Conn]]
    /\ cur \in [Requests -> {0, 1, 2}]
    /\ err \in [Requests -> Errors]
    /\ reply \in [Requests -> Reply]
    /\ mx \in Counters

\* handle looks at resp only where it holds one.
RespHeld == \A r \in Requests : pc[r] \in {"got", "relay", "stream"} =>
                                    cur[r] \in Tries

----------------------------------------------------------------------------
(* What the operators of the model return                                  *)

LEMMA InputType ==
    ASSUME Types, NEW r \in Requests
    PROVE  /\ req[r] \in Input
           /\ req[r].pub \in Models
           /\ req[r].hit \in Hit
           /\ req[r].capHdr \in CapMap
           /\ req[r].uses \subseteq Kinds
  BY GatewayAssumption DEF Types, Input

LEMMA LookupKindType ==
    ASSUME NEW in \in Input
    PROVE  LookupKind(in) \in Hit
  BY GatewayAssumption
  DEF LookupKind, StaticHit, Hit, MatchKinds, Miss, Input

LEMMA ResolveCapMapType ==
    ASSUME NEW in \in Input
    PROVE  ResolveCapMap(in) \in CapMap
  BY GatewayAssumption DEF ResolveCapMap, Input

LEMMA FallbackPlansType ==
    ASSUME NEW s \in State, NEW p \in FallbackPlans(s)
    PROVE  p \in Plan /\ (p.enabled => p.model # s.up)
<1>1. CASE p = NoPlan
  BY <1>1 DEF Plan, NoPlan, CapUses
<1>2. CASE p # NoPlan
  <2>1. PICK fb \in Fallbacks :
          /\ fb # s.up
          /\ p = [enabled |-> TRUE, model |-> fb, cap |-> "none"]
    BY <1>2 DEF FallbackPlans
  <2> QED
    BY <2>1, GatewayAssumption DEF Plan, CapUses
<1> QED
  BY <1>1, <1>2

LEMMA PlanFailoverType ==
    ASSUME NEW s \in State, NEW cm \in CapMap, NEW p \in PlanFailover(s, cm)
    PROVE  p \in Plan /\ (p.enabled => p.model # s.up)
<1>1. CASE p \in FallbackPlans(s)
  BY <1>1, FallbackPlansType
<1>2. CASE p \in CapPlans(s, cm)
  BY <1>2 DEF CapPlans, Plan, CapUses, State, CapMap
<1> QED
  BY <1>1, <1>2 DEF PlanFailover

LEMMA ApplyPlanType ==
    ASSUME NEW s \in State, NEW p \in Plan
    PROVE  /\ ApplyPlan(s, p) \in State
           /\ ApplyPlan(s, p).up = p.model
           /\ ApplyPlan(s, p).pub = s.pub
  BY DEF ApplyPlan, State, Plan, MatchKinds

LEMMA BufferedResultsType ==
    ASSUME NEW resp \in Responses \cup {NoResponse},
           NEW left \in {"whole", "tail", "empty"},
           NEW ns \in BOOLEAN,
           NEW b \in BufferedResults(resp, left, ns)
    PROVE  b.outcome \in Outcomes /\ b.status \in Nat /\ b.body \in Bodies
<1>1. resp.status \in Nat
  BY GatewayAssumption DEF Response, NoResponse
<1>2. OutcomeForStatus(resp.status) \in Outcomes
  BY DEF OutcomeForStatus, Outcomes
<1>3. \/ b \in {TooLarge, Unreadable}
      \/ \E o \in {OutcomeForStatus(resp.status), "sanitize_skipped_too_large"},
            bd \in {left, "cut"} : b = Relayed(resp, o, bd)
  BY DEF BufferedResults
<1>4. CASE b \in {TooLarge, Unreadable}
  <2>1. CASE b = TooLarge
    BY <2>1 DEF Outcomes, Bodies, TooLarge
  <2>2. CASE b = Unreadable
    BY <2>2 DEF Outcomes, Bodies, Unreadable
  <2> QED
    BY <1>4, <2>1, <2>2
<1>5. ASSUME NEW o \in {OutcomeForStatus(resp.status),
                       "sanitize_skipped_too_large"},
             NEW bd \in {left, "cut"},
             b = Relayed(resp, o, bd)
      PROVE  b.outcome \in Outcomes /\ b.status \in Nat /\ b.body \in Bodies
  <2>1. o \in Outcomes /\ bd \in Bodies
    BY <1>2 DEF Outcomes, Bodies
  <2>2. b.outcome = o /\ b.status = resp.status /\ b.body = bd
    BY <1>5 DEF Relayed
  <2> QED
    BY <1>1, <2>1, <2>2
<1> QED
  BY <1>3, <1>4, <1>5

LEMMA ConnType ==
    /\ NoConn \in Conn
    /\ \A m \in Models \cup {NoModel} :
          [NoConn EXCEPT !.phase = "sent", !.model = m] \in Conn
    /\ \A c \in Conn : Closed(c) \in Conn /\ Failed(c) \in Conn
    /\ \A c \in Conn, resp \in Responses : Opened(c, resp) \in Conn
    /\ \A c \in Conn : [c EXCEPT !.left = DrainForReport(c.resp)] \in Conn
  BY DEF Conn, NoConn, Phases, Closed, Failed, Opened, DrainForReport

LEMMA SubState ==
    ASSUME NEW s \in State
    PROVE  /\ \A o \in Outcomes : [s EXCEPT !.outcome = o] \in State
           /\ \A n \in Nat : [s EXCEPT !.attempts = n] \in State
           /\ \A m \in Models, o \in Outcomes :
                 [s EXCEPT !.pub = m, !.outcome = o] \in State
  BY DEF State

----------------------------------------------------------------------------
(* Types                                                                   *)

LEMMA InitTypes == Init => Types /\ RespHeld
<1> SUFFICES ASSUME Init PROVE Types /\ RespHeld
  OBVIOUS
<1>1. pc \in [Requests -> PCs] /\ req \in [Requests -> Inputs]
      /\ gone \subseteq Requests /\ cur \in [Requests -> {0, 1, 2}]
      /\ err \in [Requests -> Errors]
  BY DEF Init, PCs, Errors
<1>2. st \in [Requests -> State]
  BY DEF Init, State, MatchKinds, CapUses, Outcomes
<1>3. plan \in [Requests -> Plan]
  BY DEF Init, Plan, NoPlan, CapUses
<1>4. conn \in [Requests -> [Tries -> Conn]]
  BY ConnType DEF Init
<1>5. reply \in [Requests -> Reply] /\ mx \in Counters
  BY DEF Init, Reply, Bodies, Counters
<1> QED
  BY <1>1, <1>2, <1>3, <1>4, <1>5 DEF Types, RespHeld, Init

LEMMA GotoType ==
    ASSUME Types, NEW r \in Requests, NEW l \in PCs, Goto(r, l)
    PROVE  pc' \in [Requests -> PCs]
  BY DEF Types, Goto

LEMMA AnswerType ==
    ASSUME Types, NEW r \in Requests, NEW code \in Nat, NEW b \in Bodies,
           Answer(r, code, b)
    PROVE  reply' \in [Requests -> Reply]
  BY DEF Types, Answer, Reply

LEMMA OutcomeType ==
    ASSUME Types, NEW r \in Requests, NEW o \in Outcomes
    PROVE  [st EXCEPT ![r].outcome = o] \in [Requests -> State]
<1>1. [st[r] EXCEPT !.outcome = o] \in State
  BY SubState DEF Types
<1> QED
  BY <1>1 DEF Types

LEMMA ConnUpdateType ==
    ASSUME Types, NEW r \in Requests, NEW i \in Tries, NEW c \in Conn
    PROVE  [conn EXCEPT ![r][i] = c] \in [Requests -> [Tries -> Conn]]
<1>1. [conn[r] EXCEPT ![i] = c] \in [Tries -> Conn]
  BY DEF Types
<1> QED
  BY <1>1 DEF Types

LEMMA ConnReplaceType ==
    ASSUME Types, NEW r \in Requests, NEW f \in [Tries -> Conn]
    PROVE  [conn EXCEPT ![r] = f] \in [Requests -> [Tries -> Conn]]
  BY DEF Types

LEMMA SendType ==
    ASSUME Types, NEW r \in Requests, NEW i \in Tries,
           NEW m \in Models \cup {NoModel}, Send(r, i, m)
    PROVE  conn' \in [Requests -> [Tries -> Conn]]
<1>1. [NoConn EXCEPT !.phase = "sent", !.model = m] \in Conn
  BY ConnType
<1> QED
  BY <1>1, ConnUpdateType DEF Send

LEMMA RefuseType ==
    ASSUME Types, NEW r \in Requests, NEW o \in Outcomes, NEW code \in Nat,
           Refuse(r, o, code)
    PROVE  /\ st' \in [Requests -> State]
           /\ pc' \in [Requests -> PCs]
           /\ reply' \in [Requests -> Reply]
<1>1. "return" \in PCs /\ "gateway" \in Bodies
  BY DEF PCs, Holding, Counted, Bodies
<1> QED
  BY <1>1, OutcomeType, GotoType, AnswerType DEF Refuse

LEMMA PCNames ==
    /\ InHandle \subseteq PCs
    /\ Holding \subseteq PCs
    /\ {"admitted", "release", "return", "leave", "rejected", "done",
        "crashed"} \subseteq PCs
  BY DEF PCs, Holding, Counted, Ended

----------------------------------------------------------------------------

LEMMA RewriteType ==
    ASSUME Types, NEW r \in Requests, Rewrite(r)
    PROVE  Types'
<1>1. /\ {"return", "build"} \subseteq PCs
      /\ {"bad_model_map", "unmapped_model", ""} \subseteq Outcomes
      /\ "gateway" \in Bodies
  BY DEF PCs, Holding, Counted, InHandle, Outcomes, Bodies
<1>2. /\ LookupKind(req[r]) \in Hit
      /\ ResolveCapMap(req[r]) \in CapMap
      /\ req[r].pub \in Models
      /\ req[r].uses \subseteq Kinds
  BY InputType, LookupKindType, ResolveCapMapType
<1>3. CASE Answer(r, 400, "gateway") /\ Goto(r, "return")
  <2>1. \A o \in Outcomes :
           [st[r] EXCEPT !.pub = req[r].pub, !.outcome = o] \in State
    BY <1>2, SubState DEF Types
  <2>2. st' \in [Requests -> State]
    BY <1>1, <1>3, <2>1, ZenonT(60) DEF Rewrite, Types, Goto
  <2>3. pc' \in [Requests -> PCs]
    BY <1>1, <1>3, GotoType
  <2>4. reply' \in [Requests -> Reply]
    <3>1. 400 \in Nat
      OBVIOUS
    <3>2. "gateway" \in Bodies
      BY <1>1
    <3> QED
      BY <1>3, <3>1, <3>2, AnswerType, Zenon
  <2> QED
    BY <1>3, <2>2, <2>3, <2>4 DEF Rewrite, Types
<1>4. CASE ~(Answer(r, 400, "gateway") /\ Goto(r, "return"))
  <2> DEFINE cm == ResolveCapMap(req[r])
             caps == req[r].uses \cap Want(cm)
             hit == LookupKind(req[r])
             made(f) == [pub |-> req[r].pub, up |-> f.up, kind |-> hit.kind,
                         caps |-> caps, capUsed |-> f.capUsed,
                         failedOver |-> FALSE, attempts |-> 0, outcome |-> ""]
  <2>1. PICK up \in IF hit.kind # "none" THEN hit.ups ELSE {req[r].pub} :
           \E f \in FileRoutes(caps, cm, up) : st' = [st EXCEPT ![r] = made(f)]
    BY <1>4 DEF Rewrite
  <2>2. PICK f \in FileRoutes(caps, cm, up) : st' = [st EXCEPT ![r] = made(f)]
    BY <2>1
  <2>3. up \in Models
    BY <1>2, <2>1 DEF Hit
  <2>4. f.up \in Models /\ f.capUsed \in CapUses
    <3>1. cm["file"] \subseteq Models
      BY <1>2 DEF CapMap, Kinds
    <3>2. \/ f = [up |-> up, capUsed |-> "none"]
          \/ \E m \in cm["file"] : f = [up |-> m, capUsed |-> "file"]
      BY <2>2 DEF FileRoutes
    <3> QED
      BY <2>3, <3>1, <3>2 DEF CapUses, Kinds
  <2>5. made(f) \in State
    BY <1>1, <1>2, <2>4 DEF State, Hit
  <2>6. st' \in [Requests -> State]
    BY <2>2, <2>5 DEF Types
  <2>7. pc' \in [Requests -> PCs]
    BY <1>1, <1>4, GotoType DEF Rewrite
  <2> QED
    BY <1>4, <2>6, <2>7 DEF Rewrite, Types
<1> QED
  BY <1>3, <1>4

LEMMA RespStatus ==
    ASSUME Types, NEW r \in Requests, cur[r] \in Tries
    PROVE  /\ conn[r][cur[r]].resp \in Responses \cup {NoResponse}
           /\ conn[r][cur[r]].left \in {"whole", "tail", "empty"}
           /\ conn[r][cur[r]].resp.status \in Nat
<1>1. conn[r][cur[r]] \in Conn
  BY DEF Types
<1> QED
  BY <1>1, GatewayAssumption DEF Conn, Response, NoResponse

LEMMA RedoType ==
    ASSUME Types, NEW r \in Requests, NEW n \in Nat,
           NEW abort \in PCs, Redo(r, n, abort)
    PROVE  st' \in [Requests -> State] /\ pc' \in [Requests -> PCs]
<1>1. "redo" \in PCs
  BY PCNames DEF InHandle
<1>2. st[r] \in State
  BY DEF Types
<1>3. st[r].attempts + n \in Nat /\ st[r].attempts + n + 1 \in Nat
  BY <1>2 DEF State
<1>4. /\ [st[r] EXCEPT !.attempts = st[r].attempts + n] \in State
      /\ [st[r] EXCEPT !.attempts = st[r].attempts + n + 1] \in State
  BY <1>2, <1>3, SubState
<1>5. st' \in [Requests -> State]
  BY <1>4 DEF Redo, Types
<1> QED
  BY <1>1, <1>5, GotoType DEF Redo

\* The retry is only carried out for an enabled plan, which names a model.
LEMMA RedoOkType ==
    ASSUME Types, NEW r \in Requests, RedoOk(r)
    PROVE  Types'
<1>1. PICK resp \in Responses :
        /\ conn' = [conn EXCEPT ![r] =
              [i \in Tries |->
                 IF i = 2 THEN Opened(conn[r][2], resp)
                 ELSE IF cur[r] = 1 THEN Closed(conn[r][1])
                 ELSE conn[r][1]]]
        /\ st' = [st EXCEPT ![r] = ApplyPlan(Noted(st[r], resp), plan[r])]
  BY DEF RedoOk
<1>2. st[r] \in State /\ plan[r] \in Plan
      /\ conn[r][1] \in Conn /\ conn[r][2] \in Conn
  BY DEF Types, Tries
<1>3. conn' \in [Requests -> [Tries -> Conn]]
  BY <1>1, <1>2, ConnType, ConnReplaceType
<1>4. st' \in [Requests -> State]
  <2>1. st[r].attempts + 1 \in Nat
    BY <1>2 DEF State
  <2>2. Noted(st[r], resp) \in State
    BY <1>2, <2>1, SubState DEF Noted
  <2>3. ApplyPlan(Noted(st[r], resp), plan[r]) \in State
    BY <1>2, <2>2, ApplyPlanType
  <2> QED
    BY <1>1, <2>3 DEF Types
<1>5. mx' \in Counters
  <2>1. mx \in Counters
    BY DEF Types
  <2>2. mx' = IF cur[r] = 1 THEN [mx EXCEPT !.failover = @ + 1] ELSE mx
    BY DEF RedoOk
  <2>3. [mx EXCEPT !.failover = @ + 1] \in Counters
    BY <2>1 DEF Counters
  <2> QED
    BY <2>1, <2>2, <2>3
<1>6. pc' \in [Requests -> PCs]
  <2>1. "relay" \in PCs
    BY PCNames DEF InHandle
  <2> QED
    BY <2>1, GotoType DEF RedoOk
<1>7. cur' \in [Requests -> {0, 1, 2}] /\ err' \in [Requests -> Errors]
  BY DEF RedoOk, Types, Errors
<1> QED
  BY <1>3, <1>4, <1>5, <1>6, <1>7 DEF RedoOk, Types

LEMMA RelayBufferedType ==
    ASSUME Types, NEW r \in Requests, cur[r] \in Tries, RelayBuffered(r)
    PROVE  Types'
<1>1. PICK b \in BufferedResults(conn[r][cur[r]].resp, conn[r][cur[r]].left,
                                 NeedSanitize(st[r])) :
        /\ Answer(r, b.status, b.body)
        /\ st' = [st EXCEPT ![r].outcome = b.outcome]
  BY DEF RelayBuffered
<1>2. NeedSanitize(st[r]) \in BOOLEAN
  BY GatewayAssumption DEF NeedSanitize
<1>3. b.outcome \in Outcomes /\ b.status \in Nat /\ b.body \in Bodies
  BY <1>2, RespStatus, BufferedResultsType
<1>4. st' \in [Requests -> State] /\ reply' \in [Requests -> Reply]
  BY <1>1, <1>3, OutcomeType, AnswerType
<1>5. pc' \in [Requests -> PCs]
  <2>1. "return" \in PCs
    BY PCNames
  <2> QED
    BY <2>1, GotoType DEF RelayBuffered
<1> QED
  BY <1>4, <1>5 DEF RelayBuffered, Types


LEMMA StepTypes ==
    ASSUME Types, RespHeld, [Next]_vars
    PROVE  Types'
<1>1. CASE UNCHANGED vars
  BY <1>1 DEF vars, Types
<1>2. ASSUME NEW r \in Requests, Admit(r) PROVE Types'
  BY <1>2, PCNames, GotoType DEF Admit, Types
<1>3. ASSUME NEW r \in Requests, Overload(r) PROVE Types'
  <2>1. "rejected" \in PCs
    BY PCNames
  <2>2. "overloaded" \in Outcomes
    BY DEF Outcomes
  <2>3. "gateway" \in Bodies
    BY DEF Bodies
  <2>4. pc' \in [Requests -> PCs]
    BY <1>3, <2>1, GotoType DEF Overload
  <2>5. st' \in [Requests -> State]
    BY <1>3, <2>2, OutcomeType DEF Overload
  <2>6. mx' \in Counters
    BY <1>3 DEF Overload, Counters, Types
  <2>7. 503 \in Nat
    OBVIOUS
  <2>8. reply' \in [Requests -> Reply]
    BY <1>3, <2>3, <2>7, AnswerType, ZenonT(60) DEF Overload
  <2> QED
    BY <1>3, <2>4, <2>5, <2>6, <2>8 DEF Overload, Types
<1>4. ASSUME NEW r \in Requests, CountIn(r) PROVE Types'
  <2>1. "resolve" \in PCs
    BY PCNames DEF InHandle
  <2> QED
    BY <1>4, <2>1, GotoType DEF CountIn, Types
<1>5. ASSUME NEW r \in Requests, Resolve(r) PROVE Types'
  <2>1. "readBody" \in PCs
    BY PCNames DEF InHandle
  <2>2. {"no_upstream", "bad_proxy"} \subseteq Outcomes
    BY DEF Outcomes
  <2>3. 502 \in Nat /\ 400 \in Nat
    OBVIOUS
  <2>4. CASE Refuse(r, "no_upstream", 502)
    BY <1>5, <2>2, <2>3, <2>4, RefuseType, ZenonT(60) DEF Resolve, Types
  <2>5. CASE Refuse(r, "bad_proxy", 400)
    BY <1>5, <2>2, <2>3, <2>5, RefuseType, ZenonT(60) DEF Resolve, Types
  <2>6. CASE Goto(r, "readBody") /\ UNCHANGED <<st, reply>>
    BY <1>5, <2>1, <2>6, GotoType DEF Resolve, Types
  <2> QED
    BY <1>5, <2>4, <2>5, <2>6 DEF Resolve
<1>6. ASSUME NEW r \in Requests, ReadBody(r) PROVE Types'
  <2>1. {"rewrite", "build"} \subseteq PCs
    BY PCNames DEF InHandle
  <2>2. "bad_request" \in Outcomes
    BY DEF Outcomes
  <2>3. 400 \in Nat
    OBVIOUS
  <2>4. CASE Refuse(r, "bad_request", 400)
    BY <1>6, <2>2, <2>3, <2>4, RefuseType, ZenonT(60) DEF ReadBody, Types
  <2>5. CASE /\ Goto(r, IF req[r].body = "model" THEN "rewrite" ELSE "build")
             /\ UNCHANGED <<st, reply>>
    BY <1>6, <2>1, <2>5, GotoType DEF ReadBody, Types
  <2> QED
    BY <1>6, <2>4, <2>5 DEF ReadBody
<1>7. ASSUME NEW r \in Requests, Rewrite(r) PROVE Types'
  BY <1>7, RewriteType
<1>8. ASSUME NEW r \in Requests, Build(r) PROVE Types'
  <2>1. "do" \in PCs
    BY PCNames DEF InHandle
  <2>2. "build_request_failed" \in Outcomes
    BY DEF Outcomes
  <2>3. 500 \in Nat
    OBVIOUS
  <2>4. CASE Refuse(r, "build_request_failed", 500) /\ UNCHANGED <<plan, conn>>
    BY <1>8, <2>2, <2>3, <2>4, RefuseType, ZenonT(60) DEF Build, Types
  <2>5. CASE ~(Refuse(r, "build_request_failed", 500)
               /\ UNCHANGED <<plan, conn>>)
    <3>1. st[r] \in State /\ ResolveCapMap(req[r]) \in CapMap
      BY InputType, ResolveCapMapType DEF Types
    <3>2. plan' \in [Requests -> Plan]
      BY <1>8, <2>5, <3>1, PlanFailoverType DEF Build, Types
    <3>3. 1 \in Tries /\ st[r].up \in Models \cup {NoModel}
      BY <3>1 DEF State, Tries
    <3>4. conn' \in [Requests -> [Tries -> Conn]]
      BY <1>8, <2>5, <3>3, SendType DEF Build
    <3>5. pc' \in [Requests -> PCs]
      BY <1>8, <2>1, <2>5, GotoType DEF Build
    <3> QED
      BY <1>8, <2>5, <3>2, <3>4, <3>5 DEF Build, Types
  <2> QED
    BY <2>4, <2>5
<1>9. ASSUME NEW r \in Requests, DoOk(r) PROVE Types'
  <2>1. "got" \in PCs
    BY PCNames DEF InHandle
  <2>2. 1 \in Tries /\ conn[r][1] \in Conn
    BY DEF Tries, Types
  <2>3. PICK resp \in Responses :
          conn' = [conn EXCEPT ![r][1] = Opened(conn[r][1], resp)]
    BY <1>9 DEF DoOk
  <2>4. conn' \in [Requests -> [Tries -> Conn]]
    BY <2>2, <2>3, ConnType, ConnUpdateType
  <2> QED
    BY <1>9, <2>1, <2>4, GotoType DEF DoOk, Types
<1>10. ASSUME NEW r \in Requests, DoErr(r) PROVE Types'
  <2>1. "err" \in PCs
    BY PCNames DEF InHandle
  <2>2. 1 \in Tries /\ conn[r][1] \in Conn
    BY DEF Tries, Types
  <2>3. conn' \in [Requests -> [Tries -> Conn]]
    BY <1>10, <2>2, ConnType, ConnUpdateType DEF DoErr
  <2> QED
    BY <1>10, <2>1, <2>3, GotoType DEF DoErr, Types
<1>11. ASSUME NEW r \in Requests, RetryAfterError(r) PROVE Types'
  <2>1. {"redo", "failed"} \subseteq PCs
    BY PCNames DEF InHandle
  <2>2. st' \in [Requests -> State] /\ pc' \in [Requests -> PCs]
    BY <1>11, <2>1, RedoType DEF RetryAfterError
  <2>3. 2 \in Tries /\ plan[r].model \in Models \cup {NoModel}
    BY DEF Tries, Types, Plan
  <2>4. conn' \in [Requests -> [Tries -> Conn]]
    BY <1>11, <2>3, SendType DEF RetryAfterError, Types
  <2> QED
    BY <1>11, <2>2, <2>4 DEF RetryAfterError, Types
<1>12. ASSUME NEW r \in Requests, GiveUp(r) PROVE Types'
  <2>1. "upstream_error" \in Outcomes
    BY DEF Outcomes
  <2>2. ClassifyUpstreamError(err[r], r \in gone) \in Nat
    BY DEF ClassifyUpstreamError
  <2>3. mx' \in Counters
    BY <1>12 DEF GiveUp, Counters, Types
  <2> QED
    BY <1>12, <2>1, <2>2, <2>3, RefuseType DEF GiveUp, Types
<1>13. ASSUME NEW r \in Requests, RetryAfterStatus(r) PROVE Types'
  <2>1. {"redo", "relay"} \subseteq PCs
    BY PCNames DEF InHandle
  <2>2. st' \in [Requests -> State] /\ pc' \in [Requests -> PCs]
    BY <1>13, <2>1, RedoType DEF RetryAfterStatus
  <2>3. plan[r].model \in Models \cup {NoModel} /\ conn[r][1] \in Conn
    BY DEF Types, Tries, Plan
  <2>4. conn' \in [Requests -> [Tries -> Conn]]
    BY <1>13, <2>3, ConnType, ConnReplaceType DEF RetryAfterStatus
  <2> QED
    BY <1>13, <2>2, <2>4 DEF RetryAfterStatus, Types
<1>14. ASSUME NEW r \in Requests, Accept(r) PROVE Types'
  <2>1. "relay" \in PCs
    BY PCNames DEF InHandle
  <2> QED
    BY <1>14, <2>1, GotoType DEF Accept, Types
<1>15. ASSUME NEW r \in Requests, RedoOk(r) PROVE Types'
  BY <1>15, RedoOkType
<1>16. ASSUME NEW r \in Requests, RedoErr(r) PROVE Types'
  <2>1. {"failed", "relay"} \subseteq PCs
    BY PCNames DEF InHandle
  <2>2. 2 \in Tries /\ conn[r][2] \in Conn /\ st[r] \in State
    BY DEF Tries, Types
  <2>3. conn' \in [Requests -> [Tries -> Conn]]
    BY <1>16, <2>2, ConnType, ConnUpdateType DEF RedoErr
  <2>4. st' \in [Requests -> State]
    <3>1. st[r].attempts + 1 \in Nat
      BY <2>2 DEF State
    <3>2. [st[r] EXCEPT !.attempts = st[r].attempts + 1] \in State
      BY <2>2, <3>1, SubState
    <3> QED
      BY <1>16, <3>2 DEF RedoErr, Types
  <2>5. pc' \in [Requests -> PCs]
    BY <1>16, <2>1, GotoType DEF RedoErr
  <2> QED
    BY <1>16, <2>3, <2>4, <2>5 DEF RedoErr, Types
<1>17. ASSUME NEW r \in Requests, RelayStream(r) PROVE Types'
  <2>1. "stream" \in PCs
    BY PCNames DEF InHandle
  <2>2. "stream" \in Outcomes
    BY DEF Outcomes
  <2>3. "stream" \in Bodies
    BY DEF Bodies
  <2>4. conn[r][cur[r]].resp.status \in Nat
    BY <1>17, RespStatus DEF RelayStream, RespHeld
  <2>5. st' \in [Requests -> State]
    BY <1>17, <2>2, OutcomeType DEF RelayStream
  <2>6. reply' \in [Requests -> Reply]
    BY <1>17, <2>3, <2>4, AnswerType DEF RelayStream
  <2> QED
    BY <1>17, <2>1, <2>5, <2>6, GotoType DEF RelayStream, Types
<1>18. ASSUME NEW r \in Requests, StreamEnds(r) PROVE Types'
  <2>1. "return" \in PCs
    BY PCNames
  <2>2. {"stream", "stream_stall", "client_gone", "stream_eof",
         "stream_broken"} \subseteq Outcomes
    BY DEF Outcomes
  <2>3. st' \in [Requests -> State]
    BY <1>18, <2>2, OutcomeType DEF StreamEnds
  <2>4. mx' \in Counters
    BY <1>18 DEF StreamEnds, Counters, Types
  <2> QED
    BY <1>18, <2>1, <2>3, <2>4, GotoType DEF StreamEnds, Types
<1>19. ASSUME NEW r \in Requests, RelayBuffered(r) PROVE Types'
  BY <1>19, RelayBufferedType DEF RelayBuffered, RespHeld
<1>20. ASSUME NEW r \in Requests, Return(r) PROVE Types'
  <2>1. "leave" \in PCs
    BY PCNames
  <2>2. conn' \in [Requests -> [Tries -> Conn]]
    BY <1>20, ConnType, ConnReplaceType, ZenonT(60) DEF Return, Types
  <2>3. mx' \in Counters
    <3>1. mx \in Counters /\ mx' = [mx EXCEPT !.requests = @ + 1]
      BY <1>20 DEF Return, Types
    <3> QED
      BY <3>1 DEF Counters
  <2> QED
    BY <1>20, <2>1, <2>2, <2>3, GotoType DEF Return, Types
<1>21. ASSUME NEW r \in Requests, CountOut(r) PROVE Types'
  BY <1>21, PCNames, GotoType DEF CountOut, Types
<1>22. ASSUME NEW r \in Requests, Release(r) PROVE Types'
  BY <1>22, PCNames, GotoType DEF Release, Types
<1>23. ASSUME NEW r \in Requests, Panic(r) PROVE Types'
  <2>1. "crashed" \in PCs
    BY PCNames
  <2>2. "gateway" \in Bodies
    BY DEF Bodies
  <2>3. 500 \in Nat
    OBVIOUS
  <2>4. reply' \in [Requests -> Reply]
    <3>1. CASE Answer(r, 500, "gateway")
      BY <2>2, <2>3, <3>1, AnswerType, Zenon
    <3> QED
      BY <1>23, <3>1 DEF Panic, Types
  <2>5. conn' \in [Requests -> [Tries -> Conn]]
    <3>1. CASE pc[r] \in {"relay", "stream"}
      <4>1. cur[r] \in Tries
        BY <3>1 DEF RespHeld
      <4>2. conn[r][cur[r]] \in Conn
        BY <4>1 DEF Types
      <4> QED
        BY <1>23, <3>1, <4>1, <4>2, ConnType, ConnUpdateType DEF Panic
    <3>2. CASE pc[r] \notin {"relay", "stream"}
      BY <1>23, <3>2 DEF Panic, Types
    <3> QED
      BY <3>1, <3>2
  <2>6. mx' \in Counters
    BY <1>23 DEF Panic, Counters, Types
  <2> QED
    BY <1>23, <2>1, <2>4, <2>5, <2>6, GotoType DEF Panic, Types
<1>24. ASSUME NEW r \in Requests, ClientLeaves(r) PROVE Types'
  BY <1>24 DEF ClientLeaves, Types
<1>25. ASSUME NEW r \in Requests, ServerCancels(r) PROVE Types'
  <2>1. conn' \in [Requests -> [Tries -> Conn]]
    BY <1>25, ConnType, ConnReplaceType DEF ServerCancels, Types
  <2> QED
    BY <1>25, <2>1 DEF ServerCancels, Types
<1> QED
  BY <1>1, <1>2, <1>3, <1>4, <1>5, <1>6, <1>7, <1>8, <1>9, <1>10, <1>11,
     <1>12, <1>13, <1>14, <1>15, <1>16, <1>17, <1>18, <1>19, <1>20, <1>21,
     <1>22, <1>23, <1>24, <1>25
  DEF Next, Step

LEMMA StepRespHeld ==
    ASSUME Types, RespHeld, [Next]_vars
    PROVE  RespHeld'
<1> SUFFICES ASSUME NEW q \in Requests, pc'[q] \in {"got", "relay", "stream"}
             PROVE  cur'[q] \in Tries
  BY DEF RespHeld
<1>1. CASE UNCHANGED vars
  BY <1>1 DEF vars, RespHeld
<1>2. ASSUME NEW r \in Requests, q # r,
             Step(r) \/ Admit(r) \/ Overload(r) \/ Panic(r)
             \/ ClientLeaves(r) \/ ServerCancels(r)
      PROVE  cur'[q] \in Tries
  <2>1. cur'[q] = cur[q] /\ pc'[q] = pc[q]
    BY <1>2, ZenonT(60) DEF Types, Step, Admit, Overload, Panic, ClientLeaves,
       ServerCancels, CountIn, Resolve, ReadBody, Rewrite, Build, DoOk, DoErr,
       RetryAfterError, GiveUp, RetryAfterStatus, Accept, RedoOk, RedoErr,
       RelayStream, StreamEnds, RelayBuffered, Return, CountOut, Release,
       Redo, Refuse, Goto
  <2> QED
    BY <2>1 DEF RespHeld
<1>3. CASE Step(q) \/ Admit(q) \/ Overload(q) \/ Panic(q)
           \/ ClientLeaves(q) \/ ServerCancels(q)
  BY <1>3, ZenonT(60) DEF Types, RespHeld, Tries, Step, Admit, Overload, Panic,
     ClientLeaves, ServerCancels, CountIn, Resolve, ReadBody, Rewrite, Build,
     DoOk, DoErr, RetryAfterError, GiveUp, RetryAfterStatus, Accept, RedoOk,
     RedoErr, RelayStream, StreamEnds, RelayBuffered, Return, CountOut,
     Release, Redo, Refuse, Goto
<1> QED
  BY <1>1, <1>2, <1>3 DEF Next

----------------------------------------------------------------------------
(* Counting                                                                *)

\* The requests that are at a place of the set S.
At(S) == {q \in Requests : pc[q] \in S}

CountInv ==
    /\ gauge = Cardinality(At(Counted))
    /\ tokens = IF MaxInflight > 0 THEN Cardinality(At(Holding)) ELSE 0
    /\ MaxInflight > 0 => tokens <= MaxInflight

LEMMA AtFinite == ASSUME NEW S
                  PROVE  IsFiniteSet(At(S)) /\ Cardinality(At(S)) \in Nat
<1>1. IsFiniteSet(At(S))
  BY GatewayAssumption, FS_Subset DEF At
<1> QED
  BY <1>1, FS_CardinalityType

LEMMA AtStays ==
    ASSUME Types, NEW r \in Requests, NEW l, Goto(r, l), NEW S,
           pc[r] \in S <=> l \in S
    PROVE  At(S)' = At(S)
  BY DEF At, Goto, Types

LEMMA AtEnters ==
    ASSUME Types, NEW r \in Requests, NEW l, Goto(r, l), NEW S,
           pc[r] \notin S, l \in S
    PROVE  Cardinality(At(S)') = Cardinality(At(S)) + 1
<1>1. At(S)' = At(S) \cup {r} /\ r \notin At(S)
  BY DEF At, Goto, Types
<1> QED
  BY <1>1, AtFinite, FS_AddElement

LEMMA AtLeaves ==
    ASSUME Types, NEW r \in Requests, NEW l, Goto(r, l), NEW S,
           pc[r] \in S, l \notin S
    PROVE  /\ Cardinality(At(S)') = Cardinality(At(S)) - 1
           /\ Cardinality(At(S)') \in Nat
<1>1. At(S)' = At(S) \ {r} /\ r \in At(S)
  BY DEF At, Goto, Types
<1>2. Cardinality(At(S)') = Cardinality(At(S)) - 1
  BY <1>1, AtFinite, FS_RemoveElement
<1>3. IsFiniteSet(At(S)')
  BY <1>1, AtFinite, FS_RemoveElement
<1> QED
  BY <1>2, <1>3, FS_CardinalityType

\* The steps of handle move a request about between the places at which it
\* is counted, and touch neither the gate nor the gauge.
LEMMA InsideStep ==
    ASSUME Types, NEW r \in Requests, Step(r), ~CountIn(r), ~CountOut(r),
           ~Release(r)
    PROVE  /\ pc[r] \in Counted
           /\ \E l \in Counted : Goto(r, l)
           /\ UNCHANGED <<tokens, gauge>>
<1> USE DEF Counted, InHandle
<1>1. CASE Resolve(r) \/ ReadBody(r) \/ Rewrite(r)
  BY <1>1 DEF Resolve, ReadBody, Rewrite, Refuse
<1>2. CASE Build(r) \/ DoOk(r) \/ DoErr(r) \/ GiveUp(r)
  BY <1>2 DEF Build, DoOk, DoErr, GiveUp, Refuse
<1>3. CASE RetryAfterError(r) \/ RetryAfterStatus(r) \/ Accept(r)
  BY <1>3 DEF RetryAfterError, RetryAfterStatus, Accept, Redo
<1>4. CASE RedoOk(r) \/ RedoErr(r)
  BY <1>4 DEF RedoOk, RedoErr
<1>5. CASE RelayStream(r) \/ StreamEnds(r) \/ RelayBuffered(r) \/ Return(r)
  BY <1>5 DEF RelayStream, StreamEnds, RelayBuffered, Return
<1> QED
  BY <1>1, <1>2, <1>3, <1>4, <1>5 DEF Step

LEMMA InitCount == Init => CountInv
<1> SUFFICES ASSUME Init PROVE CountInv
  OBVIOUS
<1>1. At(Counted) = {} /\ At(Holding) = {}
  BY DEF Init, At, Counted, Holding, InHandle
<1>2. Cardinality({}) = 0
  BY FS_EmptySet
<1>3. tokens = 0 /\ gauge = 0
  BY DEF Init
<1> QED
  BY <1>1, <1>2, <1>3, GatewayAssumption DEF CountInv

LEMMA StepCount ==
    ASSUME Types, CountInv, [Next]_vars
    PROVE  CountInv'
<1> USE GatewayAssumption DEF Token
<1>1. CASE UNCHANGED vars
  BY <1>1 DEF vars, CountInv, At
<1>2. ASSUME NEW r \in Requests, Admit(r) PROVE CountInv'
  <2>1. /\ Goto(r, "admitted")
        /\ pc[r] \notin Holding /\ "admitted" \in Holding
        /\ pc[r] \notin Counted /\ "admitted" \notin Counted
    BY <1>2 DEF Admit, Holding, Counted, InHandle
  <2>2. At(Counted)' = At(Counted)
    BY <2>1, AtStays
  <2>3. Cardinality(At(Holding)') = Cardinality(At(Holding)) + 1
    BY <2>1, AtEnters
  <2> QED
    BY <1>2, <2>2, <2>3, AtFinite DEF Admit, CountInv
<1>3. ASSUME NEW r \in Requests, Overload(r) PROVE CountInv'
  <2>1. /\ Goto(r, "rejected")
        /\ pc[r] \notin Holding /\ "rejected" \notin Holding
        /\ pc[r] \notin Counted /\ "rejected" \notin Counted
    BY <1>3 DEF Overload, Holding, Counted, InHandle
  <2>2. At(Counted)' = At(Counted) /\ At(Holding)' = At(Holding)
    BY <2>1, AtStays
  <2> QED
    BY <1>3, <2>2 DEF Overload, CountInv
<1>4. ASSUME NEW r \in Requests, CountIn(r) PROVE CountInv'
  <2>1. /\ Goto(r, "resolve")
        /\ pc[r] \in Holding /\ "resolve" \in Holding
        /\ pc[r] \notin Counted /\ "resolve" \in Counted
    BY <1>4 DEF CountIn, Holding, Counted, InHandle
  <2>2. At(Holding)' = At(Holding)
    BY <2>1, AtStays
  <2>3. Cardinality(At(Counted)') = Cardinality(At(Counted)) + 1
    BY <2>1, AtEnters
  <2> QED
    BY <1>4, <2>2, <2>3 DEF CountIn, CountInv
<1>5. ASSUME NEW r \in Requests, CountOut(r) PROVE CountInv'
  <2>1. /\ Goto(r, "release")
        /\ pc[r] \in Holding /\ "release" \in Holding
        /\ pc[r] \in Counted /\ "release" \notin Counted
    BY <1>5 DEF CountOut, Holding, Counted, InHandle
  <2>2. At(Holding)' = At(Holding)
    BY <2>1, AtStays
  <2>3. Cardinality(At(Counted)') = Cardinality(At(Counted)) - 1
    BY <2>1, AtLeaves
  <2> QED
    BY <1>5, <2>2, <2>3 DEF CountOut, CountInv
<1>6. ASSUME NEW r \in Requests, Release(r) PROVE CountInv'
  <2>1. /\ Goto(r, "done")
        /\ pc[r] \in Holding /\ "done" \notin Holding
        /\ pc[r] \notin Counted /\ "done" \notin Counted
    BY <1>6 DEF Release, Holding, Counted, InHandle
  <2>2. At(Counted)' = At(Counted)
    BY <2>1, AtStays
  <2>3. Cardinality(At(Holding)') = Cardinality(At(Holding)) - 1
    BY <2>1, AtLeaves
  <2> QED
    BY <1>6, <2>2, <2>3, AtFinite DEF Release, CountInv
<1>7. ASSUME NEW r \in Requests, Panic(r) PROVE CountInv'
  <2>1. /\ Goto(r, "crashed")
        /\ pc[r] \in Holding /\ "crashed" \notin Holding
        /\ pc[r] \in Counted /\ "crashed" \notin Counted
    BY <1>7 DEF Panic, Holding, Counted, InHandle
  <2>2. /\ Cardinality(At(Holding)') = Cardinality(At(Holding)) - 1
        /\ Cardinality(At(Counted)') = Cardinality(At(Counted)) - 1
    BY <2>1, AtLeaves
  <2> QED
    BY <1>7, <2>2, AtFinite DEF Panic, CountInv
<1>8. ASSUME NEW r \in Requests, ClientLeaves(r) \/ ServerCancels(r)
      PROVE  CountInv'
  BY <1>8 DEF ClientLeaves, ServerCancels, CountInv, At
<1>9. ASSUME NEW r \in Requests, Step(r), ~CountIn(r), ~CountOut(r),
             ~Release(r)
      PROVE  CountInv'
  <2>1. PICK l \in Counted : Goto(r, l)
    BY <1>9, InsideStep
  <2>2. pc[r] \in Counted /\ UNCHANGED <<tokens, gauge>>
    BY <1>9, InsideStep
  <2>3. At(Counted)' = At(Counted)
    BY <2>1, <2>2, AtStays
  <2>4. pc[r] \in Holding /\ l \in Holding
    BY <2>1, <2>2 DEF Holding
  <2>5. At(Holding)' = At(Holding)
    BY <2>1, <2>4, AtStays
  <2> QED
    BY <2>2, <2>3, <2>5 DEF CountInv
<1> QED
  BY <1>1, <1>2, <1>3, <1>4, <1>5, <1>6, <1>7, <1>8, <1>9 DEF Next

Inductive == Types /\ RespHeld /\ CountInv

LEMMA Invariance == Safety => []Inductive
<1>1. Init => Inductive
  BY InitTypes, InitCount DEF Inductive
<1>2. Inductive /\ [Next]_vars => Inductive'
  BY StepTypes, StepRespHeld, StepCount DEF Inductive
<1> QED
  BY <1>1, <1>2, PTL DEF Safety

\* Every variable keeps its type; in particular the gauge and the number of
\* tokens never go below zero, whatever way a request ends.
THEOREM TypeCorrect == Spec => []TypeOK
<1>1. Inductive => TypeOK
  <2> SUFFICES ASSUME Inductive PROVE TypeOK
    OBVIOUS
  <2>1. tokens \in Nat /\ gauge \in Nat
    BY AtFinite DEF Inductive, CountInv
  <2> QED
    BY <2>1 DEF Inductive, Types, TypeOK
<1> QED
  BY <1>1, Invariance, PTL DEF Spec

\* The tokens in the gate (gate.go) are those of the requests that hold one:
\* none is lost or returned twice, on any path, and MAX_INFLIGHT is kept; and
\* the in-flight gauge is exact at any time (gateway.go:230-231).
THEOREM CountsStayExact == Spec => []CountsAreExact
<1>1. Inductive => TokensMatchHolders
  BY DEF Inductive, CountInv, TokensMatchHolders, Holders, At
<1>2. Inductive => GaugeMatchesCounted
  BY DEF Inductive, CountInv, GaugeMatchesCounted, At
<1> QED
  BY <1>1, <1>2, Invariance, PTL DEF Spec, CountsAreExact

----------------------------------------------------------------------------
(* The gate implements Admission                                           *)

Served == {q \in Requests : pc[q] \in {"done", "crashed"}}
TurnedAway == {q \in Requests : pc[q] = "rejected"}

LEMMA InitAdmission == Init => Gate!AInit
  BY DEF Init, Gate!AInit, Holders, Holding, Counted, InHandle

LEMMA SameCardinality == ASSUME NEW S
                         PROVE  Gate!Cardinality(S) = Cardinality(S)
  BY DEF Gate!Cardinality, Cardinality

LEMMA StepAdmission ==
    ASSUME Types, CountInv, [Next]_vars
    PROVE  [Gate!ANext]_(Gate!avars)
<1> DEFINE same == UNCHANGED <<Holders, Served, TurnedAway>>
<1>0. ASSUME same PROVE UNCHANGED Gate!avars
  BY <1>0 DEF Gate!avars, Served, TurnedAway
<1>1. CASE UNCHANGED vars
  BY <1>1, <1>0 DEF vars, Holders, Served, TurnedAway
<1>2. ASSUME NEW r \in Requests, Admit(r) PROVE Gate!Enter(r)
  <2>1. Goto(r, "admitted") /\ pc[r] = "idle"
    BY <1>2 DEF Admit
  <2>2. Holders' = Holders \cup {r} /\ UNCHANGED <<Served, TurnedAway>>
    BY <2>1 DEF Goto, Types, Holders, Served, TurnedAway, Holding, Counted,
       InHandle
  <2>3. r \notin Holders \cup Served \cup TurnedAway
    BY <2>1 DEF Holders, Served, TurnedAway, Holding, Counted, InHandle
  <2>4. MaxInflight = 0 \/ Cardinality(Holders) < MaxInflight
    BY <1>2, GatewayAssumption DEF Admit, CountInv, Holders, At
  <2>5. Gate!Fresh(r)
    BY <2>3 DEF Gate!Fresh, Served, TurnedAway
  <2> QED
    BY <2>2, <2>4, <2>5, SameCardinality DEF Gate!Enter, Served, TurnedAway
<1>3. ASSUME NEW r \in Requests, Overload(r) PROVE Gate!TurnAway(r)
  <2>1. Goto(r, "rejected") /\ pc[r] = "idle"
    BY <1>3 DEF Overload
  <2>2. TurnedAway' = TurnedAway \cup {r} /\ UNCHANGED <<Holders, Served>>
    BY <2>1 DEF Goto, Types, Holders, Served, TurnedAway, Holding, Counted,
       InHandle
  <2>3. r \notin Holders \cup Served \cup TurnedAway
    BY <2>1 DEF Holders, Served, TurnedAway, Holding, Counted, InHandle
  <2>4. MaxInflight > 0 /\ Cardinality(Holders) = MaxInflight
    BY <1>3 DEF Overload, CountInv, Holders, At
  <2>5. Gate!Fresh(r)
    BY <2>3 DEF Gate!Fresh, Served, TurnedAway
  <2> QED
    BY <2>2, <2>4, <2>5, SameCardinality DEF Gate!TurnAway, Served, TurnedAway
<1>4. ASSUME NEW r \in Requests, Release(r) \/ Panic(r) PROVE Gate!Leave(r)
  <2>1. /\ pc[r] \in Holding
        /\ Goto(r, "done") \/ Goto(r, "crashed")
    BY <1>4 DEF Release, Panic, Holding, Counted
  <2>2. /\ Holders' = Holders \ {r}
        /\ Served' = Served \cup {r}
        /\ UNCHANGED TurnedAway
        /\ r \in Holders
    BY <2>1 DEF Goto, Types, Holders, Served, TurnedAway, Holding, Counted,
       InHandle
  <2> QED
    BY <2>2 DEF Gate!Leave, Served, TurnedAway
<1>5. ASSUME NEW r \in Requests, ClientLeaves(r) \/ ServerCancels(r)
      PROVE  same
  BY <1>5 DEF ClientLeaves, ServerCancels, Holders, Served, TurnedAway
<1>6. ASSUME NEW r \in Requests, Step(r), ~Release(r)
      PROVE  same
  <2>1. PICK l \in Holding : Goto(r, l)
    <3>1. CASE CountIn(r) \/ CountOut(r)
      BY <3>1 DEF CountIn, CountOut, Holding, Counted, InHandle
    <3> QED
      BY <1>6, <3>1, InsideStep DEF Holding
  <2>2. pc[r] \in Holding
    <3>1. CASE CountIn(r) \/ CountOut(r)
      BY <3>1 DEF CountIn, CountOut, Holding, Counted, InHandle
    <3> QED
      BY <1>6, <3>1, InsideStep DEF Holding
  <2> QED
    BY <2>1, <2>2 DEF Goto, Types, Holders, Served, TurnedAway, Holding,
       Counted, InHandle
<1> QED
  BY <1>0, <1>1, <1>2, <1>3, <1>4, <1>5, <1>6 DEF Next, Gate!ANext

\* Whatever requests do, the gate lets them in, turns them away and lets them
\* go as Admission says (its fairness apart, which is checked and not proved).
THEOREM GateImplementsAdmission == Spec => Gate!ASafety
<1>1. Inductive /\ [Next]_vars => [Gate!ANext]_(Gate!avars)
  BY StepAdmission DEF Inductive
<1> QED
  BY <1>1, InitAdmission, Invariance, PTL DEF Spec, Safety, Gate!ASafety

----------------------------------------------------------------------------
(* One reply                                                               *)

Silent == {"idle", "admitted"} \cup (InHandle \ {"stream"})

ReplyInv == \A r \in Requests :
    reply[r].writes = IF pc[r] \in Silent THEN 0 ELSE 1

LEMMA AnswerOnce ==
    ASSUME Types, NEW r \in Requests, NEW code, NEW b, Answer(r, code, b),
           reply[r].writes = 0
    PROVE  /\ reply'[r].writes = 1
           /\ \A q \in Requests \ {r} : reply'[q] = reply[q]
  BY DEF Answer, Types

LEMMA StepReply ==
    ASSUME Types, ReplyInv, [Next]_vars
    PROVE  ReplyInv'
<1> SUFFICES ASSUME NEW q \in Requests
             PROVE  reply'[q].writes = IF pc'[q] \in Silent THEN 0 ELSE 1
  BY DEF ReplyInv
<1> DEFINE ok == reply'[q].writes = IF pc'[q] \in Silent THEN 0 ELSE 1
<1>a. ASSUME NEW r \in Requests, pc[r] \in Silent,
             NEW code, NEW b, Answer(r, code, b),
             NEW l \in PCs \ Silent, Goto(r, l)
      PROVE  ok
  <2>1. reply[r].writes = 0
    BY <1>a DEF ReplyInv
  <2> QED
    BY <1>a, <2>1, AnswerOnce DEF ReplyInv, Goto, Types
<1>b. ASSUME NEW r \in Requests, NEW l \in PCs, Goto(r, l), UNCHANGED reply,
             pc[r] \in Silent <=> l \in Silent
      PROVE  ok
  BY <1>b DEF ReplyInv, Goto, Types
<1>c. ASSUME NEW r \in Requests, NEW o, NEW code, Refuse(r, o, code),
             pc[r] \in Silent
      PROVE  ok
  <2>1. "return" \in PCs \ Silent
    BY PCNames DEF Silent, InHandle
  <2> QED
    BY <1>a, <1>c, <2>1 DEF Refuse
<1>1. CASE UNCHANGED vars
  BY <1>1 DEF vars, ReplyInv
<1>2. ASSUME NEW r \in Requests, Admit(r) PROVE ok
  <2>1. "admitted" \in PCs /\ pc[r] \in Silent /\ "admitted" \in Silent
    BY <1>2, PCNames DEF Admit, Silent
  <2> QED
    BY <1>2, <1>b, <2>1 DEF Admit
<1>3. ASSUME NEW r \in Requests, Overload(r) PROVE ok
  <2>1. "rejected" \in PCs \ Silent /\ pc[r] \in Silent
    BY <1>3, PCNames DEF Overload, Silent, InHandle
  <2> QED
    BY <1>3, <1>a, <2>1 DEF Overload
<1>4. ASSUME NEW r \in Requests, CountIn(r) PROVE ok
  <2>1. "resolve" \in PCs /\ "resolve" \in Silent /\ pc[r] \in Silent
    BY <1>4, PCNames DEF CountIn, Silent, InHandle
  <2> QED
    BY <1>4, <1>b, <2>1 DEF CountIn
<1>5. ASSUME NEW r \in Requests, Resolve(r) \/ ReadBody(r) PROVE ok
  <2>1. /\ {"readBody", "rewrite", "build"} \subseteq PCs \cap Silent
        /\ pc[r] \in Silent
    BY <1>5, PCNames DEF Resolve, ReadBody, Silent, InHandle
  <2> QED
    BY <1>5, <1>b, <1>c, <2>1 DEF Resolve, ReadBody
<1>6. ASSUME NEW r \in Requests, Rewrite(r) PROVE ok
  <2>1. /\ "build" \in PCs \cap Silent /\ "return" \in PCs \ Silent
        /\ pc[r] \in Silent
    BY <1>6, PCNames DEF Rewrite, Silent, InHandle
  <2> QED
    BY <1>6, <1>a, <1>b, <2>1 DEF Rewrite
<1>7. ASSUME NEW r \in Requests, Build(r) \/ GiveUp(r) PROVE ok
  <2>1. "do" \in PCs \cap Silent /\ pc[r] \in Silent
    BY <1>7, PCNames DEF Build, GiveUp, Silent, InHandle
  <2> QED
    BY <1>7, <1>b, <1>c, <2>1 DEF Build, GiveUp
<1>8. ASSUME NEW r \in Requests,
             DoOk(r) \/ DoErr(r) \/ Accept(r) \/ RedoOk(r) \/ RedoErr(r)
      PROVE ok
  <2>1. {"got", "err", "relay", "failed"} \subseteq PCs \cap Silent
        /\ pc[r] \in Silent
    BY <1>8, PCNames DEF DoOk, DoErr, Accept, RedoOk, RedoErr, Silent,
       InHandle
  <2> QED
    BY <1>8, <1>b, <2>1 DEF DoOk, DoErr, Accept, RedoOk, RedoErr
<1>9. ASSUME NEW r \in Requests, RetryAfterError(r) \/ RetryAfterStatus(r)
      PROVE ok
  <2>1. {"redo", "relay", "failed"} \subseteq PCs \cap Silent
        /\ pc[r] \in Silent
    BY <1>9, PCNames DEF RetryAfterError, RetryAfterStatus, Silent, InHandle
  <2> QED
    BY <1>9, <1>b, <2>1 DEF RetryAfterError, RetryAfterStatus, Redo
<1>10. ASSUME NEW r \in Requests, RelayStream(r) \/ RelayBuffered(r) PROVE ok
  <2>1. {"stream", "return"} \subseteq PCs \ Silent /\ pc[r] \in Silent
    BY <1>10, PCNames DEF RelayStream, RelayBuffered, Silent, InHandle
  <2> QED
    BY <1>10, <1>a, <2>1 DEF RelayStream, RelayBuffered
<1>11. ASSUME NEW r \in Requests,
              StreamEnds(r) \/ Return(r) \/ CountOut(r) \/ Release(r)
       PROVE ok
  <2>1. {"return", "leave", "release", "done"} \subseteq PCs \ Silent
        /\ pc[r] \notin Silent
    BY <1>11, PCNames DEF StreamEnds, Return, CountOut, Release, Silent,
       InHandle
  <2> QED
    BY <1>11, <1>b, <2>1 DEF StreamEnds, Return, CountOut, Release
<1>12. ASSUME NEW r \in Requests, Panic(r) PROVE ok
  <2>1. "crashed" \in PCs \ Silent
    BY PCNames DEF Silent, InHandle
  <2>2. CASE pc[r] \in Silent
    BY <1>12, <1>a, <2>1, <2>2 DEF Panic, ReplyInv
  <2>3. CASE pc[r] \notin Silent
    BY <1>12, <1>b, <2>1, <2>3 DEF Panic, ReplyInv
  <2> QED
    BY <2>2, <2>3
<1>13. ASSUME NEW r \in Requests, ClientLeaves(r) \/ ServerCancels(r)
       PROVE ok
  BY <1>13 DEF ClientLeaves, ServerCancels, ReplyInv
<1> QED
  BY <1>1, <1>2, <1>3, <1>4, <1>5, <1>6, <1>7, <1>8, <1>9, <1>10, <1>11,
     <1>12, <1>13
  DEF Next, Step

LEMMA ReplyInvariance == Safety => [](Types /\ ReplyInv)
<1>1. ASSUME Init PROVE ReplyInv
  <2> SUFFICES ASSUME NEW r \in Requests
               PROVE  reply[r].writes = 0 /\ pc[r] \in Silent
    BY DEF ReplyInv
  <2>1. pc[r] = "idle"
    BY <1>1 DEF Init
  <2>2. reply[r] = [writes |-> 0, status |-> 0, body |-> "none"]
    BY <1>1 DEF Init
  <2> QED
    BY <2>1, <2>2 DEF Silent
<1>2. Inductive /\ ReplyInv /\ [Next]_vars => ReplyInv'
  BY StepReply DEF Inductive
<1>3. Inductive => Types
  BY DEF Inductive
<1> QED
  BY <1>1, <1>2, <1>3, Invariance, PTL DEF Safety

\* No path writes two status lines, and no request ends without an answer,
\* whether handle returns, refuses early or panics (server.go:137-174).
THEOREM OneReplyEach == Spec => []OneReply
<1>1. Types /\ ReplyInv => OneReply
  BY DEF ReplyInv, OneReply, Silent, Ended, InHandle
<1> QED
  BY <1>1, ReplyInvariance, PTL DEF Spec

----------------------------------------------------------------------------
(* The upstream attempts                                                   *)

\* The phases of the two attempts and the value of resp at each place of
\* handle: the strengthening that ClosedOnReturn and NoCallAfterReply need.
Shape(at, c, k) ==
    LET p1 == c[1].phase  p2 == c[2].phase
    IN  \/ at \in {"idle", "admitted", "resolve", "readBody", "rewrite",
                   "build", "rejected"}
           /\ k = 0 /\ p1 = "none" /\ p2 = "none"
        \/ at = "do" /\ k = 0 /\ p1 = "sent" /\ p2 = "none"
        \/ at = "err" /\ k = 0 /\ p1 = "failed" /\ p2 = "none"
        \/ at = "got" /\ k = 1 /\ p1 = "open" /\ p2 = "none"
        \/ at = "redo" /\ k = 0 /\ p1 = "failed" /\ p2 = "sent"
        \/ at = "redo" /\ k = 1 /\ p1 = "open" /\ p2 = "sent"
        \/ at = "failed" /\ k = 0 /\ p1 = "failed" /\ p2 \in {"none", "failed"}
        \/ at \in {"relay", "stream", "return"}
           /\ k = 1 /\ p1 = "open" /\ p2 \in {"none", "failed"}
        \/ at \in {"relay", "stream", "return"}
           /\ k = 2 /\ p1 \in {"failed", "closed"} /\ p2 = "open"
        \/ at = "return"
           /\ k = 0 /\ p1 \in {"none", "failed"} /\ p2 \in {"none", "failed"}
        \/ at \in {"leave", "release", "done"}
           /\ p1 \notin {"sent", "open"} /\ p2 \notin {"sent", "open"}
        \/ at = "crashed"

AttemptInv == \A r \in Requests :
    /\ Shape(pc[r], conn[r], cur[r])
    /\ \A i \in Tries : conn[r][i].phase \in {"failed", "closed"} =>
                            conn[r][i].cancelled

LEMMA StepAttempt ==
    ASSUME Types, AttemptInv, [Next]_vars
    PROVE  AttemptInv'
<1> DEFINE ok(q) == /\ Shape(pc'[q], conn'[q], cur'[q])
                    /\ \A i \in Tries :
                          conn'[q][i].phase \in {"failed", "closed"} =>
                              conn'[q][i].cancelled
<1> SUFFICES ASSUME NEW q \in Requests PROVE ok(q)
  BY DEF AttemptInv
<1> HIDE DEF ok
<1>0. ASSUME pc'[q] = pc[q], conn'[q] = conn[q], cur'[q] = cur[q]
      PROVE  ok(q)
  BY <1>0 DEF AttemptInv, ok
<1>1. CASE UNCHANGED vars
  BY <1>0, <1>1 DEF vars
<1>2. ASSUME NEW r \in Requests, q # r,
             Step(r) \/ Admit(r) \/ Overload(r) \/ Panic(r)
             \/ ClientLeaves(r) \/ ServerCancels(r)
      PROVE  ok(q)
  <2>1. pc'[q] = pc[q] /\ conn'[q] = conn[q] /\ cur'[q] = cur[q]
    BY <1>2, ZenonT(60) DEF Types, Step, Admit, Overload, Panic, ClientLeaves,
       ServerCancels, CountIn, Resolve, ReadBody, Rewrite, Build, DoOk, DoErr,
       RetryAfterError, GiveUp, RetryAfterStatus, Accept, RedoOk, RedoErr,
       RelayStream, StreamEnds, RelayBuffered, Return, CountOut, Release,
       Redo, Refuse, Goto, Send
  <2> QED
    BY <1>0, <2>1
<1> DEFINE old == /\ Shape(pc[q], conn[q], cur[q])
                  /\ \A i \in Tries :
                        conn[q][i].phase \in {"failed", "closed"} =>
                            conn[q][i].cancelled
<1>3. old
  BY DEF AttemptInv
<1> HIDE DEF old
<1>4. conn[q] \in [Tries -> Conn] /\ Tries = {1, 2}
  BY DEF Types, Tries
<1>5. CASE /\ Admit(q) \/ Overload(q) \/ CountIn(q) \/ Resolve(q)
              \/ ReadBody(q) \/ Rewrite(q) \/ GiveUp(q) \/ Accept(q)
              \/ RelayStream(q) \/ StreamEnds(q) \/ RelayBuffered(q)
              \/ CountOut(q) \/ Release(q) \/ ClientLeaves(q)
  <2>1. conn' = conn /\ cur' = cur
    BY <1>5 DEF Admit, Overload, CountIn, Resolve, ReadBody, Rewrite, GiveUp,
       Accept, RelayStream, StreamEnds, RelayBuffered, CountOut, Release,
       ClientLeaves
  <2>2. Shape(pc'[q], conn[q], cur[q])
    <3>1. CASE Admit(q) \/ Overload(q) \/ CountIn(q)
      BY <1>3, <3>1 DEF old, Shape, Types, Admit, Overload, CountIn, Goto
    <3>2. CASE Resolve(q) \/ ReadBody(q) \/ Rewrite(q)
      BY <1>3, <3>2 DEF old, Shape, Types, Resolve, ReadBody, Rewrite, Refuse,
         Goto
    <3>3. CASE GiveUp(q) \/ Accept(q)
      BY <1>3, <3>3 DEF old, Shape, Types, GiveUp, Accept, Refuse, Goto
    <3>4. CASE RelayStream(q) \/ StreamEnds(q) \/ RelayBuffered(q)
      BY <1>3, <3>4 DEF old, Shape, Types, RelayStream, StreamEnds,
         RelayBuffered, Goto
    <3>5. CASE CountOut(q) \/ Release(q) \/ ClientLeaves(q)
      BY <1>3, <3>5 DEF old, Shape, Types, CountOut, Release, ClientLeaves,
         Goto
    <3> QED
      BY <1>5, <3>1, <3>2, <3>3, <3>4, <3>5
  <2> QED
    BY <1>3, <2>1, <2>2 DEF ok, old
<1>6. CASE Build(q)
  <2>1. pc[q] = "build" /\ cur'[q] = 0 /\ conn[q][2].phase = "none"
        /\ conn[q][1].phase = "none"
    BY <1>3, <1>6 DEF old, Shape, Build
  <2>2. CASE pc'[q] = "return" /\ conn' = conn
    BY <2>1, <2>2, <1>3 DEF old, ok, Shape
  <2>3. CASE Send(q, 1, st[q].up) /\ Goto(q, "do")
    <3>1. /\ conn'[q][1].phase = "sent"
          /\ conn'[q][2] = conn[q][2]
      BY <1>4, <2>3 DEF Send, NoConn, Types
    <3>2. pc'[q] = "do"
      BY <2>3 DEF Goto, Types
    <3> QED
      BY <1>4, <2>1, <3>1, <3>2 DEF ok, Shape
  <2> QED
    BY <1>6, <2>2, <2>3 DEF Build, Refuse, Goto, Types
<1>7. CASE DoOk(q)
  BY <1>3, <1>4, <1>7 DEF old, ok, Shape, Types, DoOk, Opened, Goto, Conn
<1>8. CASE DoErr(q)
  BY <1>3, <1>4, <1>8 DEF old, ok, Shape, Types, DoErr, Failed, Goto, Conn
<1>9. CASE RetryAfterError(q)
  <2>1. /\ pc[q] = "err" /\ cur'[q] = 0
        /\ conn[q][1].phase = "failed" /\ conn[q][2].phase = "none"
    BY <1>3, <1>9 DEF old, Shape, RetryAfterError
  <2>2. CASE pc'[q] = "failed" /\ conn' = conn
    BY <2>1, <2>2, <1>3 DEF old, ok, Shape
  <2>3. CASE Send(q, 2, plan[q].model) /\ Goto(q, "redo")
    <3>1. /\ conn'[q][2].phase = "sent"
          /\ conn'[q][1] = conn[q][1]
      BY <1>4, <2>3 DEF Send, NoConn, Types
    <3>2. pc'[q] = "redo"
      BY <2>3 DEF Goto, Types
    <3> QED
      BY <1>3, <1>4, <2>1, <3>1, <3>2 DEF ok, old, Shape
  <2> QED
    BY <1>9, <2>2, <2>3 DEF RetryAfterError, Redo, Goto, Types
<1>10. CASE RetryAfterStatus(q)
  BY <1>3, <1>4, <1>10 DEF old, ok, Shape, Types, RetryAfterStatus, Redo,
     Goto, NoConn, Conn
<1>11. CASE RedoOk(q)
  BY <1>3, <1>4, <1>11 DEF old, ok, Shape, Types, RedoOk, Opened, Closed,
     Goto, Conn
<1>12. CASE RedoErr(q)
  BY <1>3, <1>4, <1>12 DEF old, ok, Shape, Types, RedoErr, Failed, Goto, Conn
<1>13. CASE Return(q)
  BY <1>3, <1>4, <1>13 DEF old, ok, Shape, Types, Return, Closed, Goto, Conn
<1>14. CASE Panic(q)
  BY <1>3, <1>4, <1>14 DEF old, ok, Shape, Types, Panic, Closed, Goto, Conn
<1>15. CASE ServerCancels(q)
  BY <1>3, <1>4, <1>15 DEF old, ok, Shape, Types, ServerCancels, Closed, Conn,
     Ended
<1> QED
  BY <1>1, <1>2, <1>5, <1>6, <1>7, <1>8, <1>9, <1>10, <1>11, <1>12, <1>13,
     <1>14, <1>15
  DEF Next, Step

LEMMA AttemptInvariance == Safety => [](Types /\ AttemptInv)
<1>1. ASSUME Init PROVE AttemptInv
  <2> SUFFICES ASSUME NEW r \in Requests
               PROVE  /\ Shape(pc[r], conn[r], cur[r])
                      /\ \A i \in Tries : conn[r][i].phase = "none"
    BY DEF AttemptInv
  <2>1. pc[r] = "idle" /\ cur[r] = 0
    BY <1>1 DEF Init
  <2>2. \A i \in Tries : conn[r][i].phase = "none"
    BY <1>1 DEF Init, NoConn
  <2> QED
    BY <2>1, <2>2 DEF Shape, Tries
<1>2. Inductive /\ AttemptInv /\ [Next]_vars => AttemptInv'
  BY StepAttempt DEF Inductive
<1>3. Inductive => Types
  BY DEF Inductive
<1> QED
  BY <1>1, <1>2, <1>3, Invariance, PTL DEF Safety

\* A handler that returns has closed every response and cancelled every
\* attempt it made, the response replaced by a failover included
\* (gateway.go:379-381, 398-399).
THEOREM NothingLeftOpen == Spec => []ClosedOnReturn
<1>1. Types /\ AttemptInv => ClosedOnReturn
  <2> SUFFICES ASSUME Types, AttemptInv, NEW r \in Requests,
                      pc[r] \in {"leave", "release", "done"},
                      NEW i \in Tries, conn[r][i].phase # "none"
               PROVE  conn[r][i].phase \in {"failed", "closed"}
                      /\ conn[r][i].cancelled
    BY DEF ClosedOnReturn
  <2>1. conn[r][i].phase \notin {"sent", "open"}
    BY DEF AttemptInv, Shape, Tries
  <2>2. conn[r][i].phase \in Phases
    BY DEF Types, Conn
  <2> QED
    BY <2>1, <2>2 DEF AttemptInv, Phases
<1> QED
  BY <1>1, AttemptInvariance, PTL DEF Spec

\* Upstream calls are only started while the client has not been sent a byte
\* (failover.go:164-165).
THEOREM NeverSpliced == Spec => NoCallAfterReply
<1>1. ASSUME Types, AttemptInv, ReplyInv, Next, NEW q \in Requests,
             NEW i \in Tries,
             conn[q][i].phase = "none", conn'[q][i].phase # "none"
      PROVE  reply'[q].writes = 0
  <2>1. Build(q) \/ RetryAfterError(q) \/ RetryAfterStatus(q)
    <3>1. conn'[q] # conn[q]
      BY <1>1
    <3>2. PICK r \in Requests :
             Step(r) \/ Admit(r) \/ Overload(r) \/ Panic(r)
             \/ ClientLeaves(r) \/ ServerCancels(r)
      BY <1>1 DEF Next
    <3>3. r = q
      BY <1>1, <3>1, <3>2 DEF Types, Step, Admit, Overload, Panic,
         ClientLeaves, ServerCancels, CountIn, Resolve, ReadBody, Rewrite,
         Build, DoOk, DoErr, RetryAfterError, GiveUp, RetryAfterStatus, Accept,
         RedoOk, RedoErr, RelayStream, StreamEnds, RelayBuffered, Return,
         CountOut, Release, Redo, Refuse, Goto, Send
    <3>4. \/ Build(q) \/ DoOk(q) \/ DoErr(q) \/ RetryAfterError(q)
          \/ RetryAfterStatus(q) \/ RedoOk(q) \/ RedoErr(q) \/ Return(q)
          \/ Panic(q) \/ ServerCancels(q)
      BY <3>1, <3>2, <3>3 DEF Step, Admit, Overload, ClientLeaves, CountIn,
         Resolve, ReadBody, Rewrite, GiveUp, Accept, RelayStream, StreamEnds,
         RelayBuffered, CountOut, Release
    <3>5. Shape(pc[q], conn[q], cur[q]) /\ conn[q] \in [Tries -> Conn]
      BY <1>1 DEF AttemptInv, Types
    <3>6. ~DoOk(q) /\ ~DoErr(q)
      BY <1>1, <3>5 DEF Shape, DoOk, DoErr, Tries, Types
    <3>7. ~RedoOk(q) /\ ~RedoErr(q)
      BY <1>1, <3>5 DEF Shape, RedoOk, RedoErr, Tries, Types
    <3>8. ~Return(q) /\ ~Panic(q)
      BY <1>1, <3>5 DEF Shape, Return, Panic, Tries, Types
    <3>9. ~ServerCancels(q)
      BY <1>1, <3>5 DEF ServerCancels, Types
    <3> QED
      BY <3>4, <3>6, <3>7, <3>8, <3>9
  <2>2. pc[q] \in Silent
    BY <2>1 DEF Build, RetryAfterError, RetryAfterStatus, Silent, InHandle
  <2>3. CASE UNCHANGED reply
    BY <1>1, <2>2, <2>3 DEF ReplyInv
  <2>4. CASE ~UNCHANGED reply
    <3>1. UNCHANGED conn
      BY <2>1, <2>4 DEF Build, RetryAfterError, RetryAfterStatus
    <3> QED
      BY <1>1, <3>1
  <2> QED
    BY <2>3, <2>4
<1>2. Types /\ AttemptInv /\ ReplyInv /\ [Next]_vars =>
         [\A r \in Requests : \A i \in Tries :
             conn[r][i].phase = "none" /\ conn'[r][i].phase # "none" =>
                 reply'[r].writes = 0]_vars
  BY <1>1
<1> QED
  BY <1>2, AttemptInvariance, ReplyInvariance, PTL
  DEF Spec, Safety, NoCallAfterReply

----------------------------------------------------------------------------
(* What becomes of a request: where it is sent, whose names are taken out  *)
(* of the answer, and that it is counted once                              *)

\* Where a request can only get to through Resolve.
Resolved == InHandle \ {"resolve"}

\* What the goroutine of another request does.
Does(r) == Step(r) \/ Admit(r) \/ Overload(r) \/ Panic(r)
           \/ ClientLeaves(r) \/ ServerCancels(r)

LEMMA OthersStay ==
    ASSUME Types, NEW q \in Requests, NEW r \in Requests, q # r, Does(r)
    PROVE  /\ pc'[q] = pc[q] /\ req'[q] = req[q] /\ st'[q] = st[q]
           /\ plan'[q] = plan[q] /\ conn'[q] = conn[q] /\ cur'[q] = cur[q]
           /\ reply'[q] = reply[q]
           /\ q \in gone' <=> q \in gone
<1>1. CASE Admit(r) \/ Overload(r) \/ Panic(r) \/ ClientLeaves(r)
           \/ ServerCancels(r)
  BY <1>1 DEF Types, Admit, Overload, Panic, ClientLeaves, ServerCancels,
     Goto, Answer
<1>2. CASE CountIn(r) \/ Resolve(r) \/ ReadBody(r) \/ Rewrite(r) \/ Build(r)
  BY <1>2, ZenonT(60) DEF Types, CountIn, Resolve, ReadBody, Rewrite, Build, Refuse, Send,
     Goto, Answer
<1>3. CASE DoOk(r) \/ DoErr(r) \/ RetryAfterError(r) \/ GiveUp(r)
           \/ RetryAfterStatus(r) \/ Accept(r)
  BY <1>3, ZenonT(60) DEF Types, DoOk, DoErr, RetryAfterError, GiveUp, RetryAfterStatus,
     Accept, Redo, Refuse, Send, Goto, Answer
<1>4. CASE RedoOk(r) \/ RedoErr(r) \/ RelayStream(r) \/ StreamEnds(r)
           \/ RelayBuffered(r) \/ Return(r) \/ CountOut(r) \/ Release(r)
  BY <1>4, ZenonT(60) DEF Types, RedoOk, RedoErr, RelayStream, StreamEnds, RelayBuffered,
     Return, CountOut, Release, Goto, Answer
<1> QED
  BY <1>1, <1>2, <1>3, <1>4 DEF Does, Step

LEMMA ReqStays == ASSUME [Next]_vars PROVE req' = req
  BY ZenonT(60) DEF vars, Next, Step, Admit, Overload, Panic, ClientLeaves, ServerCancels,
     CountIn, Resolve, ReadBody, Rewrite, Build, DoOk, DoErr, RetryAfterError,
     GiveUp, RetryAfterStatus, Accept, RedoOk, RedoErr, RelayStream,
     StreamEnds, RelayBuffered, Return, CountOut, Release

----------------------------------------------------------------------------
(* Where a request is sent                                                 *)

\* A request has passed Resolve, and with a base that can be parsed if it has
\* been sent.
RouteInv == \A r \in Requests :
    LET resolved == ResolveBase(req[r]) # "none" /\ ~ProxyRefused(req[r])
        sent == conn[r][1].phase # "none"
    IN  /\ pc[r] \in {"readBody", "rewrite", "build"} => resolved
        /\ sent => resolved /\ ResolveBase(req[r]) # "broken"

LEMMA StepRoute ==
    ASSUME Types, AttemptInv, RouteInv, [Next]_vars
    PROVE  RouteInv'
<1> DEFINE resolved(q) == ResolveBase(req[q]) # "none" /\ ~ProxyRefused(req[q])
           ok(q) == /\ pc[q] \in {"readBody", "rewrite", "build"} => resolved(q)
                    /\ conn[q][1].phase # "none" =>
                          resolved(q) /\ ResolveBase(req[q]) # "broken"
<1>0. req' = req
  BY ReqStays
<1> SUFFICES ASSUME NEW q \in Requests PROVE ok(q)'
  BY <1>0 DEF RouteInv
<1>a. ok(q)
  BY DEF RouteInv
<1>b. ASSUME pc'[q] \notin {"readBody", "rewrite", "build"},
             conn'[q][1].phase = "none" \/ conn[q][1].phase # "none"
      PROVE  ok(q)'
  BY <1>0, <1>a, <1>b DEF ResolveBase, ProxyRefused
<1>1. CASE UNCHANGED vars
  BY <1>0, <1>1, <1>a DEF vars, ResolveBase, ProxyRefused
<1>2. ASSUME NEW r \in Requests, q # r, Does(r) PROVE ok(q)'
  BY <1>0, <1>2, <1>a, OthersStay DEF ResolveBase, ProxyRefused
<1>3. CASE Resolve(q)
  BY <1>0, <1>3, <1>a DEF Types, Resolve, Refuse, Goto, ResolveBase, ProxyRefused
<1>4. CASE ReadBody(q) \/ Rewrite(q)
  <2>1. resolved(q) /\ conn' = conn
    BY <1>4, <1>a DEF ReadBody, Rewrite
  <2> QED
    BY <1>0, <2>1, <1>a DEF ResolveBase, ProxyRefused
<1>5. CASE Build(q)
  <2>1. resolved(q) /\ pc'[q] \in {"return", "do"}
    BY <1>5, <1>a DEF Types, Build, Refuse, Goto
  <2>2. conn' = conn \/ ResolveBase(req[q]) # "broken"
    BY <1>5 DEF Build
  <2> QED
    BY <1>0, <2>1, <2>2, <1>a DEF ResolveBase, ProxyRefused
<1>6. CASE DoOk(q) \/ DoErr(q) \/ RetryAfterError(q) \/ RetryAfterStatus(q)
           \/ RedoOk(q) \/ RedoErr(q)
  <2>1. Shape(pc[q], conn[q], cur[q])
    BY DEF AttemptInv
  <2>2. conn[q][1].phase # "none"
    BY <1>6, <2>1 DEF Shape, DoOk, DoErr, RetryAfterError, RetryAfterStatus, RedoOk, RedoErr
  <2>3. pc'[q] \notin {"readBody", "rewrite", "build"}
    BY <1>6 DEF Types, DoOk, DoErr, RetryAfterError, RetryAfterStatus, RedoOk, RedoErr,
       Redo, Goto
  <2> QED
    BY <1>b, <2>2, <2>3
<1>7. CASE Admit(q) \/ Overload(q) \/ CountIn(q) \/ GiveUp(q) \/ Accept(q)
           \/ RelayStream(q) \/ StreamEnds(q) \/ RelayBuffered(q) \/ CountOut(q)
           \/ Release(q)
  <2>1. conn' = conn /\ pc'[q] \notin {"readBody", "rewrite", "build"}
    BY <1>7 DEF Types, Admit, Overload, CountIn, GiveUp, Accept, RelayStream, StreamEnds,
       RelayBuffered, CountOut, Release, Refuse, Goto
  <2> QED
    BY <1>b, <2>1
<1>8. CASE Return(q) \/ Panic(q)
  <2>1. Shape(pc[q], conn[q], cur[q]) /\ conn[q] \in [Tries -> Conn]
    BY DEF AttemptInv, Types
  <2>2. conn'[q][1].phase = "none" \/ conn[q][1].phase # "none"
    BY <1>8, <2>1 DEF Return, Panic, Closed, Shape, Types, Tries
  <2>3. pc'[q] \notin {"readBody", "rewrite", "build"}
    BY <1>8 DEF Types, Return, Panic, Goto
  <2> QED
    BY <1>b, <2>2, <2>3
<1>9. CASE ClientLeaves(q)
  BY <1>0, <1>9, <1>a DEF ClientLeaves, ResolveBase, ProxyRefused
<1>10. CASE ServerCancels(q)
  <2>1. conn'[q][1].phase = "none" \/ conn[q][1].phase # "none"
    BY <1>10 DEF ServerCancels, Closed, Types, Tries
  <2>2. pc'[q] = pc[q] /\ pc[q] \in Ended
    BY <1>10 DEF ServerCancels
  <2> QED
    BY <1>b, <2>1, <2>2 DEF Ended
<1> QED
  BY <1>1, <1>2, <1>3, <1>4, <1>5, <1>6, <1>7, <1>8, <1>9, <1>10
  DEF Next, Step, Does

\* A request whose header names an upstream or a proxy that makes no sense is
\* not sent anywhere (credential.go:157-188), whatever the configuration.
THEOREM RoutesAreNamed == Spec => []NoSilentRouting
<1>1. ASSUME Init PROVE RouteInv
  <2> SUFFICES ASSUME NEW r \in Requests
               PROVE  pc[r] = "idle" /\ conn[r][1].phase = "none"
    BY DEF RouteInv
  <2>1. conn[r][1] = NoConn /\ pc[r] = "idle"
    BY <1>1 DEF Init, Tries
  <2> QED
    BY <2>1 DEF NoConn
<1>2. Types /\ AttemptInv /\ RouteInv /\ [Next]_vars => RouteInv'
  BY StepRoute
<1>3. RouteInv => NoSilentRouting
  BY DEF RouteInv, NoSilentRouting, ResolveBase, ProxyRefused
<1> QED
  BY <1>1, <1>2, <1>3, AttemptInvariance, PTL DEF Spec, Safety

----------------------------------------------------------------------------
(* Whose names are taken out                                               *)

AskedFor(q) == IF req[q].body = "model" THEN req[q].pub ELSE NoModel

Early == {"idle", "admitted", "resolve", "readBody", "rewrite"}

Waiting == {"do", "err", "got", "redo", "failed"}

Relaying == {"relay", "stream"}

\* The names a request goes by, attempt by attempt: until a retry has taken
\* over the upstream model is the one the first attempt was sent with.
NamesOf(q) ==
    /\ pc[q] \in Early => st[q].pub = NoModel
    /\ pc[q] = "rewrite" => req[q].body = "model"
    /\ pc[q] \in {"build"} \cup Waiting \cup Relaying => st[q].pub = AskedFor(q)
    /\ pc[q] \in Waiting => conn[q][1].model = st[q].up
    /\ pc[q] = "redo" => conn[q][2].model = plan[q].model
    /\ pc[q] \in Relaying => conn[q][cur[q]].model = st[q].up

NameInv == \A r \in Requests : NamesOf(r)

LEMMA StepName ==
    ASSUME Types, AttemptInv, NameInv, [Next]_vars
    PROVE  NameInv'
<1> USE DEF Early, Waiting, Relaying
<1>0. req' = req
  BY ReqStays
<1> SUFFICES ASSUME NEW q \in Requests PROVE NamesOf(q)'
  BY DEF NameInv
<1>a. NamesOf(q) /\ Shape(pc[q], conn[q], cur[q])
  BY DEF NameInv, AttemptInv
<1>b. /\ conn[q] \in [Tries -> Conn] /\ Tries = {1, 2} /\ conn \in [Requests -> [Tries -> Conn]]
      /\ st \in [Requests -> State] /\ st[q] \in State
      /\ pc \in [Requests -> PCs] /\ cur \in [Requests -> {0, 1, 2}]
  BY DEF Types, Tries
<1>1. CASE UNCHANGED vars
  BY <1>1, <1>a DEF vars, NamesOf, AskedFor
<1>2. ASSUME NEW r \in Requests, q # r, Does(r) PROVE NamesOf(q)'
  BY <1>2, <1>a, OthersStay DEF NamesOf, AskedFor
<1>3. CASE Admit(q) \/ CountIn(q) \/ Resolve(q) \/ ReadBody(q)
  BY <1>0, <1>3, <1>a, <1>b DEF NamesOf, AskedFor, Admit, CountIn, Resolve, ReadBody,
     Refuse, Goto
<1>4. CASE Rewrite(q)
  <2>1. CASE Goto(q, "return")
    BY <1>b, <2>1 DEF NamesOf, Goto
  <2>2. CASE ~Goto(q, "return")
    <3> DEFINE in == req[q]
               hit == LookupKind(in)
               cm == ResolveCapMap(in)
               caps == in.uses \cap Want(cm)
               made(f) == [pub |-> in.pub, up |-> f.up, kind |-> hit.kind,
                           caps |-> caps, capUsed |-> f.capUsed,
                           failedOver |-> FALSE, attempts |-> 0, outcome |-> ""]
    <3>0. Goto(q, "build")
      BY <1>4, <2>2 DEF Rewrite
    <3>2. PICK up \in IF hit.kind # "none" THEN hit.ups ELSE {in.pub} :
             \E f \in FileRoutes(caps, cm, up) : st' = [st EXCEPT ![q] = made(f)]
      BY <1>4, <2>2 DEF Rewrite
    <3>3. PICK f \in FileRoutes(caps, cm, up) : st' = [st EXCEPT ![q] = made(f)]
      BY <3>2
    <3>4. st'[q] = made(f)
      BY <1>b, <3>3, Zenon
    <3>5. made(f).pub = req[q].pub
      OBVIOUS
    <3> HIDE DEF made
    <3>1. Goto(q, "build") /\ st'[q].pub = req[q].pub
      BY <3>0, <3>4, <3>5
    <3> QED
      BY <1>0, <1>4, <1>a, <1>b, <3>1 DEF NamesOf, AskedFor, Goto, Rewrite
  <2> QED
    BY <2>1, <2>2
<1>5. CASE Build(q)
  <2>1. CASE Goto(q, "return")
    BY <1>b, <2>1 DEF NamesOf, Goto
  <2>2. CASE ~Goto(q, "return")
    <3>1. Goto(q, "do") /\ st' = st /\ Send(q, 1, st[q].up) /\ pc[q] = "build"
      BY <1>5, <2>2 DEF Build, Refuse
    <3>2. conn'[q][1].model = st[q].up
      BY <1>b, <3>1 DEF Send, NoConn
    <3> QED
      BY <1>0, <1>a, <1>b, <3>1, <3>2 DEF NamesOf, AskedFor, Goto
  <2> QED
    BY <2>1, <2>2
<1>6. CASE DoOk(q) \/ DoErr(q)
  <2>0. conn[q][1] \in Conn
    BY <1>b
  <2>2. ASSUME DoOk(q) PROVE conn'[q][1].model = conn[q][1].model
    <3>1. PICK resp \in Responses : conn' = [conn EXCEPT ![q][1] = Opened(@, resp)]
      BY <2>2 DEF DoOk
    <3>2. conn'[q][1] = Opened(conn[q][1], resp)
      BY <1>b, <3>1
    <3> QED
      BY <2>0, <3>2 DEF Opened, Conn
  <2>3. ASSUME DoErr(q) PROVE conn'[q][1].model = conn[q][1].model
    <3>1. conn'[q][1] = Failed(conn[q][1])
      BY <1>b, <2>3 DEF DoErr
    <3> QED
      BY <2>0, <3>1 DEF Failed, Conn
  <2>1. /\ st' = st /\ pc[q] = "do" /\ pc'[q] \in {"got", "err"}
        /\ conn'[q][1].model = conn[q][1].model
    BY <1>6, <1>b, <2>2, <2>3 DEF DoOk, DoErr, Goto
  <2> QED
    BY <1>0, <1>a, <1>b, <2>1 DEF NamesOf, AskedFor
<1>7. CASE RetryAfterError(q)
  <2>1. pc[q] = "err" /\ plan' = plan
    BY <1>7 DEF RetryAfterError
  <2>2. st'[q].pub = st[q].pub /\ st'[q].up = st[q].up
    BY <1>7, <1>b DEF RetryAfterError, Redo, State
  <2>3. CASE Goto(q, "failed") /\ conn' = conn
    BY <1>0, <1>a, <1>b, <2>1, <2>2, <2>3 DEF NamesOf, AskedFor, Goto
  <2>4. CASE Goto(q, "redo") /\ Send(q, 2, plan[q].model)
    <3>1. conn'[q][2].model = plan[q].model /\ conn'[q][1] = conn[q][1]
      BY <1>b, <2>4 DEF Send, NoConn
    <3> QED
      BY <1>0, <1>a, <1>b, <2>1, <2>2, <2>4, <3>1 DEF NamesOf, AskedFor, Goto
  <2> QED
    BY <1>7, <2>3, <2>4 DEF RetryAfterError, Redo
<1>8. CASE RetryAfterStatus(q)
  <2>1. pc[q] = "got" /\ plan' = plan /\ cur' = cur /\ cur[q] = 1
    BY <1>8, <1>a DEF RetryAfterStatus, Shape
  <2>2. st'[q].pub = st[q].pub /\ st'[q].up = st[q].up
    BY <1>8, <1>b DEF RetryAfterStatus, Redo, State
  <2>3. conn'[q][1].model = conn[q][1].model
    BY <1>8, <1>b DEF RetryAfterStatus, Conn
  <2>4. pc'[q] = "redo" => conn'[q][2].model = plan[q].model
    BY <1>8, <1>b DEF RetryAfterStatus, Redo, Goto, NoConn
  <2>5. pc'[q] \in {"redo", "relay"}
    BY <1>8, <1>b DEF RetryAfterStatus, Redo, Goto
  <2> QED
    BY <1>0, <1>a, <2>1, <2>2, <2>3, <2>4, <2>5 DEF NamesOf, AskedFor
<1>9. CASE Accept(q)
  <2>1. cur[q] = 1
    BY <1>9, <1>a DEF Accept, Shape
  <2> QED
    BY <1>0, <1>9, <1>a, <1>b, <2>1 DEF NamesOf, AskedFor, Accept, Goto
<1>10. CASE RedoOk(q)
  <2>1. PICK resp \in Responses :
          /\ conn' = [conn EXCEPT ![q] =
                [i \in Tries |->
                   IF i = 2 THEN Opened(conn[q][2], resp)
                   ELSE IF cur[q] = 1 THEN Closed(conn[q][1])
                   ELSE conn[q][1]]]
          /\ st' = [st EXCEPT ![q] = ApplyPlan(Noted(st[q], resp), plan[q])]
    BY <1>10 DEF RedoOk
  <2>2. conn'[q][2].model = plan[q].model
    <3>1. conn'[q][2] = Opened(conn[q][2], resp)
      BY <1>b, <2>1
    <3>2. conn[q][2] \in Conn
      BY <1>b
    <3>3. conn[q][2].model = plan[q].model
      BY <1>10, <1>a DEF RedoOk, NamesOf
    <3> QED
      BY <3>1, <3>2, <3>3 DEF Opened, Conn
  <2>3. Noted(st[q], resp).pub = st[q].pub /\ Noted(st[q], resp) \in State
    <3>1. st[q].attempts + 1 \in Nat
      BY <1>b DEF State
    <3>2. Noted(st[q], resp).pub = st[q].pub
      BY <1>b, Zenon DEF Noted, State
    <3> QED
      BY <1>b, <3>1, <3>2, SubState DEF Noted
  <2>4. st'[q].up = plan[q].model /\ st'[q].pub = st[q].pub
    <3>1. st'[q] = ApplyPlan(Noted(st[q], resp), plan[q])
      BY <1>b, <2>1
    <3> QED
      BY <2>3, <3>1 DEF ApplyPlan, State
  <2>5. pc'[q] = "relay" /\ cur'[q] = 2 /\ pc[q] = "redo"
    BY <1>10, <1>b DEF RedoOk, Goto
  <2> QED
    BY <1>0, <1>a, <2>2, <2>4, <2>5 DEF NamesOf, AskedFor
<1>11. CASE RedoErr(q)
  <2>1. /\ pc[q] = "redo" /\ cur' = cur /\ cur[q] \in {0, 1}
        /\ pc'[q] = IF cur[q] = 0 THEN "failed" ELSE "relay"
    BY <1>11, <1>a, <1>b DEF RedoErr, Shape, Goto
  <2>2. /\ st'[q].pub = st[q].pub /\ st'[q].up = st[q].up
        /\ conn'[q][1] = conn[q][1]
    BY <1>11, <1>b DEF RedoErr, State
  <2> QED
    BY <1>0, <1>a, <2>1, <2>2 DEF NamesOf, AskedFor
<1>12. CASE RelayStream(q)
  BY <1>0, <1>12, <1>a, <1>b DEF RelayStream, NamesOf, AskedFor, State, Goto
<1>13. CASE Overload(q) \/ GiveUp(q) \/ StreamEnds(q) \/ RelayBuffered(q)
            \/ Return(q) \/ CountOut(q) \/ Release(q) \/ Panic(q)
  <2>1. pc'[q] \in {"rejected", "return", "leave", "release", "done", "crashed"}
    BY <1>13, <1>b DEF Overload, GiveUp, StreamEnds, RelayBuffered, Return, CountOut,
       Release, Panic, Refuse, Goto
  <2> QED
    BY <2>1 DEF NamesOf
<1>14. CASE ClientLeaves(q)
  BY <1>14, <1>a DEF ClientLeaves, NamesOf, AskedFor
<1>15. CASE ServerCancels(q)
  BY <1>15 DEF ServerCancels, Ended, NamesOf
<1> QED
  BY <1>1, <1>2, <1>3, <1>4, <1>5, <1>6, <1>7, <1>8, <1>9, <1>10, <1>11, <1>12,
     <1>13, <1>14, <1>15
  DEF Next, Step, Does

LEMMA NameInvariance == Safety => [](Types /\ AttemptInv /\ NameInv)
<1>1. ASSUME Init PROVE NameInv
  BY <1>1 DEF Init, NameInv, NamesOf, Early, Waiting, Relaying
<1>2. Types /\ AttemptInv /\ NameInv /\ [Next]_vars => NameInv'
  BY StepName
<1> QED
  BY <1>1, <1>2, AttemptInvariance, PTL DEF Safety

\* The names that are taken out of an answer are those of the model that gave
\* it, whatever failover came in between, and the name put in their place is
\* the one the client asked for (failover.go:154, gateway.go:605).
THEOREM ReplacerIsTheResponders == Spec => []ReplacerMatchesResponder
<1>1. NameInv => ReplacerMatchesResponder
  BY DEF NameInv, NamesOf, AskedFor, Relaying, ReplacerMatchesResponder
<1> QED
  BY <1>1, NameInvariance, PTL DEF Spec

----------------------------------------------------------------------------
(* Counting what has come to an end                                        *)

\* Where a request has been counted.
CountedPlaces == Ended \cup {"leave", "release"}

CounterInv == mx.requests + mx.rejected + mx.panics = Cardinality(At(CountedPlaces))

LEMMA StepCounter ==
    ASSUME Types, CounterInv, [Next]_vars
    PROVE  CounterInv'
<1> USE DEF CountedPlaces, Ended
<1>0. /\ mx \in Counters
      /\ mx.requests \in Nat /\ mx.rejected \in Nat /\ mx.panics \in Nat
      /\ Cardinality(At(CountedPlaces)) \in Nat
  BY AtFinite DEF Types, Counters
<1>a. ASSUME At(CountedPlaces)' = At(CountedPlaces), mx'.requests = mx.requests,
             mx'.rejected = mx.rejected, mx'.panics = mx.panics
      PROVE  CounterInv'
  BY <1>a DEF CounterInv
<1>1. CASE UNCHANGED vars
  BY <1>1 DEF vars, CounterInv, At
<1>2. ASSUME NEW r \in Requests, Overload(r) PROVE CounterInv'
  <2>1. Goto(r, "rejected") /\ pc[r] \notin CountedPlaces /\ "rejected" \in CountedPlaces
    BY <1>2 DEF Overload
  <2>2. Cardinality(At(CountedPlaces)') = Cardinality(At(CountedPlaces)) + 1
    BY <2>1, AtEnters
  <2> QED
    BY <1>0, <1>2, <2>2 DEF Overload, CounterInv, Counters
<1>3. ASSUME NEW r \in Requests, Return(r) PROVE CounterInv'
  <2>1. Goto(r, "leave") /\ pc[r] \notin CountedPlaces /\ "leave" \in CountedPlaces
    BY <1>3 DEF Return
  <2>2. Cardinality(At(CountedPlaces)') = Cardinality(At(CountedPlaces)) + 1
    BY <2>1, AtEnters
  <2> QED
    BY <1>0, <1>3, <2>2 DEF Return, CounterInv, Counters
<1>4. ASSUME NEW r \in Requests, Panic(r) PROVE CounterInv'
  <2>1. Goto(r, "crashed") /\ pc[r] \notin CountedPlaces /\ "crashed" \in CountedPlaces
    BY <1>4 DEF Panic, InHandle
  <2>2. Cardinality(At(CountedPlaces)') = Cardinality(At(CountedPlaces)) + 1
    BY <2>1, AtEnters
  <2> QED
    BY <1>0, <1>4, <2>2 DEF Panic, CounterInv, Counters
<1>5. ASSUME NEW r \in Requests, ClientLeaves(r) \/ ServerCancels(r)
      PROVE  CounterInv'
  BY <1>5 DEF ClientLeaves, ServerCancels, CounterInv, At
<1>6. ASSUME NEW r \in Requests, Admit(r) \/ CountIn(r) \/ CountOut(r) \/ Release(r)
      PROVE  CounterInv'
  <2>1. PICK l \in {"admitted", "resolve", "release", "done"} :
          Goto(r, l) /\ (pc[r] \in CountedPlaces <=> l \in CountedPlaces)
    BY <1>6 DEF Admit, CountIn, CountOut, Release
  <2>2. At(CountedPlaces)' = At(CountedPlaces)
    BY <2>1, AtStays
  <2> QED
    BY <1>6, <1>a, <2>2 DEF Admit, CountIn, CountOut, Release
<1>7. ASSUME NEW r \in Requests, Step(r), ~CountIn(r), ~CountOut(r), ~Release(r),
             ~Return(r)
      PROVE  CounterInv'
  <2>1. PICK l \in InHandle \cup {"return"} : Goto(r, l) /\ pc[r] \in InHandle
    <3>1. CASE Resolve(r) \/ ReadBody(r) \/ Rewrite(r) \/ Build(r) \/ DoOk(r)
               \/ DoErr(r) \/ GiveUp(r)
      BY <3>1 DEF Resolve, ReadBody, Rewrite, Build, DoOk, DoErr, GiveUp, Refuse, InHandle
    <3>2. CASE RetryAfterError(r) \/ RetryAfterStatus(r) \/ Accept(r) \/ RedoOk(r)
               \/ RedoErr(r) \/ RelayStream(r) \/ StreamEnds(r) \/ RelayBuffered(r)
      BY <3>2 DEF RetryAfterError, RetryAfterStatus, Accept, RedoOk, RedoErr, RelayStream,
         StreamEnds, RelayBuffered, Redo, InHandle
    <3> QED
      BY <1>7, <3>1, <3>2 DEF Step
  <2>2. At(CountedPlaces)' = At(CountedPlaces)
    BY <2>1, AtStays DEF InHandle
  <2>3. /\ mx'.requests = mx.requests
        /\ mx'.rejected = mx.rejected /\ mx'.panics = mx.panics
    <3>1. CASE Resolve(r) \/ ReadBody(r) \/ Rewrite(r) \/ Build(r) \/ DoOk(r)
               \/ DoErr(r) \/ RetryAfterError(r) \/ RetryAfterStatus(r)
               \/ Accept(r) \/ RedoErr(r) \/ RelayStream(r) \/ RelayBuffered(r)
      BY <3>1 DEF Resolve, ReadBody, Rewrite, Build, DoOk, DoErr, RetryAfterError,
         RetryAfterStatus, Accept, RedoErr, RelayStream, RelayBuffered
    <3>2. CASE GiveUp(r)
      BY <1>0, <3>2 DEF GiveUp, Counters
    <3>3. CASE RedoOk(r)
      BY <1>0, <3>3 DEF RedoOk, Counters
    <3>4. CASE StreamEnds(r)
      BY <1>0, <3>4 DEF StreamEnds, Counters
    <3> QED
      BY <1>7, <3>1, <3>2, <3>3, <3>4 DEF Step
  <2> QED
    BY <1>a, <2>2, <2>3
<1> QED
  BY <1>1, <1>2, <1>3, <1>4, <1>5, <1>6, <1>7 DEF Next, Step

\* Every request that has come to an end is in exactly one of the counters
\* requests, rejected and panics (gateway.go:224, 236; server.go:153).
THEOREM EveryEndCounted == Spec => []CountedOnce
<1>1. ASSUME Init PROVE CounterInv
  <2>1. At(CountedPlaces) = {}
    BY <1>1 DEF Init, At, CountedPlaces, Ended
  <2>2. mx.requests = 0 /\ mx.rejected = 0 /\ mx.panics = 0
    BY <1>1 DEF Init
  <2> QED
    BY <2>1, <2>2, FS_EmptySet DEF CounterInv
<1>2. Inductive /\ CounterInv /\ [Next]_vars => CounterInv'
  BY StepCounter DEF Inductive
<1>3. CounterInv => CountedOnce
  BY DEF CounterInv, CountedOnce, At, CountedPlaces
<1> QED
  BY <1>1, <1>2, <1>3, Invariance, PTL DEF Spec, Safety

----------------------------------------------------------------------------
(* RequestSpan implements Gateway                                          *)

LEMMA Watches == ASSUME [ONext]_ovars PROVE [Next]_vars
<1>1. CASE UNCHANGED ovars
  BY <1>1 DEF ovars
<1>2. ASSUME NEW r \in Requests, Quietly(r) PROVE Next
  BY <1>2 DEF Quietly, Next, Step
<1>3. ASSUME NEW r \in Requests,
             OverloadSpan(r) \/ PrepareSpan(r) \/ RetryAfterErrorSpan(r)
             \/ RetryAfterStatusSpan(r) \/ AcceptSpan(r) \/ RedoOkSpan(r)
      PROVE Next
  BY <1>3 DEF OverloadSpan, PrepareSpan, RetryAfterErrorSpan, AcceptSpan,
     RetryAfterStatusSpan, RedoOkSpan, Next, Step
<1>4. ASSUME NEW r \in Requests,
             RedoErrSpan(r) \/ GiveUpSpan(r) \/ StreamEndsSpan(r)
             \/ RelayBufferedSpan(r) \/ ReturnSpan(r)
      PROVE Next
  BY <1>4 DEF RedoErrSpan, GiveUpSpan, StreamEndsSpan, RelayBufferedSpan,
     ReturnSpan, Next, Step
<1> QED
  BY <1>1, <1>2, <1>3, <1>4 DEF ONext

\* What obs and the logger record (internal/obs/errors.go, observe.go) changes
\* nothing of what the gateway does: every theorem about Gateway holds of it.
THEOREM SpansOnlyWatch == OSpec => Spec
<1>1. OInit => Init
  BY DEF OInit
<1> QED
  BY <1>1, Watches, PTL DEF OSpec, OSafety, Spec, Safety

----------------------------------------------------------------------------
(* What the operators of RequestSpan return                                *)

Names == Models \cup {NoModel}

ErrorKinds == Outcomes \cup {"upstream_status", "write_client_failed"}

Switch == [stage : Stages, outcome : {"", "aborted", "exhausted", "succeeded"},
           first : Nat, from : Names, to : Names]

Attributes == [red : BOOLEAN, kind : ErrorKinds, warn : BOOLEAN, count : Nat,
               stage : Stages, model : Names, code : Nat, failover : Switch,
               client : Nat, upstream : Nat]

\* t records nothing that would change the status of the span s.
SameStatus(t, s) == t \in Attributes /\ t.red = s.red /\ t.kind = s.kind

LEMMA RedSpan ==
    ASSUME NEW s \in Attributes, NEW k \in ErrorKinds
    PROVE  Red(s, k) \in Attributes /\ Red(s, k).red /\ Red(s, k).kind = k
  BY DEF Red, Attributes

LEMMA AttemptFailureSpan ==
    ASSUME NEW s \in Attributes, NEW n \in Nat, NEW stage \in Stages,
           NEW m \in Names, NEW code \in Nat
    PROVE  /\ SameStatus(AttemptFailure(s, n, stage, m, code), s)
           /\ AttemptFailure(s, n, stage, m, code).count = n
  BY DEF AttemptFailure, Attributes, SameStatus

LEMMA FailoverSpan ==
    ASSUME NEW s \in Attributes, NEW stage \in Stages, NEW first \in Nat,
           NEW from \in Names, NEW to \in Names
    PROVE  /\ SameStatus(Aborted(s, stage, first, from), s)
           /\ \A final \in Nat :
                 SameStatus(Switched(s, stage, first, from, to, final), s)
<1>1. \A o \in {"aborted", "exhausted", "succeeded"}, m \in Names :
        SameStatus(Failover(s, stage, o, first, from, m), s)
  BY DEF Failover, Switch, Attributes, SameStatus
<1> QED
  BY <1>1 DEF Aborted, Switched, Names

LEMMA HeadersSpan ==
    ASSUME NEW s \in Attributes, NEW client \in Nat, NEW up \in Nat
    PROVE  SameStatus(Headers(s, client, up), s)
  BY DEF Headers, Attributes, SameStatus

LEMMA StatusType ==
    ASSUME NEW c \in Conn
    PROVE  c.resp.status \in Nat
  BY GatewayAssumption DEF Conn, Response, NoResponse

\* Everything that is recorded of an attempt or of a switch leaves the status of
\* the span alone.
Recording(r) ==
    RetryAfterErrorSpan(r) \/ RetryAfterStatusSpan(r) \/ AcceptSpan(r)
    \/ RedoOkSpan(r) \/ RedoErrSpan(r)

LEMMA RedoSpanStatus ==
    ASSUME Types, NEW r \in Requests, NEW s \in Attributes,
           NEW stage \in Stages, NEW first \in Nat
    PROVE  SameStatus(RedoSpan(r, s, stage, first), s)
<1>1. plan[r].model \in Names /\ st[r].up \in Names /\ s.count + 1 \in Nat
  BY DEF Types, Plan, State, Names, Attributes
<1>2. "rewrite" \in Stages
  BY DEF Stages
<1> DEFINE t == AttemptFailure(s, s.count + 1, "rewrite", plan[r].model, 0)
<1>3. SameStatus(t, s)
  BY <1>1, <1>2, AttemptFailureSpan
<1>4. SameStatus(Aborted(t, stage, first, st[r].up), t)
  BY <1>1, <1>3, FailoverSpan DEF SameStatus
<1> QED
  BY <1>3, <1>4 DEF RedoSpan, SameStatus

LEMMA RecordingKeepsStatus ==
    ASSUME Types, Types', NEW r \in Requests, span[r] \in Attributes,
           Recording(r)
    PROVE  \E t : Note(r, t) /\ SameStatus(t, span[r])
<1> DEFINE n == st[r].attempts + 1
           up == st[r].up
           m == plan[r].model
           first == conn[r][1].resp.status
<1>0. conn[r][1] \in Conn /\ conn'[r][2] \in Conn
  BY DEF Types, Tries
<1>1. n \in Nat /\ up \in Names /\ m \in Names /\ first \in Nat /\ 0 \in Nat
  BY <1>0, StatusType DEF Types, Plan, State, Names
<1>2. {"status", "transport", "rewrite"} \subseteq Stages
  BY DEF Stages
<1>3. CASE RetryAfterErrorSpan(r)
  <2> DEFINE s == AttemptFailure(span[r], n, "transport", up, 0)
  <2>1. SameStatus(s, span[r])
    BY <1>1, <1>2, AttemptFailureSpan
  <2>2. Note(r, RedoSpan(r, s, "transport", 0))
    BY <1>3 DEF RetryAfterErrorSpan
  <2> HIDE DEF n, up, m, first, s
  <2>3. s \in Attributes
    BY <2>1 DEF SameStatus
  <2>4. SameStatus(RedoSpan(r, s, "transport", 0), s)
    BY <1>1, <1>2, <2>3, RedoSpanStatus
  <2> QED
    BY <2>1, <2>2, <2>4 DEF SameStatus
<1>4. CASE RetryAfterStatusSpan(r)
  <2> DEFINE a == AttemptFailure(span[r], n, "status", up, first)
             s == RedoSpan(r, a, "status", first)
  <2>1. SameStatus(a, span[r])
    BY <1>1, <1>2, AttemptFailureSpan
  <2>2. Note(r, s) \/ Note(r, Headers(s, first, first))
    BY <1>4 DEF RetryAfterStatusSpan
  <2> HIDE DEF n, up, m, first, a
  <2>3. a \in Attributes
    BY <2>1 DEF SameStatus
  <2>4. SameStatus(s, a)
    BY <1>1, <1>2, <2>3, RedoSpanStatus
  <2> HIDE DEF s
  <2>5. SameStatus(Headers(s, first, first), s)
    BY <1>1, <2>4, HeadersSpan DEF SameStatus
  <2> QED
    BY <2>1, <2>2, <2>4, <2>5 DEF SameStatus
<1>5. CASE AcceptSpan(r)
  BY <1>1, <1>5, HeadersSpan DEF AcceptSpan
<1>6. CASE RedoOkSpan(r)
  <2> DEFINE stage == IF cur[r] = 1 THEN "status" ELSE "transport"
             code == conn'[r][2].resp.status
             s == IF code >= 400
                  THEN AttemptFailure(span[r], n, "status", m, code)
                  ELSE span[r]
             t == Switched(s, stage, first, up, m, code)
             given == IF cur[r] = 1 THEN first ELSE code
  <2>1. code \in Nat
    BY <1>0, StatusType
  <2>2. given \in Nat /\ stage \in Stages
    BY <1>1, <1>2, <2>1
  <2>3. Note(r, Headers(t, code, given))
    BY <1>6 DEF RedoOkSpan
  <2>4. SameStatus(s, span[r])
    <3>1. SameStatus(AttemptFailure(span[r], n, "status", m, code), span[r])
      BY <1>1, <1>2, <2>1, AttemptFailureSpan
    <3>2. SameStatus(span[r], span[r])
      BY DEF SameStatus
    <3> QED
      BY <3>1, <3>2
  <2> HIDE DEF n, m, up, first, stage, code, given, s
  <2>5. s \in Attributes
    BY <2>4 DEF SameStatus
  <2>6. SameStatus(t, s)
    BY <1>1, <2>1, <2>2, <2>5, FailoverSpan
  <2>7. SameStatus(Headers(t, code, given), t)
    BY <2>1, <2>2, <2>6, HeadersSpan DEF SameStatus
  <2> QED
    BY <2>3, <2>4, <2>6, <2>7 DEF SameStatus
<1>7. CASE RedoErrSpan(r)
  <2> DEFINE stage == IF cur[r] = 1 THEN "status" ELSE "transport"
             a == AttemptFailure(span[r], n, "transport", m, 0)
             s == Aborted(a, stage, first, up)
  <2>1. Note(r, s) \/ Note(r, Headers(s, first, first))
    BY <1>7 DEF RedoErrSpan
  <2>2. stage \in Stages
    BY <1>2
  <2>3. SameStatus(a, span[r])
    BY <1>1, <1>2, AttemptFailureSpan
  <2> HIDE DEF n, m, up, first, stage, a
  <2>4. SameStatus(s, a)
    BY <1>1, <2>2, <2>3, FailoverSpan DEF SameStatus
  <2>5. SameStatus(Headers(s, first, first), s)
    BY <1>1, <2>4, HeadersSpan DEF SameStatus
  <2> QED
    BY <2>1, <2>3, <2>4, <2>5 DEF SameStatus
<1> QED
  BY <1>3, <1>4, <1>5, <1>6, <1>7 DEF Recording

\* The ends of pipeBuffered, with what they leave in the span.
LEMMA BufferedEnds ==
    ASSUME NEW resp, resp.status \in Nat, NEW left, NEW ns \in BOOLEAN,
           NEW b \in BufferedResults(resp, left, ns)
    PROVE  \/ b \in {TooLarge, Unreadable}
           \/ \E o \in {OutcomeForStatus(resp.status),
                        "sanitize_skipped_too_large"} :
                 b = Relayed(resp, o, left)
           \/ /\ ~ns /\ resp.status < 400
              /\ b = Relayed(resp, OutcomeForStatus(resp.status), "cut")
<1> DEFINE outcome == OutcomeForStatus(resp.status)
           some == \E o \in {outcome, "sanitize_skipped_too_large"} :
                      b = Relayed(resp, o, left)
<1>1. CASE ns /\ resp.known /\ resp.large
  BY <1>1 DEF BufferedResults
<1>2. CASE ~(ns /\ resp.known /\ resp.large) /\ resp.status < 400 /\ ~ns
  <2>1. b \in {Relayed(resp, outcome, x) : x \in {left, "cut"}}
    BY <1>2 DEF BufferedResults
  <2> QED
    BY <1>2, <2>1
<1>3. CASE ~(ns /\ resp.known /\ resp.large) /\ ~(resp.status < 400 /\ ~ns)
  <2>1. \/ b = Unreadable
        \/ \E big \in OverLimit(resp, left) :
              b = IF ~big THEN Relayed(resp, outcome, left)
                  ELSE IF ns THEN TooLarge
                  ELSE Relayed(resp, "sanitize_skipped_too_large", left)
    BY <1>3 DEF BufferedResults
  <2> QED
    BY <2>1
<1> QED
  BY <1>1, <1>2, <1>3

----------------------------------------------------------------------------
(* What is told in the end                                                 *)

Before == {"idle", "admitted", "resolve", "readBody", "rewrite", "build", "do",
           "err", "got", "redo", "failed", "relay"}

After == {"leave", "release", "done"}

KindSeen(r) ==
    IF ~span[r].red THEN ""
    ELSE IF reply[r].body = "cut" THEN "write_client_failed"
    ELSE IF reply[r].status >= 400 /\ reply[r].body # "gateway"
    THEN "upstream_status"
    ELSE st[r].outcome

\* The span has no status before the answer is decided, and that of the answer
\* from then on; the log line follows from the error that was kept and from the
\* status of the answer, one of which every red span has.
Clean(r) == ~span[r].red /\ span[r].kind = "" /\ ~stErr[r]

Decided(r) ==
    /\ span[r].red <=> ClientSawFailure(r)
    /\ span[r].kind = KindSeen(r)
    /\ span[r].red => stErr[r] \/ reply[r].status >= 400
    /\ stErr[r] /\ ~span[r].red => st[r].outcome = "client_gone" \/ r \in gone

Tells(r) ==
    /\ pc[r] \in Before => Clean(r) /\ st[r].outcome = ""
    /\ pc[r] = "stream" =>
          Clean(r) /\ reply[r].status < 400 /\ reply[r].body = "stream"
    /\ pc[r] \in {"return"} \cup After => Decided(r)
    /\ pc[r] \in After =>
          /\ span[r].client = reply[r].status
          /\ line[r] = LogLevel(stErr[r], reply[r].status)
    /\ pc[r] = "rejected" =>
          /\ span[r].red /\ span[r].kind = "overloaded" /\ line[r] = "error"
          /\ reply[r].status = 503 /\ reply[r].body = "gateway"
          /\ st[r].outcome = "overloaded"

Levels == {"none", "info", "warn", "error"}

SpanInv ==
    /\ span \in [Requests -> Attributes]
    /\ stErr \in [Requests -> BOOLEAN]
    /\ line \in [Requests -> Levels]
    /\ \A r \in Requests : Tells(r)

\* What the goroutine of r does, with what it records.
Watched(r) ==
    Quietly(r) \/ OverloadSpan(r) \/ PrepareSpan(r) \/ Recording(r)
    \/ GiveUpSpan(r) \/ StreamEndsSpan(r) \/ RelayBufferedSpan(r)
    \/ ReturnSpan(r)

LEMMA WatchedDoes == ASSUME NEW r \in Requests, Watched(r) PROVE Does(r)
<1>1. CASE Quietly(r)
  BY <1>1 DEF Quietly, Does, Step
<1>2. CASE OverloadSpan(r) \/ PrepareSpan(r) \/ Recording(r)
  BY <1>2 DEF OverloadSpan, PrepareSpan, Recording, RetryAfterErrorSpan,
     RetryAfterStatusSpan, AcceptSpan, RedoOkSpan, RedoErrSpan, Does, Step
<1>3. CASE GiveUpSpan(r) \/ StreamEndsSpan(r) \/ RelayBufferedSpan(r)
           \/ ReturnSpan(r)
  BY <1>3 DEF GiveUpSpan, StreamEndsSpan, RelayBufferedSpan, ReturnSpan, Does,
     Step
<1> QED
  BY <1>1, <1>2, <1>3 DEF Watched

\* A request that is refused before it is sent.
LEMMA RefuseTells ==
    ASSUME Types, SpanInv, NEW r \in Requests, pc[r] \in Before,
           NEW o \in Outcomes, NEW code \in {400, 499, 500, 502, 504},
           o \notin {"stream_stall", "stream_broken"},
           st'[r].outcome = o, Answer(r, code, "gateway"), Goto(r, "return"),
           Note(r, Red(span[r], o))
    PROVE  Tells(r)'
<1>1. Red(span[r], o).red /\ Red(span[r], o).kind = o
  BY RedSpan DEF SpanInv, ErrorKinds
<1>2. span'[r] = Red(span[r], o) /\ pc'[r] = "return"
  BY DEF Types, SpanInv, Note, Goto
<1>3. reply'[r].status = code /\ reply'[r].body = "gateway" /\ code >= 400
  BY DEF Types, Answer
<1>4. ClientSawFailure(r)' /\ KindSeen(r)' = o
  BY <1>1, <1>2, <1>3 DEF ClientSawFailure, KindSeen
<1>5. Decided(r)'
  BY <1>1, <1>2, <1>3, <1>4 DEF Decided
<1> QED
  BY <1>2, <1>5 DEF Tells, Before, After

\* Before the upstream call; OutcomeForStatus and the like play no part yet.
LEMMA PrepareTells ==
    ASSUME Types, SpanInv, NEW r \in Requests, PrepareSpan(r)
    PROVE  Tells(r)'
<1>1. pc[r] \in Before /\ Tells(r) /\ st[r] \in State
  BY DEF PrepareSpan, Resolve, ReadBody, Rewrite, Build, Before, SpanInv, Types
<1>2. Clean(r) /\ st[r].outcome = ""
  BY <1>1 DEF Tells
<1>3. CASE pc'[r] = "return"
  <2>1. Note(r, Red(span[r], st'[r].outcome))
    BY <1>3 DEF PrepareSpan
  <2>3. PICK o \in {"no_upstream", "bad_proxy", "bad_request", "bad_model_map",
                     "unmapped_model", "build_request_failed"},
             code \in {400, 500, 502} :
           /\ st'[r].outcome = o /\ Answer(r, code, "gateway")
           /\ Goto(r, "return")
    <3>1. CASE Resolve(r)
      BY <1>1, <1>3, <3>1 DEF Resolve, Refuse, Goto, Types, State
    <3>2. CASE ReadBody(r)
      BY <1>1, <1>3, <3>2 DEF ReadBody, Refuse, Goto, Types, State
    <3>3. CASE Build(r)
      BY <1>1, <1>3, <3>3 DEF Build, Refuse, Goto, Types, State
    <3>4. CASE Rewrite(r)
      <4>1. ~Goto(r, "build")
        BY <1>3 DEF Goto, Types
      <4>2. /\ Answer(r, 400, "gateway") /\ Goto(r, "return")
            /\ \/ st' = [st EXCEPT ![r].pub = req[r].pub,
                                   ![r].outcome = "bad_model_map"]
               \/ st' = [st EXCEPT ![r].pub = req[r].pub,
                                   ![r].outcome = "unmapped_model"]
        BY <3>4, <4>1 DEF Rewrite
      <4> QED
        BY <1>1, <4>2 DEF Types, State
    <3> QED
      BY <3>1, <3>2, <3>3, <3>4 DEF PrepareSpan
  <2>2. o \in Outcomes /\ o \notin {"stream_stall", "stream_broken"}
    BY DEF Outcomes
  <2> QED
    BY <1>1, <2>1, <2>2, <2>3, RefuseTells
<1>4. CASE pc'[r] # "return"
  <2>1. span'[r] = span[r] /\ stErr'[r] = (st'[r].outcome \in WithErr)
    BY <1>4 DEF PrepareSpan, Note, SetErr, SpanInv
  <2>2. st'[r].outcome = "" /\ pc'[r] \in Before
    <3>1. CASE Resolve(r) \/ ReadBody(r) \/ Build(r)
      BY <1>2, <1>4, <3>1 DEF Resolve, ReadBody, Build, Refuse, Goto, Types,
         Before
    <3>2. CASE Rewrite(r)
      <4>1. ~Goto(r, "return")
        BY <1>4 DEF Goto, Types
      <4>2. PICK s : st' = [st EXCEPT ![r] = s] /\ s.outcome = ""
                     /\ Goto(r, "build")
        BY <3>2, <4>1 DEF Rewrite
      <4> QED
        BY <4>2 DEF Types, Goto, Before
    <3> QED
      BY <3>1, <3>2 DEF PrepareSpan
  <2>3. ~stErr'[r]
    BY <2>1, <2>2 DEF WithErr
  <2> QED
    BY <1>2, <2>1, <2>2, <2>3 DEF Tells, Clean, Before, After
<1> QED
  BY <1>3, <1>4

LEMMA RecordingTells ==
    ASSUME Types, Types', SpanInv, NEW r \in Requests, Recording(r)
    PROVE  Tells(r)'
<1>1. PICK t : Note(r, t) /\ SameStatus(t, span[r])
  BY RecordingKeepsStatus DEF SpanInv
<1>2. span'[r].red = span[r].red /\ span'[r].kind = span[r].kind
      /\ stErr' = stErr
  BY <1>1 DEF Note, SameStatus, SpanInv, Recording, RetryAfterErrorSpan,
     RetryAfterStatusSpan, AcceptSpan, RedoOkSpan, RedoErrSpan
<1>3. pc[r] \in Before /\ pc'[r] \in Before
  BY DEF Recording, RetryAfterErrorSpan, RetryAfterStatusSpan, AcceptSpan,
     RedoOkSpan, RedoErrSpan, RetryAfterError, RetryAfterStatus, Accept, RedoOk,
     RedoErr, Redo, Goto, Types, Before
<1>4. st'[r].outcome = st[r].outcome
  <2>0. st[r] \in State
    BY DEF Types
  <2>1. CASE RetryAfterErrorSpan(r) \/ RetryAfterStatusSpan(r)
    BY <2>0, <2>1 DEF RetryAfterErrorSpan, RetryAfterStatusSpan,
       RetryAfterError, RetryAfterStatus, Redo, Types, State
  <2>2. CASE AcceptSpan(r) \/ RedoErrSpan(r)
    BY <2>0, <2>2 DEF AcceptSpan, RedoErrSpan, Accept, RedoErr, Types, State
  <2>3. CASE RedoOkSpan(r)
    <3>1. PICK resp \in Responses :
            st' = [st EXCEPT ![r] = ApplyPlan(Noted(st[r], resp), plan[r])]
      BY <2>3 DEF RedoOkSpan, RedoOk
    <3>2. st'[r] = ApplyPlan(Noted(st[r], resp), plan[r])
      BY <3>1 DEF Types
    <3>3. st[r].attempts + 1 \in Nat
      BY <2>0 DEF State
    <3>4. Noted(st[r], resp) \in State
      BY <2>0, <3>3, SubState DEF Noted
    <3>5. Noted(st[r], resp).outcome = st[r].outcome
      BY <2>0, Zenon DEF Noted, State
    <3> QED
      BY <3>2, <3>4, <3>5 DEF ApplyPlan, State
  <2> QED
    BY <2>1, <2>2, <2>3 DEF Recording
<1> QED
  BY <1>2, <1>3, <1>4 DEF SpanInv, Tells, Clean, Before, After

LEMMA GiveUpTells ==
    ASSUME Types, SpanInv, NEW r \in Requests, GiveUpSpan(r)
    PROVE  Tells(r)'
<1>1. pc[r] \in Before /\ st[r] \in State
  BY DEF GiveUpSpan, GiveUp, Before, Types
<1>2. ClassifyUpstreamError(err[r], r \in gone) \in {499, 502, 504}
  BY DEF ClassifyUpstreamError
<1>3. st'[r].outcome = "upstream_error"
  BY <1>1 DEF GiveUpSpan, GiveUp, Refuse, Types, State
<1>4. \E code \in {499, 502, 504} : Answer(r, code, "gateway")
  BY <1>2 DEF GiveUpSpan, GiveUp, Refuse
<1>5. Goto(r, "return") /\ Note(r, Red(span[r], "upstream_error"))
  BY DEF GiveUpSpan, GiveUp, Refuse
<1>6. "upstream_error" \in Outcomes
  BY DEF Outcomes
<1> QED
  BY <1>1, <1>3, <1>4, <1>5, <1>6, RefuseTells

LEMMA StreamEndsTells ==
    ASSUME Types, SpanInv, NEW r \in Requests, StreamEndsSpan(r)
    PROVE  Tells(r)'
<1>1. /\ Clean(r) /\ reply'[r].status < 400 /\ reply'[r].body = "stream"
      /\ gone' = gone /\ pc'[r] = "return" /\ st[r] \in State
  BY DEF StreamEndsSpan, StreamEnds, SpanInv, Tells, Goto, Types
<1>2. PICK o \in {"stream", "stream_stall", "client_gone", "stream_eof",
                  "stream_broken"} : st'[r].outcome = o
  BY <1>1 DEF StreamEndsSpan, StreamEnds, Types, State
<1>3. /\ span'[r] = IF o \in {"stream_stall", "stream_broken"}
                    THEN Red(span[r], o) ELSE span[r]
      /\ stErr'[r] = (o \in {"stream_stall", "stream_broken", "client_gone"})
  BY <1>2 DEF StreamEndsSpan, Note, SetErr, SpanInv
<1>s. reply'[r].status \in Nat
  BY DEF StreamEndsSpan, StreamEnds, Types, Reply
<1>4. CASE o \in {"stream_stall", "stream_broken"}
  <2>0. o \in ErrorKinds
    BY DEF ErrorKinds, Outcomes
  <2>a. span'[r] = Red(span[r], o)
    BY <1>3, <1>4, Zenon
  <2>b. stErr'[r]
    BY <1>3, <1>4
  <2>1. span'[r].red /\ span'[r].kind = o /\ stErr'[r]
    BY <2>0, <2>a, <2>b, RedSpan DEF SpanInv
  <2>2. ClientSawFailure(r)' /\ KindSeen(r)' = o
    BY <1>1, <1>2, <1>4, <1>s, <2>1 DEF ClientSawFailure, KindSeen
  <2> QED
    BY <1>1, <1>2, <2>1, <2>2 DEF Tells, Decided, Before, After
<1>5. CASE o \notin {"stream_stall", "stream_broken"}
  <2>1. ~span'[r].red /\ span'[r].kind = "" /\ (stErr'[r] <=> o = "client_gone")
    BY <1>1, <1>3, <1>5 DEF Clean
  <2>3. ~ClientSawFailure(r)'
    BY <1>1, <1>2, <1>5, <1>s DEF ClientSawFailure
  <2>2. ~ClientSawFailure(r)' /\ KindSeen(r)' = ""
    BY <2>1, <2>3 DEF KindSeen
  <2> QED
    BY <1>1, <1>2, <2>1, <2>2 DEF Tells, Decided, Before, After
<1> QED
  BY <1>4, <1>5

\* The four ways in which pipeBuffered ends, and what each leaves behind.
LEMMA RelayBufferedTells ==
    ASSUME Types, RespHeld, SpanInv, NEW r \in Requests, RelayBufferedSpan(r)
    PROVE  Tells(r)'
<1> DEFINE c == conn[r][cur[r]]
           resp == c.resp
           body == reply'[r].body
           o == st'[r].outcome
           oneWrite == /\ o = OutcomeForStatus(resp.status)
                       /\ NeedSanitize(st[r]) \/ resp.status >= 400
           told == Buffered(span[r], resp, o, body)
<1>1. /\ Clean(r) /\ st[r] \in State /\ reply[r] \in Reply /\ gone' = gone
      /\ pc'[r] = "return" /\ cur[r] \in Tries
  BY DEF RelayBufferedSpan, RelayBuffered, SpanInv, Tells, Before, Goto, Types,
     RespHeld
<1>2. /\ resp.status \in Nat /\ c.left \in {"whole", "tail", "empty"}
      /\ NeedSanitize(st[r]) \in BOOLEAN
  BY <1>1, RespStatus, GatewayAssumption DEF NeedSanitize
<1>3. PICK b \in BufferedResults(resp, c.left, NeedSanitize(st[r])) :
        /\ Answer(r, b.status, b.body)
        /\ st' = [st EXCEPT ![r].outcome = b.outcome]
  BY DEF RelayBufferedSpan, RelayBuffered
<1>4. o = b.outcome /\ body = b.body /\ reply'[r].status = b.status
  BY <1>1, <1>3 DEF Answer, Types, State, Reply
<1>5. span'[r] = told
  BY DEF RelayBufferedSpan, Note, SpanInv
<1>6. \E e \in IF oneWrite /\ r \in gone THEN BOOLEAN
               ELSE {o = "read_upstream_failed" \/ body = "cut"} :
         stErr' = [stErr EXCEPT ![r] = e]
  BY DEF RelayBufferedSpan, SetErr
<1> HIDE DEF told
<1>7. \/ b \in {TooLarge, Unreadable}
      \/ \E x \in {OutcomeForStatus(resp.status), "sanitize_skipped_too_large"} :
            b = Relayed(resp, x, c.left)
      \/ /\ ~NeedSanitize(st[r]) /\ resp.status < 400
         /\ b = Relayed(resp, OutcomeForStatus(resp.status), "cut")
  BY <1>2, BufferedEnds
<1>8. {"response_too_large", "read_upstream_failed", "write_client_failed",
       "upstream_status"} \subseteq ErrorKinds
  BY DEF ErrorKinds, Outcomes
<1>9. span[r] \in Attributes
  BY DEF SpanInv
<1>10. ASSUME NEW k \in ErrorKinds, told.red, told.kind = k,
              ClientSawFailure(r)', KindSeen(r)' = k,
              stErr'[r] \/ b.status >= 400
       PROVE  Tells(r)'
  BY <1>1, <1>4, <1>5, <1>10 DEF Tells, Decided, Before, After
<1>11. CASE b = TooLarge
  <2>1. o = "response_too_large" /\ b.status = 400 /\ body = "gateway"
    BY <1>4, <1>11 DEF TooLarge
  <2>2. told = RejectOversize(span[r], resp)
    BY <2>1 DEF told, Buffered
  <2>3. told.red /\ told.kind = "response_too_large"
    BY <1>8, <1>9, <2>2, RedSpan DEF RejectOversize
  <2>4. ClientSawFailure(r)' /\ KindSeen(r)' = "response_too_large"
    BY <1>4, <1>5, <2>1, <2>3 DEF ClientSawFailure, KindSeen
  <2> QED
    BY <1>8, <1>10, <2>1, <2>3, <2>4
<1>12. CASE b = Unreadable
  <2>1. o = "read_upstream_failed" /\ b.status = 502 /\ body = "gateway"
    BY <1>4, <1>12 DEF Unreadable
  <2>2. told = Red(span[r], "read_upstream_failed")
    BY <2>1 DEF told, Buffered
  <2>3. told.red /\ told.kind = "read_upstream_failed"
    BY <1>8, <1>9, <2>2, RedSpan
  <2>4. ClientSawFailure(r)' /\ KindSeen(r)' = "read_upstream_failed"
    BY <1>4, <1>5, <2>1, <2>3 DEF ClientSawFailure, KindSeen
  <2> QED
    BY <1>8, <1>10, <2>1, <2>3, <2>4
<1>13. ASSUME NEW x \in {OutcomeForStatus(resp.status),
                         "sanitize_skipped_too_large"},
              b = Relayed(resp, x, c.left)
       PROVE  Tells(r)'
  <2>1. o = x /\ b.status = resp.status /\ body = c.left
    BY <1>4, <1>13 DEF Relayed
  <2>2. o \in {"ok", "upstream_4xx", "upstream_5xx", "rate_limited",
               "sanitize_skipped_too_large"}
    BY <2>1 DEF OutcomeForStatus
  <2>3. body \notin {"cut", "gateway"}
    BY <1>2, <2>1
  <2>4. CASE resp.status >= 400
    <3>1. told = Red(span[r], "upstream_status")
      BY <2>2, <2>3, <2>4 DEF told, Buffered
    <3>2. told.red /\ told.kind = "upstream_status"
      BY <1>8, <1>9, <3>1, RedSpan
    <3>3. ClientSawFailure(r)' /\ KindSeen(r)' = "upstream_status"
      BY <1>4, <1>5, <2>1, <2>3, <2>4, <3>2 DEF ClientSawFailure, KindSeen
    <3> QED
      BY <1>8, <1>10, <2>1, <2>4, <3>2, <3>3
  <2>5. CASE ~(resp.status >= 400)
    <3>1. told = span[r]
      BY <2>2, <2>3, <2>5 DEF told, Buffered
    <3>2. ~span'[r].red /\ span'[r].kind = ""
      BY <1>1, <1>5, <3>1 DEF Clean
    <3>3. ~ClientSawFailure(r)'
      BY <1>2, <1>4, <2>1, <2>2, <2>3, <2>5 DEF ClientSawFailure
    <3>4. stErr'[r] => r \in gone
      BY <1>6, <2>2, <2>3 DEF SpanInv
    <3> QED
      BY <1>1, <3>2, <3>3, <3>4 DEF Tells, Decided, KindSeen, Before, After
  <2> QED
    BY <2>4, <2>5
<1>14. CASE /\ ~NeedSanitize(st[r]) /\ resp.status < 400
            /\ b = Relayed(resp, OutcomeForStatus(resp.status), "cut")
  <2>1. o = "ok" /\ b.status = resp.status /\ body = "cut"
    BY <1>2, <1>4, <1>14 DEF Relayed, OutcomeForStatus
  <2>2. told = Red(span[r], "write_client_failed")
    BY <1>14, <2>1 DEF told, Buffered
  <2>3. told.red /\ told.kind = "write_client_failed"
    BY <1>8, <1>9, <2>2, RedSpan
  <2>4. ClientSawFailure(r)' /\ KindSeen(r)' = "write_client_failed"
    BY <1>5, <2>1, <2>3 DEF ClientSawFailure, KindSeen
  <2>5. ~oneWrite
    BY <1>2, <1>14
  <2>6. stErr'[r]
    BY <1>6, <2>1, <2>5 DEF SpanInv
  <2> QED
    BY <1>8, <1>10, <2>3, <2>4, <2>6
<1> QED
  BY <1>7, <1>11, <1>12, <1>13, <1>14

LEMMA ReturnTells ==
    ASSUME Types, SpanInv, NEW r \in Requests, ReturnSpan(r)
    PROVE  Tells(r)'
<1>1. /\ Decided(r) /\ pc'[r] = "leave" /\ st' = st /\ reply' = reply
      /\ gone' = gone /\ stErr' = stErr
  BY DEF ReturnSpan, Return, SpanInv, Tells, Goto, Types
<1>2. span[r] \in Attributes
  BY DEF SpanInv
<1>3. span'[r] = [span[r] EXCEPT !.client = reply[r].status,
                                 !.count = st[r].attempts]
  BY DEF ReturnSpan, Note, SpanInv
<1>4. /\ span'[r].red = span[r].red /\ span'[r].kind = span[r].kind
      /\ span'[r].client = reply[r].status
  BY <1>2, <1>3 DEF Attributes
<1>5. line'[r] = LogLevel(stErr[r], reply[r].status)
  BY DEF ReturnSpan, SpanInv
<1>6. Decided(r)'
  BY <1>1, <1>4 DEF Decided, ClientSawFailure, KindSeen
<1> QED
  BY <1>1, <1>4, <1>5, <1>6 DEF Tells, Before, After

LEMMA OverloadTells ==
    ASSUME Types, SpanInv, NEW r \in Requests, OverloadSpan(r)
    PROVE  Tells(r)'
<1>1. /\ pc'[r] = "rejected" /\ reply'[r].status = 503
      /\ reply'[r].body = "gateway"
  BY DEF OverloadSpan, Overload, Goto, Answer, Types
<1>2. st'[r].outcome = "overloaded"
  <2>1. st[r] \in State
    BY DEF Types
  <2> QED
    BY <2>1 DEF OverloadSpan, Overload, Types, State
<1>3. span'[r].red /\ span'[r].kind = "overloaded"
  <2>1. "overloaded" \in ErrorKinds /\ span[r] \in Attributes
    BY DEF ErrorKinds, Outcomes, SpanInv
  <2>2. span'[r] = Red(span[r], "overloaded")
    BY DEF OverloadSpan, Note, SpanInv
  <2> QED
    BY <2>1, <2>2, RedSpan
<1>4. line'[r] = "error"
  BY DEF OverloadSpan, LogLevel, SpanInv
<1> QED
  BY <1>1, <1>2, <1>3, <1>4 DEF Tells, Before, After

LEMMA SameDecided ==
    ASSUME NEW q \in Requests, Decided(q),
           st'[q] = st[q], reply'[q] = reply[q], span'[q] = span[q],
           stErr'[q] = stErr[q], q \in gone => q \in gone'
    PROVE  Decided(q)'
<1>1. ClientSawFailure(q)' <=> ClientSawFailure(q)
  BY DEF ClientSawFailure
<1>2. KindSeen(q)' = KindSeen(q)
  BY DEF KindSeen
<1> QED
  BY <1>1, <1>2, Zenon DEF Decided

\* What is told of a request stays true while its variables stay as they are.
LEMMA SameTells ==
    ASSUME NEW q \in Requests, Tells(q),
           pc'[q] = pc[q], st'[q] = st[q], reply'[q] = reply[q],
           span'[q] = span[q], stErr'[q] = stErr[q], line'[q] = line[q],
           q \in gone => q \in gone'
    PROVE  Tells(q)'
<1>1. Clean(q) => Clean(q)'
  BY Zenon DEF Clean
<1>2. Decided(q) => Decided(q)'
  BY SameDecided
<1>3. /\ pc[q] \in Before => Clean(q) /\ st[q].outcome = ""
      /\ pc[q] = "stream" =>
            Clean(q) /\ reply[q].status < 400 /\ reply[q].body = "stream"
      /\ pc[q] \in {"return"} \cup After => Decided(q)
      /\ pc[q] \in After =>
            /\ span[q].client = reply[q].status
            /\ line[q] = LogLevel(stErr[q], reply[q].status)
      /\ pc[q] = "rejected" =>
            /\ span[q].red /\ span[q].kind = "overloaded" /\ line[q] = "error"
            /\ reply[q].status = 503 /\ reply[q].body = "gateway"
            /\ st[q].outcome = "overloaded"
  BY DEF Tells
<1>4. LogLevel(stErr'[q], reply'[q].status) = LogLevel(stErr[q], reply[q].status)
  OBVIOUS
<1>5. pc'[q] \in Before => Clean(q)' /\ st'[q].outcome = ""
  BY <1>1, <1>3
<1>6. pc'[q] = "stream" =>
        Clean(q)' /\ reply'[q].status < 400 /\ reply'[q].body = "stream"
  BY <1>1, <1>3
<1>7. pc'[q] \in {"return"} \cup After => Decided(q)'
  BY <1>2, <1>3
<1>8. pc'[q] \in After =>
        /\ span'[q].client = reply'[q].status
        /\ line'[q] = LogLevel(stErr'[q], reply'[q].status)
  BY <1>3, <1>4
<1>9. pc'[q] = "rejected" =>
        /\ span'[q].red /\ span'[q].kind = "overloaded" /\ line'[q] = "error"
        /\ reply'[q].status = 503 /\ reply'[q].body = "gateway"
        /\ st'[q].outcome = "overloaded"
  BY <1>3
<1> QED
  BY <1>5, <1>6, <1>7, <1>8, <1>9 DEF Tells

LEMMA QuietTells ==
    ASSUME Types, SpanInv, NEW r \in Requests, Quietly(r)
    PROVE  Tells(r)'
<1>0. /\ Tells(r) /\ st[r] \in State
      /\ span' = span /\ stErr' = stErr /\ line' = line
  BY DEF Quietly, SpanInv, Types
<1>1. CASE Admit(r) \/ CountIn(r) \/ DoOk(r) \/ DoErr(r)
  <2>1. pc[r] \in Before /\ pc'[r] \in Before /\ st' = st
    BY <1>1 DEF Admit, CountIn, DoOk, DoErr, Goto, Types, Before
  <2>2. Clean(r) /\ st[r].outcome = ""
    BY <1>0, <2>1 DEF Tells
  <2>3. Clean(r)' /\ st'[r].outcome = ""
    BY <1>0, <2>1, <2>2 DEF Clean
  <2> QED
    BY <2>1, <2>3 DEF Tells, Before, After
<1>2. CASE RelayStream(r)
  <2>1. /\ pc[r] \in Before /\ pc'[r] = "stream" /\ reply'[r].body = "stream"
        /\ reply'[r].status < 400
    BY <1>2 DEF RelayStream, Streams, Answer, Goto, Types, Before
  <2>2. Clean(r)'
    BY <1>0, <2>1 DEF Tells, Clean
  <2> QED
    BY <2>1, <2>2 DEF Tells, Before, After
<1>3. CASE CountOut(r) \/ Release(r)
  <2>1. /\ pc[r] \in After /\ pc'[r] \in After
        /\ st' = st /\ reply' = reply /\ gone' = gone
    BY <1>3 DEF CountOut, Release, Goto, Types, After
  <2>2. Decided(r) /\ span[r].client = reply[r].status
        /\ line[r] = LogLevel(stErr[r], reply[r].status)
    BY <1>0, <2>1 DEF Tells
  <2>3. Decided(r)'
    BY <1>0, <2>1, <2>2, SameDecided
  <2>4. /\ span'[r].client = reply'[r].status
        /\ line'[r] = LogLevel(stErr'[r], reply'[r].status)
    BY <1>0, <2>1, <2>2
  <2>5. pc'[r] \notin Before \cup {"stream", "rejected"}
    BY <2>1 DEF Before, After
  <2> QED
    BY <2>3, <2>4, <2>5 DEF Tells
<1>4. CASE Panic(r)
  BY <1>4 DEF Panic, Goto, Types, Tells, Before, After
<1>5. CASE ClientLeaves(r) \/ ServerCancels(r)
  <2>1. /\ pc' = pc /\ st' = st /\ reply' = reply /\ gone \subseteq gone'
    BY <1>5 DEF ClientLeaves, ServerCancels
  <2> QED
    BY <1>0, <2>1, SameTells
<1> QED
  BY <1>1, <1>2, <1>3, <1>4, <1>5 DEF Quietly

LEMMA WatchedTells ==
    ASSUME Types, Types', RespHeld, SpanInv, NEW r \in Requests, Watched(r)
    PROVE  Tells(r)'
  BY PrepareTells, RecordingTells, GiveUpTells, StreamEndsTells,
     RelayBufferedTells, ReturnTells, OverloadTells, QuietTells DEF Watched

\* One request's steps leave the others and what is told of them alone.
LEMMA OthersUnwatched ==
    ASSUME Types, SpanInv, NEW q \in Requests, NEW r \in Requests, q # r,
           Watched(r)
    PROVE  /\ pc'[q] = pc[q] /\ st'[q] = st[q] /\ plan'[q] = plan[q]
           /\ conn'[q] = conn[q] /\ cur'[q] = cur[q] /\ reply'[q] = reply[q]
           /\ q \in gone' <=> q \in gone
           /\ span'[q] = span[q] /\ stErr'[q] = stErr[q] /\ line'[q] = line[q]
<1>1. /\ pc'[q] = pc[q] /\ st'[q] = st[q] /\ plan'[q] = plan[q]
      /\ conn'[q] = conn[q] /\ cur'[q] = cur[q] /\ reply'[q] = reply[q]
      /\ q \in gone' <=> q \in gone
  BY WatchedDoes, OthersStay
<1>2. span'[q] = span[q]
  BY DEF SpanInv, Watched, Recording, Note, Quietly, OverloadSpan, PrepareSpan,
     RetryAfterErrorSpan, RetryAfterStatusSpan, AcceptSpan, RedoOkSpan,
     RedoErrSpan, GiveUpSpan, StreamEndsSpan, RelayBufferedSpan, ReturnSpan
<1>3. stErr'[q] = stErr[q]
  BY DEF SpanInv, Watched, Recording, SetErr, Quietly, OverloadSpan,
     PrepareSpan, RetryAfterErrorSpan, RetryAfterStatusSpan, AcceptSpan,
     RedoOkSpan, RedoErrSpan, GiveUpSpan, StreamEndsSpan, RelayBufferedSpan,
     ReturnSpan
<1>4. line'[q] = line[q]
  BY DEF SpanInv, Watched, Recording, Quietly, OverloadSpan,
     PrepareSpan, RetryAfterErrorSpan, RetryAfterStatusSpan, AcceptSpan,
     RedoOkSpan, RedoErrSpan, GiveUpSpan, StreamEndsSpan, RelayBufferedSpan,
     ReturnSpan
<1> QED
  BY <1>1, <1>2, <1>3, <1>4

LEMMA OthersSpan ==
    ASSUME Types, SpanInv, NEW q \in Requests, NEW r \in Requests, q # r,
           Watched(r)
    PROVE  Tells(q)'
<1>1. Tells(q)
  BY DEF SpanInv
<1> QED
  BY <1>1, OthersUnwatched, SameTells

\* A step that records s, and nothing else, keeps the type of the spans.
LEMMA NoteType ==
    ASSUME span \in [Requests -> Attributes], NEW r \in Requests,
           NEW s \in Attributes, Note(r, s)
    PROVE  span' \in [Requests -> Attributes]
  BY DEF Note

\* A step that makes the span red with a kind of error keeps it as well.
LEMMA NoteRed ==
    ASSUME span \in [Requests -> Attributes], NEW r \in Requests,
           NEW k \in ErrorKinds, Note(r, Red(span[r], k))
    PROVE  span' \in [Requests -> Attributes]
<1>1. Red(span[r], k) \in Attributes
  BY RedSpan
<1> QED
  BY <1>1, NoteType

LEMMA LineType ==
    ASSUME line \in [Requests -> Levels], NEW r \in Requests, Watched(r)
    PROVE  line' \in [Requests -> Levels]
<1>1. \/ line' = line
      \/ line' = [line EXCEPT ![r] = LogLevel(FALSE, 503)]
      \/ line' = [line EXCEPT ![r] = LogLevel(stErr[r], reply[r].status)]
  BY DEF Watched, Recording, Quietly, OverloadSpan, PrepareSpan,
     RetryAfterErrorSpan, RetryAfterStatusSpan, AcceptSpan, RedoOkSpan,
     RedoErrSpan, GiveUpSpan, StreamEndsSpan, RelayBufferedSpan, ReturnSpan
<1>2. /\ LogLevel(FALSE, 503) \in Levels
      /\ LogLevel(stErr[r], reply[r].status) \in Levels
  BY DEF LogLevel, Levels
<1> QED
  BY <1>1, <1>2

LEMMA ErrType ==
    ASSUME stErr \in [Requests -> BOOLEAN], NEW r \in Requests, Watched(r)
    PROVE  stErr' \in [Requests -> BOOLEAN]
<1>1. ASSUME NEW b \in BOOLEAN, SetErr(r, b)
      PROVE  stErr' \in [Requests -> BOOLEAN]
  BY <1>1, Zenon DEF SetErr
<1>2. CASE Quietly(r) \/ OverloadSpan(r) \/ Recording(r) \/ ReturnSpan(r)
  <2>1. stErr' = stErr
    BY <1>2 DEF Recording, Quietly, OverloadSpan, RetryAfterErrorSpan,
       RetryAfterStatusSpan, AcceptSpan, RedoOkSpan, RedoErrSpan, ReturnSpan
  <2> QED
    BY <2>1
<1>3. CASE PrepareSpan(r)
  <2>1. SetErr(r, st'[r].outcome \in WithErr)
    BY <1>3 DEF PrepareSpan
  <2>2. (st'[r].outcome \in WithErr) \in BOOLEAN
    OBVIOUS
  <2> HIDE DEF WithErr
  <2> QED
    BY <1>1, <2>1, <2>2
<1>4. CASE GiveUpSpan(r)
  <2>1. SetErr(r, TRUE)
    BY <1>4 DEF GiveUpSpan
  <2> QED
    BY <2>1, <1>1, Zenon
<1>5. CASE StreamEndsSpan(r)
  <2> DEFINE b == st'[r].outcome \in {"stream_stall", "stream_broken",
                                      "client_gone"}
  <2>1. SetErr(r, b)
    BY <1>5 DEF StreamEndsSpan
  <2>2. b \in BOOLEAN
    OBVIOUS
  <2> HIDE DEF b
  <2> QED
    BY <1>1, <2>1, <2>2
<1>6. CASE RelayBufferedSpan(r)
  <2>1. \E b \in BOOLEAN : SetErr(r, b)
    BY <1>6 DEF RelayBufferedSpan
  <2> QED
    BY <1>1, <2>1
<1> QED
  BY <1>2, <1>3, <1>4, <1>5, <1>6 DEF Watched

LEMMA SpanType ==
    ASSUME Types, Types', span \in [Requests -> Attributes],
           NEW r \in Requests, Watched(r)
    PROVE  span' \in [Requests -> Attributes]
<1>0. span[r] \in Attributes
  OBVIOUS
<1>1. st'[r].outcome \in ErrorKinds
  BY DEF Types, State, ErrorKinds
<1>2. {"overloaded", "upstream_error", "response_too_large",
       "read_upstream_failed", "write_client_failed", "upstream_status"}
         \subseteq ErrorKinds
  BY DEF ErrorKinds, Outcomes
<1>3. CASE Quietly(r)
  BY <1>3 DEF Quietly
<1>4. CASE OverloadSpan(r)
  <2>1. Note(r, Red(span[r], "overloaded"))
    BY <1>4 DEF OverloadSpan
  <2> QED
    BY <1>2, <2>1, NoteRed
<1>5. CASE PrepareSpan(r) \/ StreamEndsSpan(r)
  <2>1. Note(r, Red(span[r], st'[r].outcome)) \/ Note(r, span[r])
    BY <1>5 DEF PrepareSpan, StreamEndsSpan
  <2> QED
    BY <1>0, <1>1, <2>1, NoteType, NoteRed
<1>6. CASE Recording(r)
  BY <1>0, <1>6, NoteType, RecordingKeepsStatus DEF SameStatus
<1>7. CASE GiveUpSpan(r)
  <2>1. Note(r, Red(span[r], "upstream_error"))
    BY <1>7 DEF GiveUpSpan
  <2> QED
    BY <1>2, <2>1, NoteRed
<1>8. CASE RelayBufferedSpan(r)
  <2> DEFINE resp == conn[r][cur[r]].resp
             told == Buffered(span[r], resp, st'[r].outcome, reply'[r].body)
  <2>1. Note(r, told)
    BY <1>8 DEF RelayBufferedSpan
  <2>2. \A k \in ErrorKinds : Red(span[r], k) \in Attributes
    BY <1>0, RedSpan
  <2>3. Red(Red(span[r], "upstream_status"), "response_too_large") \in Attributes
    BY <1>2, <2>2, RedSpan
  <2>4. RejectOversize(span[r], resp) \in Attributes
    BY <1>2, <2>2, <2>3 DEF RejectOversize
  <2>5. told \in Attributes
    BY <1>0, <1>1, <1>2, <2>2, <2>4 DEF Buffered
  <2> HIDE DEF told
  <2> QED
    BY <2>1, <2>5, NoteType
<1>9. CASE ReturnSpan(r)
  <2> DEFINE told == [span[r] EXCEPT !.client = reply[r].status,
                                     !.count = st[r].attempts]
  <2>1. reply[r].status \in Nat /\ st[r].attempts \in Nat
    BY DEF Types, Reply, State
  <2>2. told \in Attributes
    BY <1>0, <2>1 DEF Attributes
  <2>3. Note(r, told)
    BY <1>9 DEF ReturnSpan
  <2> HIDE DEF told
  <2> QED
    BY <2>2, <2>3, NoteType
<1> QED
  BY <1>3, <1>4, <1>5, <1>6, <1>7, <1>8, <1>9 DEF Watched

LEMMA StepSpan ==
    ASSUME Types, Types', RespHeld, SpanInv, [ONext]_ovars
    PROVE  SpanInv'
<1>0. /\ span \in [Requests -> Attributes] /\ stErr \in [Requests -> BOOLEAN]
      /\ line \in [Requests -> Levels] /\ \A q \in Requests : Tells(q)
  BY DEF SpanInv
<1>1. CASE UNCHANGED ovars
  <2>1. /\ span' = span /\ stErr' = stErr /\ line' = line /\ pc' = pc /\ st' = st
        /\ reply' = reply /\ gone' = gone
    BY <1>1 DEF ovars, vars
  <2>2. ASSUME NEW q \in Requests PROVE Tells(q)'
    BY <1>0, <2>1, <2>2, SameTells
  <2> QED
    BY <1>0, <2>1, <2>2 DEF SpanInv
<1>2. ASSUME NEW r \in Requests, Watched(r) PROVE SpanInv'
  <2>1. ASSUME NEW q \in Requests PROVE Tells(q)'
    <3>1. CASE q = r
      BY <1>2, <3>1, WatchedTells
    <3>2. CASE q # r
      BY <1>2, <3>2, OthersSpan
    <3> QED
      BY <3>1, <3>2
  <2>2. /\ span' \in [Requests -> Attributes]
        /\ stErr' \in [Requests -> BOOLEAN] /\ line' \in [Requests -> Levels]
    BY <1>0, <1>2, SpanType, ErrType, LineType
  <2> QED
    BY <2>1, <2>2 DEF SpanInv
<1>3. ONext => \E r \in Requests : Watched(r)
  BY DEF ONext, Watched, Recording
<1> QED
  BY <1>1, <1>2, <1>3

LEMMA InitSpan == OInit => SpanInv
<1> SUFFICES ASSUME OInit PROVE SpanInv
  OBVIOUS
<1>1. Blank \in Attributes
  BY DEF Blank, NoFailover, Attributes, Switch, Stages, ErrorKinds, Outcomes,
     Names
<1>2. /\ span = [r \in Requests |-> Blank] /\ stErr = [r \in Requests |-> FALSE]
      /\ line = [r \in Requests |-> "none"]
  BY DEF OInit
<1>3. ASSUME NEW r \in Requests PROVE Tells(r)
  <2>1. pc[r] = "idle" /\ st[r].outcome = ""
    BY DEF OInit, Init
  <2>2. Clean(r)
    BY <1>2 DEF Clean, Blank
  <2> QED
    BY <2>1, <2>2 DEF Tells, Before, After
<1>4. span \in [Requests -> Attributes]
  BY <1>1, <1>2
<1>5. stErr \in [Requests -> BOOLEAN] /\ line \in [Requests -> Levels]
  BY <1>2 DEF Levels
<1> QED
  BY <1>3, <1>4, <1>5 DEF SpanInv

LEMMA SpanInvariance == OSpec => [](Inductive /\ SpanInv)
<1>1. Inductive /\ Inductive' /\ SpanInv /\ [ONext]_ovars => SpanInv'
  BY StepSpan DEF Inductive
<1>2. OSpec => []Inductive
  BY SpansOnlyWatch, Invariance, PTL DEF Spec
<1> QED
  BY <1>1, <1>2, InitSpan, PTL DEF OSpec, OSafety

\* Whatever way a request ends, it is counted once, its span is red if and only if
\* the client has seen a failure, with the kind the metrics have, and its log line
\* agrees (obs/errors.go:194-195, 389-392; observe.go:54-58; gateway.go:363-365).
THEOREM WhatIsToldIsTrue == OSpec => []EndsAreTold
<1>1. OSpec => []CountedOnce
  BY SpansOnlyWatch, EveryEndCounted, PTL
<1>2. Inductive /\ SpanInv => SpanIsRedOnFailure /\ KindIsOutcome
  <2> SUFFICES ASSUME Inductive, SpanInv, NEW r \in Told
               PROVE  /\ span[r].red <=> ClientSawFailure(r)
                      /\ pc[r] # "rejected" => span[r].client = reply[r].status
                      /\ span[r].red => line[r] # "info"
                      /\ line[r] # "info" /\ ~span[r].red =>
                            st[r].outcome = "client_gone" \/ r \in gone
                      /\ span[r].kind = KindSeen(r)
    BY DEF SpanIsRedOnFailure, KindIsOutcome, KindSeen
  <2>1. r \in Requests /\ Tells(r) /\ reply[r].status \in Nat
    BY DEF Told, SpanInv, Inductive, Types, Reply
  <2>2. CASE pc[r] = "rejected"
    <3>1. /\ span[r].red /\ span[r].kind = "overloaded" /\ line[r] = "error"
          /\ reply[r].status = 503 /\ reply[r].body = "gateway"
          /\ st[r].outcome = "overloaded"
      BY <2>1, <2>2 DEF Tells
    <3>2. ClientSawFailure(r)
      BY <3>1 DEF ClientSawFailure
    <3>3. KindSeen(r) = "overloaded"
      BY <3>1 DEF KindSeen
    <3> QED
      BY <2>2, <3>1, <3>2, <3>3
  <2>3. CASE pc[r] \in After
    <3>1. /\ Decided(r) /\ span[r].client = reply[r].status
          /\ line[r] = LogLevel(stErr[r], reply[r].status)
      BY <2>1, <2>3 DEF Tells
    <3>2. line[r] # "info" <=> stErr[r] \/ reply[r].status >= 400
      BY <2>1, <3>1 DEF LogLevel
    <3> QED
      BY <3>1, <3>2 DEF Decided, ClientSawFailure
  <2> QED
    BY <2>2, <2>3 DEF Told, After
<1> QED
  BY <1>1, <1>2, SpanInvariance, PTL DEF EndsAreTold

----------------------------------------------------------------------------
(* What is told of a switch                                                *)

\* Where nothing has failed yet that could be told.
Start == {"idle", "admitted", "resolve", "readBody", "rewrite", "build", "do",
          "err", "got"}

\* In the operators below s is a span, t a state, p a plan, and c and d are the
\* two attempts.
Untouched(s, t) ==
    /\ s.failover = NoFailover /\ s.count = 0
    /\ ~t.failedOver /\ t.attempts = 0

\* The first attempt is the failure that a switch with this stage starts from.
FailedFirst(c, stage) ==
    \/ stage = "transport" /\ c.phase = "failed" /\ c.resp.status = 0
    \/ /\ stage = "status" /\ c.phase # "failed"
       /\ c.resp.status \in CapabilityFailoverStatuses

\* The retry is on its way, and only the first failure has been recorded.
Midway(s, t, p, c, k) ==
    LET stage == IF k = 1 THEN "status" ELSE "transport"
    IN  /\ s.failover = NoFailover /\ s.count = 1 /\ s.warn
        /\ s.stage = stage /\ s.model = c.model
        /\ ~t.failedOver /\ t.attempts = 1
        /\ FailedFirst(c, stage)
        /\ p.model # t.up

\* The failover was given up, before or with its upstream call.
GivenUp(s, t, p, c, d) ==
    /\ s.failover.outcome = "aborted" /\ s.failover.to = NoModel
    /\ ~t.failedOver /\ s.count = 2 /\ s.model = p.model
    /\ \/ d.phase = "none" /\ s.stage = "rewrite"
       \/ d.phase = "failed" /\ s.stage = "transport" /\ d.model # c.model

\* The second model has answered, with a failure of its own or not.
TakenOver(s, t, p, c, d) ==
    /\ d.phase \notin {"none", "failed"} /\ d.model # c.model
    /\ s.failover.to = d.model /\ t.failedOver
    /\ \/ /\ s.failover.outcome = "exhausted" /\ d.resp.status >= 400
          /\ s.count = 2 /\ s.stage = "status" /\ s.model = p.model
       \/ /\ s.failover.outcome = "succeeded" /\ d.resp.status < 400
          /\ s.warn /\ s.count = 1 /\ s.stage = s.failover.stage
          /\ s.model = c.model

Retried(s, t, p, c, d) ==
    /\ s.failover.from = c.model /\ s.failover.first = c.resp.status
    /\ FailedFirst(c, s.failover.stage)
    /\ GivenUp(s, t, p, c, d) \/ TakenOver(s, t, p, c, d)

\* Everything the two properties say, as one story of two attempts.
Story(s, t, p, c, d) ==
    /\ t.attempts = s.count
    /\ Untouched(s, t) \/ Retried(s, t, p, c, d)

\* What a request at the place at has told, k being the attempt it holds.
Tale(at, s, t, p, c, d, k) ==
    /\ at \in Start => Untouched(s, t)
    /\ at \in {"do", "err", "got"} /\ p.enabled => p.model # t.up
    /\ at \in {"do", "err"} => c.resp.status = 0
    /\ at = "redo" => Midway(s, t, p, c, k)
    /\ at \in Over => Story(s, t, p, c, d)

TaleOf(q) ==
    Tale(pc[q], span[q], st[q], plan[q], conn[q][1], conn[q][2], cur[q])

TaleInv == \A q \in Requests : TaleOf(q)

----------------------------------------------------------------------------

\* A story depends on an attempt only by its model, its status and by whether it
\* was made and failed.
LEMMA StoryStays ==
    ASSUME NEW s, NEW s2, NEW t, NEW t2, NEW p, NEW c, NEW c2, NEW d, NEW d2,
           s2.failover = s.failover, s2.count = s.count, s2.stage = s.stage,
           s2.model = s.model, s.warn => s2.warn,
           t2.attempts = t.attempts, t2.failedOver = t.failedOver,
           c2.model = c.model, c2.resp = c.resp,
           c2.phase = "failed" <=> c.phase = "failed",
           d2.model = d.model, d2.resp = d.resp,
           d2.phase = "failed" <=> d.phase = "failed",
           d2.phase = "none" <=> d.phase = "none",
           Story(s, t, p, c, d)
    PROVE  Story(s2, t2, p, c2, d2)
<1>1. Untouched(s, t) => Untouched(s2, t2)
  BY DEF Untouched
<1>2. \A stage : FailedFirst(c, stage) => FailedFirst(c2, stage)
  BY DEF FailedFirst
<1>3. GivenUp(s, t, p, c, d) => GivenUp(s2, t2, p, c2, d2)
  BY DEF GivenUp
<1>4. TakenOver(s, t, p, c, d) => TakenOver(s2, t2, p, c2, d2)
  BY DEF TakenOver
<1>5. Retried(s, t, p, c, d) => Retried(s2, t2, p, c2, d2)
  BY <1>2, <1>3, <1>4 DEF Retried
<1> QED
  BY <1>1, <1>5 DEF Story

LEMMA NoFailoverFields == NoFailover.stage = "" /\ NoFailover.outcome = ""
  BY DEF NoFailover

\* The story is what SwitchTold and AttemptsTold say.
LEMMA StoryTells ==
    ASSUME NEW r \in Requests, span[r].failover.stage \in Stages,
           conn[r][2].resp.status \in Nat,
           Story(span[r], st[r], plan[r], conn[r][1], conn[r][2])
    PROVE  SwitchTold(r) /\ AttemptsTold(r)
<1> DEFINE s == span[r]
           t == st[r]
           p == plan[r]
           c == conn[r][1]
           d == conn[r][2]
           f == s.failover
<1>1. CASE Untouched(s, t)
  <2>1. f = NoFailover /\ s.count = 0 /\ ~t.failedOver
    BY <1>1 DEF Untouched
  <2>2. f.stage = "" /\ f.outcome = ""
    BY <2>1, NoFailoverFields
  <2>3. s.count = 0
    BY <2>1
  <2>4. ~(s.count > 0)
    BY <2>3
  <2>5. f.outcome # "succeeded" /\ f.outcome # "exhausted" /\ f.outcome # "aborted"
    BY <2>2
  <2>6. (f.stage # "" <=> s.count > 0)
        /\ (st[r].failedOver <=> f.outcome \in {"succeeded", "exhausted"})
    BY <2>1, <2>2, <2>4, <2>5, Zenon
  <2> QED
    BY <2>1, <2>2, <2>5, <2>6 DEF SwitchTold, AttemptsTold
<1>2. CASE Retried(s, t, p, c, d)
  <2>1. /\ f.from = c.model /\ f.first = c.resp.status
        /\ f.stage = IF c.phase = "failed" THEN "transport" ELSE "status"
        /\ f.first \notin {401, 403}
        /\ f.first > 0 => f.first >= 400
        /\ c.phase = "failed" \/ c.resp.status >= 400
    <3>1. f.from = c.model /\ f.first = c.resp.status /\ FailedFirst(c, f.stage)
      BY <1>2 DEF Retried
    <3>2. CASE f.stage = "transport" /\ c.phase = "failed" /\ c.resp.status = 0
      BY <3>1, <3>2
    <3>3. CASE /\ f.stage = "status" /\ c.phase # "failed"
               /\ c.resp.status \in CapabilityFailoverStatuses
      BY <3>1, <3>3 DEF CapabilityFailoverStatuses, FailoverStatuses
    <3> QED
      BY <3>1, <3>2, <3>3 DEF FailedFirst
  <2>2. CASE GivenUp(s, t, p, c, d)
    <3>1. /\ f.outcome = "aborted" /\ f.to = NoModel /\ ~t.failedOver
          /\ s.count = 2 /\ s.model = p.model
          /\ d.phase \in {"none", "failed"}
          /\ d.phase # "none" => d.model # c.model
          /\ s.stage = IF d.phase = "failed" THEN "transport" ELSE "rewrite"
      BY <2>2 DEF GivenUp
    <3> QED
      BY <2>1, <3>1 DEF SwitchTold, AttemptsTold
  <2>3. CASE TakenOver(s, t, p, c, d)
    <3>1. /\ d.phase \notin {"none", "failed"} /\ d.model # c.model
          /\ f.to = d.model /\ t.failedOver
      BY <2>3 DEF TakenOver
    <3>2. CASE f.outcome = "exhausted"
      <4>1. d.resp.status >= 400 /\ s.count = 2 /\ s.stage = "status"
            /\ s.model = p.model
        BY <2>3, <3>2 DEF TakenOver
      <4> QED
        BY <2>1, <3>1, <3>2, <4>1 DEF SwitchTold, AttemptsTold
    <3>3. CASE f.outcome = "succeeded"
      <4>1. d.resp.status < 400 /\ s.warn /\ s.count = 1 /\ s.stage = f.stage
            /\ s.model = c.model
        BY <2>3, <3>3 DEF TakenOver
      <4> QED
        BY <2>1, <3>1, <3>3, <4>1 DEF SwitchTold, AttemptsTold
    <3> QED
      BY <2>3, <3>2, <3>3 DEF TakenOver
  <2> QED
    BY <1>2, <2>2, <2>3 DEF Retried
<1> QED
  BY <1>1, <1>2 DEF Story

----------------------------------------------------------------------------
(* What the operators of RequestSpan leave of a tale                       *)

\* s2 says of the attempts what s says, if it is not at a higher level.
SameTale(s2, s) ==
    /\ s2.failover = s.failover /\ s2.count = s.count
    /\ s2.stage = s.stage /\ s2.model = s.model
    /\ s.warn => s2.warn

LEMMA RedTale ==
    ASSUME NEW s \in Attributes, NEW k
    PROVE  SameTale(Red(s, k), s)
  BY DEF SameTale, Red, Attributes

LEMMA HeadersTale ==
    ASSUME NEW s \in Attributes, NEW client \in Nat, NEW up \in Nat
    PROVE  SameTale(Headers(s, client, up), s)
<1> DEFINE h == Headers(s, client, up)
<1>1. /\ h.failover = s.failover /\ h.count = s.count
      /\ h.stage = s.stage /\ h.model = s.model
  BY DEF Headers, Attributes
<1>2. s.warn => h.warn
  BY DEF Headers, Attributes
<1> QED
  BY <1>1, <1>2 DEF SameTale

LEMMA AttemptFailureTale ==
    ASSUME NEW s \in Attributes, NEW n \in Nat, NEW stage \in Stages,
           NEW m \in Names, NEW code \in Nat
    PROVE  LET a == AttemptFailure(s, n, stage, m, code)
           IN  /\ a \in Attributes /\ a.failover = s.failover /\ a.warn
               /\ a.count = n /\ a.stage = stage /\ a.model = m
<1>1. AttemptFailure(s, n, stage, m, code) \in Attributes
  BY AttemptFailureSpan DEF SameStatus
<1> QED
  BY <1>1 DEF AttemptFailure, Attributes

LEMMA FailoverTale ==
    ASSUME NEW s \in Attributes, NEW stage, NEW o, NEW first, NEW from, NEW to
    PROVE  LET a == Failover(s, stage, o, first, from, to)
           IN  /\ a.failover = [stage |-> stage, outcome |-> o, first |-> first,
                                from |-> from, to |-> to]
               /\ a.count = s.count /\ a.stage = s.stage /\ a.model = s.model
               /\ s.warn <=> a.warn
  BY DEF Failover, Attributes

----------------------------------------------------------------------------
(* How the tale goes on                                                    *)

TaleHere(q) ==
    /\ Types /\ AttemptInv /\ NameInv /\ SpanInv /\ TaleInv
    /\ q \in Requests

\* Until the first failure there is nothing to tell.
LEMMA PrepareTale ==
    ASSUME NEW q, TaleHere(q), PrepareSpan(q)
    PROVE  TaleOf(q)'
<1>0. /\ q \in Requests /\ st \in [Requests -> State] /\ st[q] \in State
      /\ pc \in [Requests -> PCs] /\ span \in [Requests -> Attributes]
      /\ span[q] \in Attributes /\ plan \in [Requests -> Plan]
      /\ conn \in [Requests -> [Tries -> Conn]] /\ 1 \in Tries
  BY DEF TaleHere, Types, SpanInv, Tries
<1>1. Untouched(span[q], st[q]) /\ pc[q] \in Start
  BY DEF TaleHere, TaleInv, TaleOf, Tale, Start, PrepareSpan, Resolve, ReadBody,
     Rewrite, Build
<1>2. SameTale(span'[q], span[q])
  <2>1. Note(q, Red(span[q], st'[q].outcome)) \/ Note(q, span[q])
    BY DEF PrepareSpan
  <2>2. SameTale(Red(span[q], st'[q].outcome), span[q])
    BY <1>0, RedTale
  <2>3. SameTale(span[q], span[q])
    BY DEF SameTale
  <2>4. span'[q] \in {Red(span[q], st'[q].outcome), span[q]}
    BY <1>0, <2>1 DEF Note
  <2> QED
    BY <2>2, <2>3, <2>4
<1>3. ~st'[q].failedOver /\ st'[q].attempts = 0
  <2>0. ~st[q].failedOver /\ st[q].attempts = 0
    BY <1>1 DEF Untouched
  <2>1. CASE Resolve(q) \/ ReadBody(q) \/ Build(q)
    <3>1. st'[q].failedOver = st[q].failedOver /\ st'[q].attempts = st[q].attempts
      BY <1>0, <2>1 DEF Resolve, ReadBody, Build, Refuse, State
    <3> QED
      BY <2>0, <3>1
  <2>2. CASE Rewrite(q)
    <3>1. \/ st' = [st EXCEPT ![q].pub = req[q].pub, ![q].outcome = "bad_model_map"]
          \/ st' = [st EXCEPT ![q].pub = req[q].pub, ![q].outcome = "unmapped_model"]
          \/ \E s : st' = [st EXCEPT ![q] = s] /\ s.failedOver = FALSE
                     /\ s.attempts = 0
      <4>1. CASE pc'[q] = "return"
        <5>1. ~Goto(q, "build")
          BY <1>0, <4>1 DEF Goto
        <5> QED
          BY <2>2, <5>1 DEF Rewrite
      <4>2. CASE pc'[q] # "return"
        <5> DEFINE in == req[q]
                   hit == LookupKind(in)
                   cm == ResolveCapMap(in)
                   caps == in.uses \cap Want(cm)
                   made(f) == [pub |-> in.pub, up |-> f.up, kind |-> hit.kind,
                               caps |-> caps, capUsed |-> f.capUsed,
                               failedOver |-> FALSE, attempts |-> 0,
                               outcome |-> ""]
        <5>0. ~Goto(q, "return")
          BY <1>0, <4>2 DEF Goto
        <5>1. PICK up \in IF hit.kind # "none" THEN hit.ups ELSE {in.pub} :
                 \E f \in FileRoutes(caps, cm, up) : st' = [st EXCEPT ![q] = made(f)]
          BY <2>2, <5>0 DEF Rewrite
        <5>2. PICK f \in FileRoutes(caps, cm, up) : st' = [st EXCEPT ![q] = made(f)]
          BY <5>1
        <5>3. made(f).failedOver = FALSE /\ made(f).attempts = 0
          OBVIOUS
        <5> HIDE DEF made
        <5> QED
          BY <5>2, <5>3
      <4> QED
        BY <4>1, <4>2
    <3>2. CASE \E s : st' = [st EXCEPT ![q] = s] /\ s.failedOver = FALSE
                      /\ s.attempts = 0
      BY <1>0, <3>2
    <3>3. CASE st' = [st EXCEPT ![q].pub = req[q].pub, ![q].outcome = "bad_model_map"]
               \/ st' = [st EXCEPT ![q].pub = req[q].pub, ![q].outcome = "unmapped_model"]
      <4>1. st'[q].failedOver = st[q].failedOver /\ st'[q].attempts = st[q].attempts
        BY <1>0, <3>3 DEF State
      <4> QED
        BY <2>0, <4>1
    <3> QED
      BY <3>1, <3>2, <3>3
  <2> QED
    BY <2>1, <2>2 DEF PrepareSpan
<1>4. Untouched(span'[q], st'[q])
  BY <1>1, <1>2, <1>3 DEF Untouched, SameTale
<1>5. pc'[q] \in {"return", "readBody", "rewrite", "build", "do"}
  BY <1>0 DEF PrepareSpan, Resolve, ReadBody, Rewrite, Build, Refuse, Goto
<1>6. CASE pc'[q] = "do"
  <2>1. Build(q) /\ st' = st
    BY <1>0, <1>6 DEF PrepareSpan, Resolve, ReadBody, Rewrite, Build, Refuse, Goto
  <2>2. PICK p \in PlanFailover(st[q], ResolveCapMap(req[q])) :
          plan' = [plan EXCEPT ![q] = p]
    BY <1>0, <1>6, <2>1 DEF Build, Refuse, Goto
  <2>3. p.enabled => p.model # st[q].up
    BY <1>0, <2>2, InputType, ResolveCapMapType, PlanFailoverType DEF TaleHere
  <2>4. plan'[q] = p
    BY <1>0, <2>2
  <2>5. Send(q, 1, st[q].up)
    BY <1>0, <1>6, <2>1 DEF Build, Refuse, Goto
  <2>6. conn'[q][1].resp.status = 0
    BY <1>0, <2>5 DEF Send, NoConn, NoResponse
  <2> QED
    BY <1>4, <1>6, <2>1, <2>3, <2>4, <2>6 DEF TaleOf, Tale, Start, Over
<1>7. CASE pc'[q] # "do"
  <2>1. pc'[q] \in Over => Story(span'[q], st'[q], plan'[q], conn'[q][1], conn'[q][2])
    BY <1>4 DEF Story, Untouched
  <2> QED
    BY <1>4, <1>5, <1>7, <2>1 DEF TaleOf, Tale
<1> QED
  BY <1>6, <1>7

LEMMA TaleFacts ==
    ASSUME NEW q, TaleHere(q)
    PROVE  /\ q \in Requests /\ Tries = {1, 2}
           /\ st \in [Requests -> State] /\ st[q] \in State
           /\ pc \in [Requests -> PCs] /\ plan[q] \in Plan
           /\ span \in [Requests -> Attributes] /\ span[q] \in Attributes
           /\ conn \in [Requests -> [Tries -> Conn]]
           /\ conn[q][1] \in Conn /\ conn[q][2] \in Conn
           /\ cur \in [Requests -> {0, 1, 2}]
           /\ st[q].up \in Names /\ plan[q].model \in Names
           /\ conn[q][1].resp.status \in Nat /\ conn[q][2].resp.status \in Nat
           /\ TaleOf(q) /\ NamesOf(q) /\ Shape(pc[q], conn[q], cur[q])
<1>1. /\ q \in Requests /\ Tries = {1, 2}
      /\ st \in [Requests -> State] /\ st[q] \in State
      /\ pc \in [Requests -> PCs] /\ plan[q] \in Plan
      /\ span \in [Requests -> Attributes] /\ span[q] \in Attributes
      /\ conn \in [Requests -> [Tries -> Conn]]
      /\ conn[q][1] \in Conn /\ conn[q][2] \in Conn
      /\ cur \in [Requests -> {0, 1, 2}]
  BY DEF TaleHere, Types, SpanInv, Tries
<1>2. st[q].up \in Names /\ plan[q].model \in Names
  BY <1>1 DEF State, Plan, Names
<1>3. conn[q][1].resp.status \in Nat /\ conn[q][2].resp.status \in Nat
  BY <1>1, StatusType
<1>4. TaleOf(q) /\ NamesOf(q) /\ Shape(pc[q], conn[q], cur[q])
  BY DEF TaleHere, TaleInv, NameInv, AttemptInv
<1> QED
  BY <1>1, <1>2, <1>3, <1>4

\* The first attempt has failed without an answer.
LEMMA RetryAfterErrorTale ==
    ASSUME NEW q, TaleHere(q), RetryAfterErrorSpan(q)
    PROVE  TaleOf(q)'
<1> DEFINE s == span[q]
           c == conn[q][1]
           m == plan[q].model
           up == st[q].up
           a == AttemptFailure(s, 1, "transport", up, 0)
<1>0. RetryAfterError(q) /\ pc[q] = "err" /\ plan' = plan /\ plan[q].enabled
  BY DEF RetryAfterErrorSpan, RetryAfterError
<1>1. /\ s.failover = NoFailover /\ s.count = 0
      /\ ~st[q].failedOver /\ st[q].attempts = 0
      /\ m # up /\ c.resp.status = 0 /\ c.model = up /\ c.phase = "failed"
      /\ cur[q] = 0 /\ conn[q][2].phase = "none"
  BY <1>0, TaleFacts DEF TaleOf, Tale, Untouched, Start, NamesOf, Waiting, Shape
<1>2. /\ a \in Attributes /\ a.failover = NoFailover /\ a.warn
      /\ a.count = 1 /\ a.stage = "transport" /\ a.model = up
  <2>1. s \in Attributes /\ up \in Names
    BY TaleFacts
  <2>2. "transport" \in Stages
    BY DEF Stages
  <2> HIDE DEF s, up
  <2>3. /\ a \in Attributes /\ a.failover = s.failover /\ a.warn
        /\ a.count = 1 /\ a.stage = "transport" /\ a.model = up
    BY <2>1, <2>2, AttemptFailureTale
  <2> QED
    BY <1>1, <2>3
<1>3. Note(q, RedoSpan(q, a, "transport", 0))
  BY <1>1 DEF RetryAfterErrorSpan
<1>4. /\ cur' = cur /\ st'[q].failedOver = st[q].failedOver
      /\ st'[q].up = up /\ conn'[q][1] = c
  <2>1. cur' = cur
    BY <1>0 DEF RetryAfterError
  <2>2. Redo(q, 1, "failed")
    BY <1>0 DEF RetryAfterError
  <2>3. /\ st'[q].failedOver = st[q].failedOver /\ st'[q].up = up
    BY <2>2, TaleFacts DEF Redo, State
  <2>4. conn' = conn \/ Send(q, 2, m)
    BY <1>0 DEF RetryAfterError
  <2>5. conn'[q][1] = c
    BY <2>4, TaleFacts DEF Send
  <2> QED
    BY <2>1, <2>3, <2>5
<1>5. CASE Rewritable(req[q])
  <2>1. span'[q] = a
    BY <1>3, <1>5, TaleFacts DEF Note, RedoSpan
  <2>2. pc'[q] = "redo" /\ st'[q].attempts = 1
    BY <1>0, <1>1, <1>5, TaleFacts DEF RetryAfterError, Redo, State, Goto
  <2>3. FailedFirst(c, "transport")
    BY <1>1 DEF FailedFirst
  <2>4. ~st'[q].failedOver /\ plan'[q].model # st'[q].up
    BY <1>0, <1>1, <1>4
  <2> HIDE DEF a
  <2>5. Midway(a, st'[q], plan'[q], c, cur'[q])
    BY <1>1, <1>2, <1>4, <2>2, <2>3, <2>4 DEF Midway
  <2> QED
    BY <1>4, <2>1, <2>2, <2>5 DEF TaleOf, Tale, Start, Over
<1>6. CASE ~Rewritable(req[q])
  <2> DEFINE b == AttemptFailure(a, 2, "rewrite", m, 0)
             e == Failover(b, "transport", "aborted", 0, up, NoModel)
  <2>1. /\ b \in Attributes /\ b.count = 2 /\ b.stage = "rewrite"
        /\ b.model = m
    <3>1. a \in Attributes /\ m \in Names
      BY <1>2, TaleFacts
    <3>2. "rewrite" \in Stages
      BY DEF Stages
    <3> HIDE DEF a, m
    <3> QED
      BY <3>1, <3>2, AttemptFailureTale
  <2>2. /\ e.failover = [stage |-> "transport", outcome |-> "aborted",
                         first |-> 0, from |-> up, to |-> NoModel]
        /\ e.count = 2 /\ e.stage = "rewrite" /\ e.model = m
    <3> HIDE DEF b
    <3> QED
      BY <2>1, FailoverTale
  <2>3. span'[q] = e
    <3>1. a.count + 1 = 2
      BY <1>2
    <3> QED
      BY <1>3, <1>6, <3>1, TaleFacts DEF Note, RedoSpan, Aborted
  <2>4. pc'[q] = "failed" /\ st'[q].attempts = 2 /\ conn' = conn
    BY <1>0, <1>1, <1>6, TaleFacts DEF RetryAfterError, Redo, State, Goto
  <2>5. FailedFirst(c, "transport")
    BY <1>1 DEF FailedFirst
  <2>6. ~st'[q].failedOver
    BY <1>1, <1>4
  <2> HIDE DEF e
  <2>7. GivenUp(e, st'[q], plan[q], c, conn[q][2])
    BY <1>1, <2>2, <2>6 DEF GivenUp
  <2>8. Retried(e, st'[q], plan[q], c, conn[q][2])
    BY <1>1, <2>2, <2>5, <2>7 DEF Retried
  <2>9. Story(e, st'[q], plan[q], c, conn[q][2])
    BY <2>2, <2>4, <2>8 DEF Story
  <2> QED
    BY <1>0, <2>3, <2>4, <2>9 DEF TaleOf, Tale, Start, Over
<1> QED
  BY <1>5, <1>6

\* The first attempt has been answered with a failure worth another.
LEMMA RetryAfterStatusTale ==
    ASSUME NEW q, TaleHere(q), RetryAfterStatusSpan(q)
    PROVE  TaleOf(q)'
<1> DEFINE s == span[q]
           c == conn[q][1]
           c2 == conn'[q][1]
           m == plan[q].model
           up == st[q].up
           first == c.resp.status
           a == AttemptFailure(s, 1, "status", up, first)
<1>0. RetryAfterStatus(q) /\ pc[q] = "got" /\ plan' = plan /\ cur' = cur
  BY DEF RetryAfterStatusSpan, RetryAfterStatus
<1>1. plan[q].enabled /\ first \in CapabilityFailoverStatuses
  BY <1>0 DEF RetryAfterStatus, Retries, ShouldRetry, CapabilityFailoverStatuses
<1>2. /\ s.failover = NoFailover /\ s.count = 0
      /\ ~st[q].failedOver /\ st[q].attempts = 0
      /\ m # up /\ c.model = up /\ c.phase = "open" /\ cur[q] = 1
  BY <1>0, <1>1, TaleFacts DEF TaleOf, Tale, Untouched, Start, NamesOf, Waiting,
     Shape
<1>3. /\ a \in Attributes /\ a.failover = NoFailover /\ a.warn
      /\ a.count = 1 /\ a.stage = "status" /\ a.model = up
  <2>1. s \in Attributes /\ up \in Names /\ first \in Nat
    BY TaleFacts
  <2>2. "status" \in Stages
    BY DEF Stages
  <2> HIDE DEF s, up, first
  <2>3. /\ a \in Attributes /\ a.failover = s.failover /\ a.warn
        /\ a.count = 1 /\ a.stage = "status" /\ a.model = up
    BY <2>1, <2>2, AttemptFailureTale
  <2> QED
    BY <1>2, <2>3
<1>4. /\ st'[q].failedOver = st[q].failedOver /\ st'[q].up = up
      /\ c2.model = c.model /\ c2.resp = c.resp /\ c2.phase = c.phase
  <2>1. Redo(q, 1, "relay")
    BY <1>0 DEF RetryAfterStatus
  <2>2. /\ st'[q].failedOver = st[q].failedOver /\ st'[q].up = up
    BY <2>1, TaleFacts DEF Redo, State
  <2>3. c2 = [c EXCEPT !.left = DrainForReport(c.resp)]
    BY <1>0, TaleFacts DEF RetryAfterStatus
  <2>4. c2.model = c.model /\ c2.resp = c.resp /\ c2.phase = c.phase
    BY <2>3, TaleFacts DEF Conn
  <2> QED
    BY <2>2, <2>4
<1>5. FailedFirst(c2, "status") /\ ~st'[q].failedOver
  BY <1>1, <1>2, <1>4 DEF FailedFirst
<1>6. CASE Rewritable(req[q])
  <2>1. span'[q] = a
    BY <1>2, <1>6, TaleFacts DEF RetryAfterStatusSpan, Note, RedoSpan
  <2>2. pc'[q] = "redo" /\ st'[q].attempts = 1
    BY <1>0, <1>2, <1>6, TaleFacts DEF RetryAfterStatus, Redo, State, Goto
  <2>3. plan'[q].model # st'[q].up
    BY <1>0, <1>2, <1>4
  <2> HIDE DEF a
  <2>4. Midway(a, st'[q], plan'[q], c2, cur'[q])
    BY <1>0, <1>2, <1>3, <1>4, <1>5, <2>2, <2>3 DEF Midway
  <2> QED
    BY <2>1, <2>2, <2>4 DEF TaleOf, Tale, Start, Over
<1>7. CASE ~Rewritable(req[q])
  <2> DEFINE b == AttemptFailure(a, 2, "rewrite", m, 0)
             e == Failover(b, "status", "aborted", first, up, NoModel)
             h == Headers(e, first, first)
             d2 == conn'[q][2]
  <2>1. /\ b \in Attributes /\ b.count = 2 /\ b.stage = "rewrite"
        /\ b.model = m
    <3>1. a \in Attributes /\ m \in Names
      BY <1>3, TaleFacts
    <3>2. "rewrite" \in Stages
      BY DEF Stages
    <3> HIDE DEF a, m
    <3> QED
      BY <3>1, <3>2, AttemptFailureTale
  <2>2. /\ e.failover = [stage |-> "status", outcome |-> "aborted",
                         first |-> first, from |-> up, to |-> NoModel]
        /\ e.count = 2 /\ e.stage = "rewrite" /\ e.model = m
    <3> HIDE DEF b
    <3> QED
      BY <2>1, FailoverTale
  <2>3. span'[q] = h
    <3>1. a.count + 1 = 2
      BY <1>3
    <3>2. Note(q, Headers(RedoSpan(q, a, "status", first), first, first))
      BY <1>2, <1>7 DEF RetryAfterStatusSpan
    <3> QED
      BY <1>7, <3>1, <3>2, TaleFacts DEF Note, RedoSpan, Aborted
  <2>4. e \in Attributes
    <3> HIDE DEF b
    <3>1. Aborted(b, "status", first, up) \in Attributes
      BY <2>1, TaleFacts, FailoverSpan DEF SameStatus, Stages
    <3> QED
      BY <3>1 DEF Aborted
  <2>5. SameTale(h, e)
    <3> HIDE DEF e
    <3> QED
      BY <2>4, TaleFacts, HeadersTale
  <2>6. pc'[q] = "relay" /\ st'[q].attempts = 2 /\ d2.phase = "none"
    BY <1>0, <1>2, <1>7, TaleFacts
    DEF RetryAfterStatus, Redo, State, Goto, NoConn
  <2> HIDE DEF e, h
  <2>7. GivenUp(h, st'[q], plan[q], c2, d2)
    BY <1>5, <2>2, <2>5, <2>6 DEF GivenUp, SameTale
  <2>8. Retried(h, st'[q], plan[q], c2, d2)
    BY <1>2, <1>4, <1>5, <2>2, <2>5, <2>7 DEF Retried, SameTale
  <2>9. Story(h, st'[q], plan[q], c2, d2)
    BY <2>2, <2>5, <2>6, <2>8 DEF Story, SameTale
  <2> QED
    BY <1>0, <2>3, <2>6, <2>9 DEF TaleOf, Tale, Start, Over
<1> QED
  BY <1>6, <1>7

\* A response that is kept, whatever its status, after no failure at all.
LEMMA AcceptTale ==
    ASSUME NEW q, TaleHere(q), AcceptSpan(q)
    PROVE  TaleOf(q)'
<1> DEFINE s == span[q]
           code == conn[q][1].resp.status
           h == Headers(s, code, code)
<1>0. /\ pc[q] = "got" /\ pc'[q] = "relay" /\ st' = st /\ plan' = plan
      /\ conn' = conn
  BY TaleFacts DEF AcceptSpan, Accept, Goto
<1>1. Untouched(s, st[q])
  BY <1>0, TaleFacts DEF TaleOf, Tale, Start
<1>2. span'[q] = h
  BY TaleFacts DEF AcceptSpan, Note
<1>3. SameTale(h, s)
  BY TaleFacts, HeadersTale
<1> HIDE DEF h
<1>4. Untouched(h, st[q])
  BY <1>1, <1>3 DEF Untouched, SameTale
<1>5. st[q].attempts = 0 /\ h.count = 0
  BY <1>4 DEF Untouched
<1>6. Story(h, st[q], plan[q], conn[q][1], conn[q][2])
  BY <1>4, <1>5 DEF Story
<1> QED
  BY <1>0, <1>2, <1>6 DEF TaleOf, Tale, Start, Over

\* Where the retry is on its way: what is known of both attempts.
LEMMA MidwayFacts ==
    ASSUME NEW q, TaleHere(q), pc[q] = "redo"
    PROVE  LET stage == IF cur[q] = 1 THEN "status" ELSE "transport"
           IN  /\ span[q].failover = NoFailover /\ span[q].count = 1
               /\ span[q].warn /\ span[q].stage = stage
               /\ span[q].model = st[q].up /\ conn[q][1].model = st[q].up
               /\ ~st[q].failedOver /\ st[q].attempts = 1
               /\ FailedFirst(conn[q][1], stage)
               /\ plan[q].model # st[q].up
               /\ conn[q][2].model = plan[q].model
               /\ cur[q] \in {0, 1} /\ conn[q][2].phase = "sent"
               /\ conn[q][1].phase = IF cur[q] = 1 THEN "open" ELSE "failed"
<1>1. Midway(span[q], st[q], plan[q], conn[q][1], cur[q])
  BY TaleFacts DEF TaleOf, Tale
<1>2. conn[q][1].model = st[q].up /\ conn[q][2].model = plan[q].model
  BY TaleFacts DEF NamesOf, Waiting
<1>3. /\ cur[q] \in {0, 1} /\ conn[q][2].phase = "sent"
      /\ conn[q][1].phase = IF cur[q] = 1 THEN "open" ELSE "failed"
  BY TaleFacts DEF Shape
<1> QED
  BY <1>1, <1>2, <1>3 DEF Midway

\* The retry could not be sent.
LEMMA RedoErrTale ==
    ASSUME NEW q, TaleHere(q), RedoErrSpan(q)
    PROVE  TaleOf(q)'
<1> DEFINE s == span[q]
           c == conn[q][1]
           d2 == conn'[q][2]
           m == plan[q].model
           up == st[q].up
           first == c.resp.status
           stage == IF cur[q] = 1 THEN "status" ELSE "transport"
           a == AttemptFailure(s, 2, "transport", m, 0)
           e == Failover(a, stage, "aborted", first, up, NoModel)
           h == Headers(e, first, first)
<1>0. RedoErr(q) /\ pc[q] = "redo" /\ plan' = plan
  BY DEF RedoErrSpan, RedoErr
<1>1. /\ ~st[q].failedOver /\ st[q].attempts = 1 /\ m # up /\ c.model = up
      /\ FailedFirst(c, stage) /\ conn[q][2].model = m /\ cur[q] \in {0, 1}
  BY <1>0, MidwayFacts
<1>2. /\ a \in Attributes /\ a.count = 2 /\ a.stage = "transport" /\ a.model = m
  <2>1. s \in Attributes /\ m \in Names
    BY TaleFacts
  <2>2. "transport" \in Stages
    BY DEF Stages
  <2> HIDE DEF s, m
  <2> QED
    BY <2>1, <2>2, AttemptFailureTale
<1>3. /\ e \in Attributes
      /\ e.failover = [stage |-> stage, outcome |-> "aborted", first |-> first,
                       from |-> up, to |-> NoModel]
      /\ e.count = 2 /\ e.stage = "transport" /\ e.model = m
  <2>1. first \in Nat /\ up \in Names /\ stage \in Stages
    BY TaleFacts DEF Stages
  <2> HIDE DEF a, stage, first, up
  <2>2. Aborted(a, stage, first, up) \in Attributes
    BY <1>2, <2>1, FailoverSpan DEF SameStatus
  <2>3. e \in Attributes
    BY <2>2 DEF Aborted
  <2> QED
    BY <1>2, <2>3, FailoverTale
<1>4. SameTale(h, e) /\ SameTale(e, e)
  <2>1. first \in Nat
    BY TaleFacts
  <2> HIDE DEF e, first
  <2> QED
    BY <1>3, <2>1, HeadersTale DEF SameTale
<1>5. span'[q] \in {h, e}
  <2>1. st[q].attempts + 1 = 2
    BY <1>1
  <2>2. Note(q, h) \/ Note(q, e)
    BY <2>1 DEF RedoErrSpan, Aborted
  <2> HIDE DEF h, e
  <2> QED
    BY <2>2, TaleFacts DEF Note
<1>6. SameTale(span'[q], e)
  BY <1>4, <1>5
<1>7. st'[q].failedOver = st[q].failedOver /\ st'[q].attempts = 2
  BY <1>0, <1>1, TaleFacts DEF RedoErr, State
<1>8. conn'[q][1] = c /\ d2.phase = "failed" /\ d2.model = m
  <2>1. conn'[q][1] = c /\ d2 = Failed(conn[q][2])
    BY <1>0, TaleFacts DEF RedoErr
  <2> QED
    BY <1>1, <2>1, TaleFacts DEF Failed, Conn
<1>9. pc'[q] \in {"failed", "relay"}
  BY <1>0, TaleFacts DEF RedoErr, Goto
<1> HIDE DEF e, h
<1>10. ~st'[q].failedOver
  BY <1>1, <1>7
<1>11. GivenUp(span'[q], st'[q], plan[q], c, d2)
  BY <1>1, <1>3, <1>6, <1>8, <1>10 DEF GivenUp, SameTale
<1>12. Retried(span'[q], st'[q], plan[q], c, d2)
  BY <1>1, <1>3, <1>6, <1>11 DEF Retried, SameTale
<1>13. Story(span'[q], st'[q], plan[q], c, d2)
  BY <1>3, <1>6, <1>7, <1>12 DEF Story, SameTale
<1> QED
  BY <1>0, <1>8, <1>9, <1>13 DEF TaleOf, Tale, Start, Over

\* The second model has answered.
LEMMA RedoOkTale ==
    ASSUME NEW q, TaleHere(q), Types', RedoOkSpan(q)
    PROVE  TaleOf(q)'
<1> DEFINE s == span[q]
           c == conn[q][1]
           c2 == conn'[q][1]
           d2 == conn'[q][2]
           m == plan[q].model
           up == st[q].up
           first == c.resp.status
           stage == IF cur[q] = 1 THEN "status" ELSE "transport"
           code == d2.resp.status
           b == IF code >= 400 THEN AttemptFailure(s, 2, "status", m, code) ELSE s
           o == IF code >= 400 THEN "exhausted" ELSE "succeeded"
           e == Failover(b, stage, o, first, up, m)
           given == IF cur[q] = 1 THEN first ELSE code
           h == Headers(e, code, given)
<1>0. RedoOk(q) /\ pc[q] = "redo" /\ plan' = plan
  BY DEF RedoOkSpan, RedoOk
<1>1. /\ s.count = 1 /\ s.warn /\ s.stage = stage /\ s.model = up
      /\ ~st[q].failedOver /\ st[q].attempts = 1 /\ m # up /\ c.model = up
      /\ FailedFirst(c, stage) /\ conn[q][2].model = m /\ cur[q] \in {0, 1}
      /\ c.phase = IF cur[q] = 1 THEN "open" ELSE "failed"
  BY <1>0, MidwayFacts
<1>2. code \in Nat /\ first \in Nat /\ given \in Nat
  <2>1. d2 \in Conn
    BY DEF Types, TaleHere, Tries
  <2> QED
    BY <2>1, StatusType, TaleFacts
<1>3. /\ b \in Attributes /\ b.warn
      /\ code >= 400 => b.count = 2 /\ b.stage = "status" /\ b.model = m
      /\ ~(code >= 400) => b.count = 1 /\ b.stage = stage /\ b.model = up
  <2>1. s \in Attributes /\ m \in Names
    BY TaleFacts
  <2>2. "status" \in Stages
    BY DEF Stages
  <2>3. CASE code >= 400
    <3>1. b = AttemptFailure(s, 2, "status", m, code)
      BY <2>3
    <3> HIDE DEF s, m, code, b
    <3> QED
      BY <1>2, <2>1, <2>2, <2>3, <3>1, AttemptFailureTale
  <2>4. CASE ~(code >= 400)
    <3>1. b = s
      BY <2>4
    <3> HIDE DEF s, m, code, b, stage, up
    <3> QED
      BY <1>1, <2>1, <2>4, <3>1
  <2> QED
    BY <2>3, <2>4
<1>4. /\ e \in Attributes /\ e.warn
      /\ e.failover = [stage |-> stage, outcome |-> o, first |-> first,
                       from |-> up, to |-> m]
      /\ e.count = b.count /\ e.stage = b.stage /\ e.model = b.model
  <2>1. up \in Names /\ m \in Names /\ stage \in Stages
    BY TaleFacts DEF Stages
  <2> HIDE DEF b, stage, first, up, m, code
  <2>2. Switched(b, stage, first, up, m, code) \in Attributes
    BY <1>2, <1>3, <2>1, FailoverSpan DEF SameStatus
  <2>3. e \in Attributes
    BY <2>2 DEF Switched
  <2> QED
    BY <1>3, <2>3, FailoverTale
<1>5. SameTale(h, e)
  <2> HIDE DEF e, code, given
  <2> QED
    BY <1>2, <1>4, HeadersTale
<1>6. span'[q] = h
  <2>1. st[q].attempts + 1 = 2
    BY <1>1
  <2>2. Note(q, h)
    BY <2>1 DEF RedoOkSpan, Switched
  <2> HIDE DEF h
  <2> QED
    BY <2>2, TaleFacts DEF Note
<1>7. PICK resp \in Responses :
        /\ conn' = [conn EXCEPT ![q] =
              [i \in Tries |->
                 IF i = 2 THEN Opened(conn[q][2], resp)
                 ELSE IF cur[q] = 1 THEN Closed(conn[q][1])
                 ELSE conn[q][1]]]
        /\ st' = [st EXCEPT ![q] = ApplyPlan(Noted(st[q], resp), plan[q])]
  BY <1>0 DEF RedoOk
<1>8. d2.phase = "open" /\ d2.model = m /\ d2.resp = resp
  <2>1. d2 = Opened(conn[q][2], resp)
    BY <1>7, TaleFacts
  <2> QED
    BY <1>1, <2>1, TaleFacts DEF Opened, Conn
<1>9. c2.model = c.model /\ c2.resp = c.resp /\ (c2.phase = "failed" <=> c.phase = "failed")
  <2>1. c2 = IF cur[q] = 1 THEN Closed(c) ELSE c
    BY <1>7, TaleFacts
  <2> QED
    BY <1>1, <2>1, TaleFacts DEF Closed, Conn
<1>10. st'[q].failedOver /\ st'[q].attempts = b.count
  <2> DEFINE n == Noted(st[q], resp)
  <2>1. n \in State /\ n.attempts = b.count
    <3>1. CASE code >= 400
      <4>1. n = [st[q] EXCEPT !.attempts = @ + 1]
        BY <1>8, <3>1 DEF Noted
      <4>2. n.attempts = 2
        BY <1>1, <4>1, TaleFacts DEF State
      <4>3. n \in State
        <5>1. st[q].attempts + 1 \in Nat /\ st[q] \in State
          BY <1>1, TaleFacts
        <5> QED
          BY <4>1, <5>1, SubState
      <4> QED
        BY <1>3, <3>1, <4>2, <4>3
    <3>2. CASE ~(code >= 400)
      <4>1. n = st[q]
        BY <1>8, <3>2 DEF Noted
      <4> QED
        BY <1>1, <1>3, <3>2, <4>1, TaleFacts
    <3> QED
      BY <3>1, <3>2
  <2>2. st'[q] = ApplyPlan(n, plan[q])
    BY <1>7, TaleFacts
  <2> HIDE DEF n
  <2>3. st'[q].failedOver = TRUE
    BY <2>1, <2>2 DEF ApplyPlan, State
  <2>4. st'[q].attempts = n.attempts
    BY <2>1, <2>2 DEF ApplyPlan, State
  <2> QED
    BY <2>1, <2>3, <2>4
<1>11. pc'[q] = "relay"
  BY <1>0, TaleFacts DEF RedoOk, Goto
<1> HIDE DEF e, h, b
<1>12. FailedFirst(c2, stage)
  BY <1>1, <1>9 DEF FailedFirst
<1>13. h.warn
  BY <1>4, <1>5 DEF SameTale
<1>14. /\ h.count = b.count /\ h.stage = b.stage /\ h.model = b.model
       /\ h.failover = [stage |-> stage, outcome |-> o, first |-> first,
                        from |-> up, to |-> m]
  BY <1>4, <1>5 DEF SameTale
<1>15. TakenOver(h, st'[q], plan[q], c2, d2)
  <2>1. /\ d2.phase \notin {"none", "failed"} /\ d2.model # c2.model
        /\ h.failover.to = d2.model /\ st'[q].failedOver
    BY <1>1, <1>8, <1>9, <1>10, <1>14
  <2>2. CASE code >= 400
    BY <1>3, <1>14, <2>1, <2>2 DEF TakenOver
  <2>3. CASE ~(code >= 400)
    <3>1. code < 400
      BY <1>2, <2>3
    <3>2. h.count = 1 /\ h.stage = stage /\ h.model = c2.model
          /\ h.failover.outcome = "succeeded" /\ h.failover.stage = stage
      BY <1>1, <1>3, <1>9, <1>14, <2>3
    <3> QED
      BY <1>13, <2>1, <3>1, <3>2 DEF TakenOver
  <2> QED
    BY <2>2, <2>3
<1>16. Retried(h, st'[q], plan[q], c2, d2)
  BY <1>1, <1>9, <1>12, <1>14, <1>15 DEF Retried
<1>17. Story(h, st'[q], plan[q], c2, d2)
  BY <1>10, <1>14, <1>16 DEF Story
<1> QED
  BY <1>0, <1>6, <1>11, <1>17 DEF TaleOf, Tale, Start, Over

\* From then on nothing is added to the tale: what is still recorded leaves it
\* alone, and so do the ends of the attempts.
LEMMA LateTale ==
    ASSUME NEW q, TaleHere(q),
           GiveUpSpan(q) \/ StreamEndsSpan(q) \/ RelayBufferedSpan(q)
           \/ ReturnSpan(q) \/ (Quietly(q) /\ RelayStream(q))
    PROVE  TaleOf(q)'
<1> DEFINE s == span[q]
           t == st[q]
           c == conn[q][1]
           d == conn[q][2]
<1>1. Story(s, t, plan[q], c, d)
  <2>1. CASE pc[q] \in Over
    BY <2>1, TaleFacts DEF TaleOf, Tale
  <2>2. CASE pc[q] \notin Over
    <3>1. pc[q] = "err"
      BY <2>2 DEF GiveUpSpan, GiveUp, StreamEndsSpan, StreamEnds,
         RelayBufferedSpan, RelayBuffered, ReturnSpan, Return, RelayStream,
         Over, Counted, InHandle
    <3>2. Untouched(s, t)
      BY <3>1, TaleFacts DEF TaleOf, Tale, Start
    <3>3. t.attempts = 0 /\ s.count = 0
      BY <3>2 DEF Untouched
    <3> QED
      BY <3>2, <3>3 DEF Story
  <2> QED
    BY <2>1, <2>2
<1>2. plan' = plan /\ pc'[q] \in {"return", "leave", "stream"}
  BY TaleFacts DEF GiveUpSpan, GiveUp, StreamEndsSpan, StreamEnds,
     RelayBufferedSpan, RelayBuffered, ReturnSpan, Return, RelayStream, Refuse,
     Goto
<1>3. st'[q].failedOver = t.failedOver /\ st'[q].attempts = t.attempts
  <2>1. CASE GiveUpSpan(q)
    BY <2>1, TaleFacts DEF GiveUpSpan, GiveUp, Refuse, State
  <2>2. CASE StreamEndsSpan(q)
    BY <2>2, TaleFacts DEF StreamEndsSpan, StreamEnds, State
  <2>3. CASE RelayBufferedSpan(q)
    BY <2>3, TaleFacts DEF RelayBufferedSpan, RelayBuffered, State
  <2>4. CASE ReturnSpan(q)
    BY <2>4, TaleFacts DEF ReturnSpan, Return
  <2>5. CASE RelayStream(q)
    BY <2>5, TaleFacts DEF RelayStream, State
  <2> QED
    BY <2>1, <2>2, <2>3, <2>4, <2>5
<1>4. SameTale(span'[q], s)
  <2>0. SameTale(s, s)
    BY DEF SameTale
  <2>1. CASE GiveUpSpan(q)
    <3>1. span'[q] = Red(s, "upstream_error")
      BY <2>1, TaleFacts DEF GiveUpSpan, Note
    <3> QED
      BY <3>1, TaleFacts, RedTale
  <2>2. CASE StreamEndsSpan(q)
    <3>1. Note(q, Red(s, st'[q].outcome)) \/ Note(q, s)
      BY <2>2 DEF StreamEndsSpan
    <3>2. span'[q] \in {Red(s, st'[q].outcome), s}
      BY <3>1, TaleFacts DEF Note
    <3>3. SameTale(Red(s, st'[q].outcome), s)
      BY TaleFacts, RedTale
    <3> QED
      BY <2>0, <3>2, <3>3
  <2>3. CASE RelayBufferedSpan(q)
    <3> DEFINE resp == conn[q][cur[q]].resp
               told == Buffered(s, resp, st'[q].outcome, reply'[q].body)
    <3>1. span'[q] = told
      BY <2>3, TaleFacts DEF RelayBufferedSpan, Note
    <3>2. \A k : SameTale(Red(s, k), s)
      BY TaleFacts, RedTale
    <3>3. SameTale(RejectOversize(s, resp), s)
      <4>1. Red(s, "upstream_status") \in Attributes
        <5>1. "upstream_status" \in ErrorKinds
          BY DEF ErrorKinds
        <5> QED
          BY <5>1, TaleFacts, RedSpan
      <4>2. SameTale(Red(Red(s, "upstream_status"), "response_too_large"),
                     Red(s, "upstream_status"))
        BY <4>1, RedTale
      <4>3. SameTale(Red(Red(s, "upstream_status"), "response_too_large"), s)
        BY <3>2, <4>2 DEF SameTale
      <4> QED
        BY <3>2, <4>3 DEF RejectOversize
    <3>4. SameTale(told, s)
      BY <2>0, <3>2, <3>3 DEF Buffered
    <3> QED
      BY <3>1, <3>4
  <2>4. CASE ReturnSpan(q)
    <3>1. span'[q] = [s EXCEPT !.client = reply[q].status, !.count = t.attempts]
      BY <2>4, TaleFacts DEF ReturnSpan, Note
    <3>2. t.attempts = s.count
      BY <1>1 DEF Story
    <3>3. SameTale([s EXCEPT !.client = reply[q].status, !.count = t.attempts], s)
      BY <3>2, TaleFacts DEF SameTale, Attributes
    <3> QED
      BY <3>1, <3>3
  <2>5. CASE Quietly(q) /\ RelayStream(q)
    BY <2>0, <2>5 DEF Quietly
  <2> QED
    BY <2>1, <2>2, <2>3, <2>4, <2>5
<1>5. ASSUME NEW i \in Tries
      PROVE  LET a == conn[q][i]  a2 == conn'[q][i]
             IN  /\ a2.model = a.model /\ a2.resp = a.resp
                 /\ a2.phase = "failed" <=> a.phase = "failed"
                 /\ a2.phase = "none" <=> a.phase = "none"
  <2>1. CASE conn' = conn
    BY <2>1
  <2>2. CASE ReturnSpan(q)
    <3>1. pc[q] = "return" /\ conn[q][i] \in Conn
      BY <2>2, TaleFacts DEF ReturnSpan, Return
    <3>2. conn'[q][i] = IF i = cur[q] THEN Closed(conn[q][i]) ELSE conn[q][i]
      BY <2>2, TaleFacts DEF ReturnSpan, Return
    <3>3. i = cur[q] => conn[q][i].phase = "open"
      BY <3>1, TaleFacts DEF Shape
    <3> QED
      BY <3>1, <3>2, <3>3 DEF Closed, Conn
  <2> QED
    BY <2>1, <2>2 DEF GiveUpSpan, GiveUp, StreamEndsSpan, StreamEnds,
       RelayBufferedSpan, RelayBuffered, RelayStream
<1>6. Story(span'[q], st'[q], plan[q], conn'[q][1], conn'[q][2])
  <2>1. 1 \in Tries /\ 2 \in Tries
    BY DEF Tries
  <2>2. /\ span'[q].failover = s.failover /\ span'[q].count = s.count
        /\ span'[q].stage = s.stage /\ span'[q].model = s.model
        /\ s.warn => span'[q].warn
    BY <1>4 DEF SameTale
  <2> HIDE DEF s, t, c, d
  <2> QED
    BY <1>1, <1>3, <1>5, <2>1, <2>2, StoryStays DEF c, d
<1> QED
  BY <1>2, <1>6 DEF TaleOf, Tale, Start, Over, Counted, InHandle

\* What is done without a word.
LEMMA QuietTale ==
    ASSUME NEW q, TaleHere(q), Quietly(q)
    PROVE  TaleOf(q)'
<1>0. span' = span
  BY DEF Quietly
<1>1. CASE Admit(q) \/ CountIn(q)
  <2>1. pc[q] \in {"idle", "admitted"} /\ pc'[q] \in {"admitted", "resolve"}
    BY <1>1, TaleFacts DEF Admit, CountIn, Goto
  <2>2. st' = st
    BY <1>1 DEF Admit, CountIn
  <2>3. Untouched(span[q], st[q])
    BY <2>1, TaleFacts DEF TaleOf, Tale, Start
  <2> QED
    BY <1>0, <2>1, <2>2, <2>3 DEF TaleOf, Tale, Over, Counted, InHandle
<1>2. CASE DoOk(q) \/ DoErr(q)
  <2>1. pc[q] = "do" /\ st' = st /\ plan' = plan
    BY <1>2 DEF DoOk, DoErr
  <2>2. /\ Untouched(span[q], st[q]) /\ conn[q][1].resp.status = 0
        /\ plan[q].enabled => plan[q].model # st[q].up
    BY <2>1, TaleFacts DEF TaleOf, Tale, Start
  <2>3. CASE DoOk(q)
    <3>1. pc'[q] = "got"
      BY <2>3, TaleFacts DEF DoOk, Goto
    <3> QED
      BY <1>0, <2>1, <2>2, <3>1 DEF TaleOf, Tale, Over
  <2>4. CASE DoErr(q)
    <3>1. pc'[q] = "err" /\ conn'[q][1] = Failed(conn[q][1])
      BY <2>4, TaleFacts DEF DoErr, Goto
    <3>2. conn'[q][1].resp = conn[q][1].resp
      BY <3>1, TaleFacts DEF Failed, Conn
    <3> QED
      BY <1>0, <2>1, <2>2, <3>1, <3>2 DEF TaleOf, Tale, Over
  <2> QED
    BY <1>2, <2>3, <2>4
<1>3. CASE RelayStream(q)
  BY <1>3, LateTale
<1>4. CASE CountOut(q) \/ Release(q) \/ Panic(q)
  <2>1. pc'[q] \in {"release", "done", "crashed"}
    BY <1>4, TaleFacts DEF CountOut, Release, Panic, Goto
  <2> QED
    BY <2>1 DEF TaleOf, Tale, Start, Over, Counted, InHandle
<1>5. CASE ClientLeaves(q)
  BY <1>0, <1>5, TaleFacts DEF ClientLeaves, TaleOf
<1>6. CASE ServerCancels(q)
  <2>1. pc'[q] \in Ended
    BY <1>6 DEF ServerCancels
  <2> QED
    BY <2>1 DEF Ended, TaleOf, Tale, Start, Over, Counted, InHandle
<1> QED
  BY <1>1, <1>2, <1>3, <1>4, <1>5, <1>6 DEF Quietly

LEMMA StepTale ==
    ASSUME Types, Types', AttemptInv, NameInv, SpanInv, TaleInv, [ONext]_ovars
    PROVE  TaleInv'
<1> SUFFICES ASSUME NEW q \in Requests PROVE TaleOf(q)'
  BY DEF TaleInv
<1>0. TaleHere(q) /\ TaleOf(q)
  BY DEF TaleHere, TaleInv
<1>1. CASE UNCHANGED ovars
  BY <1>0, <1>1 DEF ovars, vars, TaleOf
<1>2. ASSUME NEW r \in Requests, q # r, Watched(r) PROVE TaleOf(q)'
  BY <1>0, <1>2, OthersUnwatched DEF TaleOf
<1>3. CASE Watched(q)
  <2>1. CASE Recording(q)
    BY <1>0, <2>1, RetryAfterErrorTale, RetryAfterStatusTale, AcceptTale,
       RedoOkTale, RedoErrTale DEF Recording
  <2>2. CASE OverloadSpan(q)
    <3>1. pc'[q] = "rejected"
      BY <1>0, <2>2, TaleFacts DEF OverloadSpan, Overload, Goto
    <3> QED
      BY <3>1 DEF TaleOf, Tale, Start, Over, Counted, InHandle
  <2>3. CASE GiveUpSpan(q) \/ StreamEndsSpan(q) \/ RelayBufferedSpan(q)
             \/ ReturnSpan(q)
    BY <1>0, <2>3, LateTale
  <2> QED
    BY <1>0, <1>3, <2>1, <2>2, <2>3, QuietTale, PrepareTale DEF Watched
<1>4. ONext => \E r \in Requests : Watched(r)
  BY DEF ONext, Watched, Recording
<1> QED
  BY <1>1, <1>2, <1>3, <1>4

LEMMA InitTale == OInit => TaleInv
<1> SUFFICES ASSUME OInit, NEW q \in Requests PROVE TaleOf(q)
  BY DEF TaleInv
<1>1. pc[q] = "idle" /\ st[q].failedOver = FALSE /\ st[q].attempts = 0
  BY DEF OInit, Init
<1>2. span[q] = Blank
  BY DEF OInit
<1>3. span[q].failover = NoFailover /\ span[q].count = 0
  <2>1. Blank.failover = NoFailover /\ Blank.count = 0
    BY DEF Blank
  <2> QED
    BY <1>2, <2>1
<1>4. Untouched(span[q], st[q])
  BY <1>1, <1>3 DEF Untouched
<1> QED
  BY <1>1, <1>4 DEF TaleOf, Tale, Start, Over, Counted, InHandle

\* A request that has been tried twice is told as two tries: which model failed,
\* how and where, which one took over, whether it helped, and how many failures
\* there were (obs/errors.go:72-81, 194-213, 399-404; failover.go:16-60).
THEOREM EveryTryIsTold == OSpec => []FailoverIsTold
<1>1. OSpec => [](Types /\ AttemptInv /\ NameInv)
  BY SpansOnlyWatch, NameInvariance, PTL DEF Spec
<1>2. /\ Types /\ Types' /\ AttemptInv /\ NameInv /\ SpanInv /\ TaleInv
      /\ [ONext]_ovars
      => TaleInv'
  BY StepTale
<1>3. Types /\ SpanInv /\ TaleInv => FailoverIsTold
  <2> SUFFICES ASSUME Types, SpanInv, TaleInv, NEW r \in Requests, pc[r] \in Over
               PROVE  SwitchTold(r) /\ AttemptsTold(r)
    BY DEF FailoverIsTold
  <2>1. Story(span[r], st[r], plan[r], conn[r][1], conn[r][2])
    BY DEF TaleInv, TaleOf, Tale
  <2>2. span[r] \in Attributes /\ conn[r][2] \in Conn
    BY DEF Types, SpanInv, Tries
  <2>3. span[r].failover.stage \in Stages /\ conn[r][2].resp.status \in Nat
    BY <2>2, StatusType DEF Attributes, Switch
  <2> QED
    BY <2>1, <2>3, StoryTells
<1> QED
  BY <1>1, <1>2, <1>3, InitTale, SpanInvariance, PTL DEF OSpec, OSafety
=============================================================================
