# Verification of remap-service

TLA+ modules, TLC configurations and TLAPS proofs about the gateway in this
repository: a reverse proxy for LLM APIs that replaces the client's model name by
an upstream model, sends the request on, may send it a second time with another
model, and takes the upstream names out of the answer.

`PROJECT.json` lists every run, mutant, hazard, theorem and, for every definition
that stands for code, the lines it was read from. Paths below are those of the
repository, without `src/internal/` where it is clear.

## 1. The system

| Component | State | Operations | Interacts with |
|---|---|---|---|
| Gateway (`gateway/gateway.go`, `failover.go`, `response.go`, `observe.go`) | per request: the names, the plan, the two attempts, the outcome | `ServeHTTP`, `handle`, `rewrite`, `planFailover`, `retryWithFallback`, `applyPlan`, `pipeStream`, `pipeBuffered` | everything below |
| Gate (`gateway/gate.go`) | a channel of tokens, a counter of refusals | `tryAcquire`, `release` | Gateway |
| Upstream call (`upstream/transport.go`, `stall.go`, `timeout.go`) | a flag `settled`, two timers, a context, a flag `tripped` | `Client.Do`, `StallReader.Read`, the two callbacks | request goroutine, timer goroutines, upstream, client |
| Proxy pool (`upstream/router.go`, `proxy.go`, `proxyurl`) | a `sync.Map`, a count, a lock, time stamps | `transportFor`, `evictUntilRoomLocked`, `CloseIdleConnections` | request goroutines |
| Replacer cache (`sanitize/sanitize.go`) | an atomic snapshot, 16 locked shards | `Rules.For`, `promote` | request goroutines |
| Folding replacement (`sanitize/fold.go`) | none (a pure pass) | `mayMatch`, `replace` | JSON sanitising, SSE relay |
| JSON sanitising (`protocol/body.go`) | none | `Sanitize`, `SanitizeError`, `collect` | Gateway, SSE relay |
| SSE relay (`protocol/sse.go`, `preamble.go`) | a reader's and a writer's buffer | `PipeSSE`, `readLine`, `transformLine`, `SanitizeEvent` | upstream body, client |
| Model mapping (`mapping/`) | an immutable table per header value, a parse cache | `Parse`, `build`, `LookupKind` | Gateway |
| Capabilities (`capability/`) | an immutable map, a parse cache | `Parse`, `Detect`, `Lookup` | Gateway |
| Credentials, headers, addresses (`gateway/credential.go`) | none | `resolveBase`, `resolveProxy`, header rewriting | Gateway |
| Server (`server/server.go`, `cmd/gateway/main.go`) | `ready`, listener | `Run`, `recoverMW`, `/healthz`, `/readyz` | load balancer, orchestrator |
| Observability (`obs/`) | counters, the gauge, batches not sent yet | `Add`, `AddUpDown`, `Record…`, `Shutdown` | all |
| Configuration (`config/`) | the environment of the process | `LoadDotEnv`, `Load`, `Validate` | main, once |
| Client address, memory limit, upstream timing | constants | pure functions | |

What is hard in it:

* **many ways out of one function.** `handle` returns, refuses, fails over twice,
  streams, panics or loses its client, and at each exit tokens, gauge, bodies,
  cancel functions and counters have to come out even;
* **timers against the thing they watch**: the first-byte timer against the
  headers, the stall timer against reads and slow writes, both against the total
  timeout and the client's departure;
* **look, lock, look again**: in the proxy pool and twice in the replacer cache,
  with eviction in between;
* **one budget in three parts** against a SIGKILL the process cannot see coming;
* **text cut anywhere**: SSE lines across reads, JSON escapes, names within names;
* **attributes that overwrite each other**: what a span says of a request that was
  tried twice depends on the order of calls on four paths;
* **one value from three places**: process, `.env` and request, each with a rule for
  what counts as nothing.

What makes each part correct is listed, at the line where it would go wrong,
under `hazards`; where no property covers one, its note says why.

## 2. Modules

| Module | Stands for | Actions |
|---|---|---|
| `Admission` | what the gate promises, without a gateway | `Enter`, `TurnAway`, `Leave` |
| `Gateway` | one request after the other step of `ServeHTTP`/`handle`, several requests at once | `Admit` … `Release`, `Panic`, `ClientLeaves`, `ServerCancels` |
| `RequestSpan` | what Gateway's steps write into the span and the log line | each of Gateway's actions with what it records |
| `UpstreamCall` | one streaming call with its watchdogs | goroutine, callbacks, upstream, client, time |
| `ProxyPool` | `Router` and the transports it built | `LoadHit`, `Lock`, `Scan`, `Evict` … `Build`, `BeginDial`, `BeginReuse` … `End`, `Expire`, `CloseAll` |
| `ReplacerCache` | `Rules.For` | `LookHot`, `LookCold`, `PromoteLook`, `Promote`, `Build`, `Store` |
| `FoldReplace` | the rules for a pair of names, and the pass over one text | `Call`, `Skip`, `SkipTarget`, `ReplaceHit`, `FinishPass`, `Return` |
| `JsonSanitize` | `Spec.sanitize` on a document of strings, with `FoldReplace` inside | `Override`, `Search`, `PassOver`, `Apply`, `ReplaceOn`, `Applied`, `Write` |
| `LineRelay` | what the relay of a stream promises, without buffers | `TakeLine`, `TakePiece`, `TakeLast`, `Pass`, `PassNothing`, `Fail`, `Leave` |
| `EventStream` | `PipeSSE` between two buffers | `Fill`, `ReadToNewline`, `ReadFull`, `ReadEnd`, `WriteBlank`, `WriteLine`, … |
| `Text` | what is used of Go's `strings` | |
| `Environment` | `.env`, the environment and `Load` | `LoadLine`, `BadLine`, `Load` |
| `ModelMap` | header to table to answer, and on to the configuration's table | `NoHeader`, `ParseSegment`, `EndParse`, `Build`, `LookupExact`, `NotExact`, `LookupWild`, `LookupFallback`, `HeaderMiss` |
| `Capability` | the header's declarations and the search of the body | `ParsePart`, `ResolveCapMap`, `Detect`, `Scan`, … |
| `Headers` | addresses, credentials and fields, there and back | `Send`, `Reply` and its ways |
| `Outbound` | the four above in the order of `main` and `handle` | `Configure`, `Arrive`, `MapModel`, `Pick`, `FindCapabilities`, `RouteFiles`, `SendRequest`, `ReplyToClient` |
| `Lifecycle` | the end of the process | `BeginDrain`, `BeginShutdown`, `EndShutdown`, `FlushMetrics`, `FlushTraces`, next to `Probe`, `Route`, `Finish`, `Term`, `Kill`, `Tick` |

`MC…` modules give constants their values. The theorems are in
`GatewayProofs` (about `RequestSpan` too), `CallProofs`, `PoolProofs`,
`ReplacerCacheProofs`, `LifecycleProofs`, `EventStreamProofs`, `SanitizeProofs` and
`OutboundProofs`. Definitions whose comment begins with
*Mutant:* are the code with a plausible slip in it; nothing uses them, they are
put in the place of the definition they distort to see that a property notices.

How the models correspond to the code:

* **Gateway.** `pc[r]` is the place in `ServeHTTP` and `handle`; `st[r]` is the
  struct `state`; `conn[r][1]` and `conn[r][2]` are the first attempt and the
  retry, with the phase of the response and how much of its body is left;
  `cur[r]` says which of them `resp` and `cancel` are. Names are model values, a
  table is a function to the candidates of `pick`, a random choice is any of
  them. `pipeStream` and `pipeBuffered` appear as their outcomes: what they do on
  the way is the subject of `UpstreamCall`, `EventStream` and `JsonSanitize`.
  `Panic` is a panic anywhere inside `handle`, with the deferred calls that have
  been registered by then, and `recoverMW`. `ClientLeaves` only marks the request;
  what it does to a call or a reply is a possible result of that step.
  `ServerCancels` is net/http cancelling the context after the handler returned.
* **UpstreamCall.** The compare-and-swap of both sides, `timer.Stop`, the two
  statements of the stall callback and every `Read` and `Write` are steps of their
  own. The first-byte timer may run out at any time while it is armed; idle time is
  measured in ticks, because what the idle timer measures is the question. The
  context keeps its first cause.
* **ProxyPool.** The look without a lock, the lock, the second look, the search for the
  oldest, its eviction, the closing of its idle connections and the building of a
  transport are separate steps. An `http.Transport` is
  reduced to its connections. Each upstream is reached by HTTP/1 or, as `newTransport`
  offers it (`transport.go:113, 158`), by HTTP/2; the constant `Multiplexed` says which.
  A request dials, takes an idle connection or goes over an HTTP/2 one that is in use;
  a dial goes on when its request has left; a connection that turns out to be dead is
  dialled again. `CloseIdleConnections` closes what is idle and sets net/http's
  `closeIdle`, which makes an HTTP/1 connection close when it is given back, until the
  transport is asked for a connection again; HTTP/2 connections in use are passed over
  and become idle later. Then only `IdleConnTimeout` (or the upstream) closes them.
  These rules are net/http's and x/net/http2's, external to the repository. That
  `CloseIdleConnections` does the two protocols one after the other is not told from
  one step: a request concerns one of them, and counts as coming before or after.
  The time stamp of a proxy is kept as the set of those with a later one. The search
  sees all of them at one moment; between it and the eviction look-ups may change them.
* **ReplacerCache.** A replacer is told by its number, so that *the same pointer*
  can be asked about. The snapshot is read without a lock, shards under theirs.
  All keys are in one shard in the runs; the proofs are for any number of shards.
* **RequestSpan** extends Gateway by three variables: the attributes of each span, as a
  record, whether `st.err` is set, and the level of the log line. Each of its actions is
  one of Gateway's and says what that step records, so that every behaviour of it is one
  of Gateway (the theorem `SpansOnlyWatch`); spans that are not recorded are left out.
* **FoldReplace, JsonSanitize, EventStream, ModelMap, Capability** are the algorithms step
  by step over characters or words, compared with a definition of what they are meant
  to compute that does not follow the code (`Reference`, `Relayed`, `Glob` and
  `MoreSpecific`, `HeaderRules`, `DetectedIsUsed`). `wild` may be any order the sort's
  comparison allows, as it sorts what comes out of a Go map. `FirstBytes` gives the table
  of first bytes by what it has: a byte and its capital (`fold.go:69-70`) are all the
  bytes that `lowerASCII` makes that byte.
* **Environment, Headers, Outbound.** Texts are sequences of words and of the characters
  the code looks for. A header maps names of fields to lists of texts, with
  `Content-Length` apart, because net/http keeps it apart. The upstream's answer is given
  with its length, its number of bytes and whether it is a stream; sanitising may make
  it one byte longer or shorter. `Given` says what a process and a call may be given at
  all: fields of a header with at least one value each, which is how net/http delivers
  them, a path that begins with a slash, as `server.go:47` passes on no other, and an
  answer whose length, if it is known, is that of its body. The texts names of
  models come from (`.env`, the environment, the mapping header, the body) are of the
  characters `Chars`, which `Rank` orders the way Go orders bytes. `OutSpec` is for
  anything that is so; the runs take the five families of `MCOutbound` (`MCSpec`).
* **EventStream.** `greeted` is what the client has been sent of the synthetic event,
  apart from what the relay itself sends: the two go different ways in the code.
* **Lifecycle.** Time passes in ticks, and only where the code waits. The
  orchestrator grants the sum of the three effective budgets, or one tick more: the
  least that `config.go:58-64` demands, and just too little; the load balancer probes every
  `ProbeEvery` ticks and sends requests as long as the last probe said 200.

## 3. Composition and refinement

`Gateway` contains the gate. `Gate == INSTANCE Admission` with a mapping from the
control locations of the requests to the three states of `Admission`; the run
`gw_shared` checks `GateKeepsPromise` (with fairness), the theorem
`GateImplementsAdmission` proves its safety part for any constants.

`LineRelay` is the relay of a stream without the two buffers: a line is taken at its newline,
at the limit or at the end, made into what is to be sent, and may wait for the next one
unless it ends an event or is the last. `Relay == INSTANCE LineRelay` takes what is in the reader's
accumulator, in its buffer and not yet sent by the upstream for one text, so that reading
from the upstream and putting pieces together is not to be seen. The run `sse_pipe`
checks `RelayKeepsPromise`, the theorem `RelayIsRefined` proves it, and what is proved of
the text as a whole is proved of the steps of `LineRelay`.

`RequestSpan` extends `Gateway`, and the two runs of the gateway are runs of the
composition: a property of Gateway alone is checked next to what the span says of it.
`Outbound` composes `Environment`, `ModelMap`, `Capability` and `Headers`, each with its
own variables and its own program counter, which `Outbound` hands on; `JsonSanitize`
calls `FoldReplace` for every string.

The modules are joined to `Gateway` by what they return: the results of `Client.Do` and
the ends of a stream (`UpstreamCall`), `MatchKinds` and candidates (`ModelMap`), the map
of capabilities and what the body uses (`Capability`), base and proxy as good, missing or
invalid (`Headers`) and the report of sanitising (`JsonSanitize`) are the sets Gateway
chooses from.

## 4. Runs

| Run | Question | Bounds, and why they are enough |
|---|---|---|
| `gw_one` | is every path of one request consistent, with every kind of input and answer, and does its span say what happened? | requests do not share anything but the gate; four names are enough for public, main, fallback and capability model to differ; two attempts are all the code makes |
| `gw_shared` | do token, gauge, counters and spans agree with several requests; does every admitted request end, is every response released, is `Admission` implemented? | two requests for one token, retries on: the gate is full, refuses and is free again, and each request leaves it on any path |
| `call` | do the watchdogs do what they should, and no more? | two ticks of idle time and three pieces: one may come late, one in time, one after the flag is set |
| `rep_cache` | bounded, consistent and nothing lost? | three goroutines, three keys, room for two: one more of each than fits |
| `sanitize` | is the pass the replacement it claims to be; are names replaced where they must be, kept where they must be, and is it reported? | any text of up to six characters of six under seven sets of names (containing, overlapping, dated, alias, global), dates of one or two digits; answers of up to four strings at the places the code treats differently |
| `sse_pipe` | is the relay independent of the chunks and of both buffers, and prompt? | every text of up to five characters in every sequence of chunks, a buffer of two, lines of up to four: lines within, at and above the buffer and the limit |
| `outbound` | is no header swallowed, does the most specific rule win, are the capabilities found and does a file go to a model for files, is what is sent and answered what the texts declare? | five families, each varying one part: any two of sixteen lines in `.env`; every map header of up to five characters, and any three of eleven rules, for names of up to three letters; any two of ten capability parts with bodies of up to two objects inside; every combination of credential fields, and of nine addresses with six paths; answers of each status and kind, with and without a length, of one to three bytes against a limit of two |
| `pool` | bounded, shared, which connections outlive an eviction, and why; is everybody served? | two requests at a time (the races are between two), three proxies for two places, an upstream of each protocol, four requests: fill, evict while the victim is in use or has been looked up, and ask again for what was evicted |
| `life_safe` | is the budget enough and is it kept? | two requests, budgets unset, zero, negative and positive; grace periods at and one tick above their sum |

Properties of one kind are checked together under one name, a conjunction of the named
parts above it: `CountsAreExact` (`TokensMatchHolders`, `GaugeMatchesCounted`),
`EndsAreTold` (`CountedOnce`, `SpanIsRedOnFailure`, `KindIsOutcome`), `FailoverIsTold`
(`SwitchTold`, `AttemptsTold`), `HeadersSurvive` (`NothingSwallowed`,
`DeclarationsSurvive`), `FilesGoToFileModel` (with `DetectedIsUsed`), `SentAsDeclared`,
`SentInFull`, `NothingHeldForever`, `WatchdogsOwnUp`, `PoolIsSound`, `PassIsRight`
(`MatchesReference`, `PublicIsStable`), `FieldsKeepTheirRules` (`ModelIsPublic`,
`ContentUntouched`, `ChangeIsReported`), `RequestsAreSpared`, `RelayIsFaithful`. Of
`Gateway` a run checks `TypeOK`, and it and that of `ReplacerCache` are proved; the
modules on texts state no types, their values being sequences of whatever is given.

What carries such a name is not always all of it. In `SentInFull` it is the address: the
length sent is compared with that of the body that names the chosen model, which is how
the model makes it too. `LastBatchSent` asks for the second pipeline's flush in the time
that is left after the first, and for nothing when there is none left. Both Gateway runs
have a fallback, so that there is something to fail over to; with one, `MODEL_MAP_STRICT`
refuses nothing, and the refusal of an unmapped name is covered by the proofs alone.

In all runs deadlock is switched off: the models stop when requests or calls have
been used up, or the process is gone, as the code does.

Counters with a bound: `MaxCalls` (calls of `For`, requests for a transport),
`MaxChunks` (pieces the upstream sends). They bound the length of a history, not
what can be in it at a time.

### Disagreements between documentation and code

Three have a run that fails with the history:

| Run | The text says | The code does |
|---|---|---|
| `gw_doc_error_body` | upstream errors are returned as they are (`README.md:11`) | when the retry cannot be sent the first error's body has been read for the report, and what is relayed has lost that part |
| `call_doc_silence` | the timer measures the gap between two pieces of data (`stall.go:18-22`) | also the time a slow client takes to accept a write |
| `env_doc` | `MODEL_CAPABILITY` is the default of `X-Model-Capability` and is written like it, `vision:…;file:…` (`README.md:259-264`) | it is read like `MODEL_MAP`, with `=`; a value with colons declares nothing, in silence |

The others are smaller. The modules state each sentence as a property, in a section
of its own at the end; put in a configuration of the module it fails and shows why. No
run listed in `PROJECT.json` checks them. Some that no module is about were found on
the way: `config.go:179` and `.env.example:317` promise Chinese names of capabilities that
`ParseKind` does not know; a line `KEY="a" # c` keeps its quotes (`env.go:74`); an
`UPSTREAM_H2_IDLE_TIMEOUT` that cannot be read switches the health check off instead of
leaving the default; a `"type"` that is written with an escape passes the coarse test of
`Detect` unseen.

| Property | The text says | The code does |
|---|---|---|
| `Gateway!FailoverMetricCountsSwitches` | the metric counts the switches (`README.md:203`) | only those after a status, not those after a connection error |
| `Gateway!FirstResponseClosedBeforeRetry` | the body is closed at once so as not to hinder the retry (`failover.go:179`) | it is closed when the retry has succeeded |
| `RequestSpan!AttemptIsOneFailure` | where a later failure overwrites an earlier one the attributes describe the last (`obs/errors.go:402-403`) | a status code stays when the last failure has none |
| `RequestSpan!WarnIsNoDowngrade` | a span that is red is not given the level warn (`obs/errors.go:296-297`) | it is, if it turns red after a failed attempt |
| `RequestSpan!EverySpanHasAStatus` | the final status is on every span (`observe.go:56-58`) | not on that of a request the gate refuses |
| `Capability!InlineDocumentsCount` | only the type `file` needs a reference (`capability.go:255`) | `input_file` and `document` do, too |
| `Headers!OwnErrorsAreClean` | the upstream's fields are not to be found on an error the gateway makes (`response.go:348-351`) | they are when the answer breaks off while it is read |
| `UpstreamCall!ClientGoneMeansClient` | an early departure of the client, not a fault of the upstream (`response.go:420-422`) | an upstream's reset is filed there, too |
| `ProxyPool!NeverEvicted` | a transport is kept forever (`router.go:57-60`) | there is a limit and an eviction |
| `ReplacerCache!SamePointer` | the same pair is always the same pointer (`sanitize.go:358`) | until its shard is thrown away |
| `FoldReplace!ApplyIsIdempotent` | `Apply` is idempotent however names cross (`overlap_test.go:94-95`) | not where the public name completes an upstream name with what follows |
| `JsonSanitize!PrunedMeansClean` | `MayMatch` false means there is no name (`body.go:136-137`) | it looks at bytes, the walk at decoded strings |
| `JsonSanitize!OnlyLengthSpares` | only the length rule leaves a name unreplaced (`body.go:47-49`) | so does the depth limit, in silence |
| `EventStream!LongLinesPassThrough` | an over-long line passes through in pieces (`sse.go:32`) | with a newline after each piece |
| `Lifecycle!ForcedAtTimeout` | requests are cut when the shutdown timeout expires (`config.go:55-56`) | `Shutdown` stops waiting and closes nothing |

## 5. Fairness

* `Gateway` (`gw_shared`): weak fairness of each request's own steps, and of net/http
  cancelling the context of a request that is over. A goroutine
  that can run does run; a call returns because of the total timeout, reading and
  writing end because the client sends, reads, or is found to have gone. The server
  sets no read or write timeout, so a client that stays connected and neither reads
  nor writes is outside this assumption. Panics, departures and arrivals are not
  fair.
* `UpstreamCall` (`call`): weak fairness of the goroutine, of both timers and
  their callbacks, of the clock, and of `http.Client.Do` returning once its context is
  cancelled. A write to the client comes to an end, with an error if need be. The
  upstream, the client's departure and the total timeout are not fair: the two
  watchdogs alone must end the call.
* `ProxyPool` (`pool`): weak fairness of a caller's steps up to the use of its
  transport (the upstream's answer is not asked for) and strong
  fairness of taking the lock, which is what `sync.Mutex` gives with its starvation
  mode.
* `Lifecycle`: weak fairness of the process's steps, of time and of the balancer's
  probes. Requests and SIGTERM are not fair: `TermEnds` starts with the signal.

## 6. Proofs

All proofs are for arbitrary constants under the named assumptions
(`GatewayAssumption`, `CallAssumption`, `PoolAssumption`, `CacheAssumption`,
`LifecycleAssumption`, `StreamAssumption`, `FoldAssumption`, `SanitizeAssumption`,
`CapabilityAssumption`, `MapAssumption`, `RankAssumption`, `EscapeAssumption`),
which the runs evaluate for theirs.

**GatewayProofs.**

| Theorem | Inductive invariant |
|---|---|
| `TypeCorrect` | `Types /\ RespHeld`: after headers have arrived `cur` names an attempt, without which `conn[r][cur[r]]` would have no type. That `gauge` and `tokens` are natural numbers does not follow from types (they go down by one), so `TypeOK` also needs `CountInv` |
| `CountsStayExact` | `CountInv`: both numbers are cardinalities of sets of control locations; a lemma says how a cardinality changes when one request moves |
| `GateImplementsAdmission` | the same, and one case per action: it is `Enter`, `TurnAway`, `Leave` or changes nothing that Admission sees |
| `OneReplyEach`, `NeverSpliced` | `ReplyInv`: the number of status lines written, by control location |
| `NothingLeftOpen` | `AttemptInv`: which phases the two attempts can be in at each control location, and that a finished attempt is cancelled |

**ReplacerCacheProofs.**

| Theorem | Inductive invariant |
|---|---|
| `CacheTypeCorrect` | `Types`: `TypeOK` and that whoever is about to pass a replacer on has one |
| `CacheBounded` | `BoundInv`: the limits, and that both layers are finite, which makes their cardinality mean something |
| `SnapshotOnlyGrows` | none: every step has the property |
| `SteadyGoHot` | itself, with `BoundInv`: a snapshot that is full stays as it is |
| `BuildersAgree` | `RaceInv`: a replacer taken from a shard is the one the shard still has, unless the shard has been thrown away since; two takers of one life then hold the same |

**GatewayProofs**, on where a request goes and what answers it:

| Theorem | Inductive invariant |
|---|---|
| `RoutesAreNamed` | `RouteInv`: where the base and the proxy have been resolved, by control location; an attempt exists only after both were accepted |
| `ReplacerIsTheResponders` | `NameInv`: which of `st.up` and the plan's model each attempt was sent with, at each location. It needs `AttemptInv`: without it `cur` could be an attempt that was never made |
| `EveryEndCounted` | `CounterInv`: the sum of the three counters is the number of requests at the places behind a counter |

**GatewayProofs**, on `RequestSpan`:

| Theorem | Argument |
|---|---|
| `SpansOnlyWatch` | every action of `RequestSpan` has the one of `Gateway` as a conjunct, and what it adds constrains no variable of Gateway. Every theorem about `Spec` therefore holds of `OSpec` |
| `WhatIsToldIsTrue` | `SpanInv`: the span has no status and `st.err` is not set before the answer is decided (`Clean`); from then on the span is red if and only if the client sees a failure, a red span has an error or a status of which one makes the line a warning, and the kind is the one the client's failure has (`Decided`). The records of attempts and of switches are shown not to touch the status (`SameStatus`), which is why no failover can make a span red |
| `EveryTryIsTold` | `TaleInv`: for each control location what the span says of the first attempt, of the second and of the switch between them, next to what `conn` says of both; on `AttemptInv` |

**CallProofs** is about `UpstreamCall`, for any idle limit and any number of pieces.

| Theorem | Inductive invariant |
|---|---|
| `CallTypeCorrect` | `Places /\ Numbers`, the two halves of `TypeOK` |
| `BlameIsRight` | `DoInv` (whoever sets `settled` first decides what `Do` returns), `CauseInv` (what the context's cause tells of who cancelled it) and `ErrorInv` (what an error of a read or write tells of what has happened): a stall is marked before it cancels, so nobody sees the cancellation without the mark |
| `BodyIsClosed` | `DoInv` and where a response is open |
| `ReaderIsSpared` | `SilenceInv`: while a `Read` waits and nothing has been sent that was not read, the idle timer is not ahead of the silence |

**PoolProofs**, for any number of goroutines and proxies and any limit.

| Theorem | Inductive invariant |
|---|---|
| `PoolTypeCorrect` | `PoolInv`: types, who can be behind the lock (`LockInv`), what the second look has found out and the search has chosen (`PlaceInv`), and the counter (`CountInv`): it may be one ahead of the map, between an eviction and its `count--` |
| `PoolKeepsItsWord` | and `TransportInv`: what is not thrown out is what the pool has for the proxy it was built for. A second transport for a proxy would break it, and cannot be built because only the holder of the lock adds to the pool after it has looked |
| `ThrownOutMeansClosed` | and `OrphanInv`: a transport that is neither reachable nor late (asked for a connection after it had been thrown out) dwindles. It is closing, so that HTTP/1 connections are not kept; and of those it has idle, and the HTTP/2 ones it has in use, all were in use when it was closed. It rests on there being one victim at a time, and on every new use of a transport making it late if nobody can reach it |

**LifecycleProofs**, for any budgets, negative and unset ones included, and any interval
of the probes.

| Theorem | Inductive invariant |
|---|---|
| `LifecycleTypeCorrect` | `Values`, with `ClockInv` for the bounds of the clock and the timer |
| `LeavesInTime` | `ClockInv`: in each phase what has passed and what is left of the phase's wait sum up to what the phases so far may take |
| `NobodyIsHurried` | `ProbeInv`: a balancer that still sends has probed before the drain began, so that the age of its probe and the rest of the drain together are the whole drain; `ActiveInv`: nobody comes in after `Shutdown` has begun, and nobody is left when it ends well |
| `RecordsAreSent` | `RecordInv`: which of the two pipelines is open in each phase, and that nothing is missed while the flush has time left |

**EventStreamProofs**, for any texts, any size of the reader's buffer and any limit that
is a whole number of buffers (8 MB and 64 KB at `sse.go:29-32`). `StreamAssumption` says
that, and of the synthetic event that it is made of whole lines without a carriage return:
`preamble.go:144` and `153` end it with two newlines, and the JSON before them escapes
what the model name may contain.

| Theorem | Argument |
|---|---|
| `RelayIsRefined` | `ReaderInv`: what is put together is a whole number of full buffers, contains no newline, is shorter than the limit and is gone when a line is handed on; and nothing is left in the buffer behind the last line. With it every step of `PipeSSE` is one of `LineRelay` or cannot be seen there: `Fill` and a `ReadFull` below the limit leave accumulator, buffer and source together as they were. That the limit is a multiple of the buffer is what makes it exact: otherwise a piece would end before it |
| `RelayIsTheText` | `TextInv`: while the client listens, the text is some whole lines followed by what is still to be taken, and what the client has and what waits for it are together the relay of those whole lines; with a line in hand, they are that once the line has been passed on; and `GreetedInv`: before it, `SanitizeEvent` has made of the synthetic event, twice, what the relay would have made of it |
| `EventsGoOut` | `TextInv`, and that no line among those that wait is empty (`Quiet`): neither they nor what would be made of the line that is still being read contain the end of an event |

`RelayIsTheText` and `EventsGoOut` speak, as their properties do, of texts in which no line
is as long as the limit (`Short`); what happens to a longer line is what `LongLinesPassThrough`
shows. That `TextInv` is kept is shown for the seven steps of `LineRelay` instead of
the ten of `EventStream`, which `PromiseStep` reduces to them. The lemma that carries it is
`RelayedOfBoth`: the relay of whole lines followed by any text is the relay of the lines
followed by that of the text. `Relayed` is a recursive function of the place where a line
begins, and so is `SanitizeEvent`; `SolutionExists` and `SolutionIsOne` say that such an
equation has one solution, so that two functions are equal when they solve the same one.

**SanitizeProofs**, for any answer, which is finitely many strings at their paths, and
any names, aliases and global pairs.

| Theorem | Inductive invariant |
|---|---|
| `PassIsReplacement` | `PassInv`: what has been written, the text from `prev` to `i`, which is held back, and what the definition makes of the text from `i` on are together what it makes of the whole text (`OnTheWay`); and as long as the text is the public name, and there is no global pair, nothing has been written, because the first hit is the one inside that name (`NothingReplaced`) |
| `FieldRulesHold` | `SanInv`: the model fields passed so far are settled, every string outside the model fields is untouched until the edits are written, those of content for good, what is queued and edited is neither, and an answer that differs is marked as changed. `SanitizeAssumption` says that an index is not the name of a content field |
| `OnePassSuffices` | `PassInv`; the rest is a lemma about two passes, `OnePass` |
| `NoLeakUnreported` | `SearchInv`, with the other two: a string that is to be searched is still queued, or has an edit, or what it holds is accounted for, having no name in it or one that has been reported; an edit has no name in it, and once the edits are written the strings have none. That an element of no field is no content is in `SanitizeAssumption`, too: no name in `contentFields` is empty |

`PassIsReplacement` rests on four groups of lemmas. The table of first bytes rules out no
place with a name (`TableIsRight`). Every order `Patterns` allows is
sorted by length and has no empty name (`PatternsShape`), so that the first hit is the
longest (`TheLongest`) and there is none behind the last place the shortest name fits
(`RangeEnds`). Where the definition goes on is always behind where it is and never behind
the end (`NextFits`: a name, a public name around it and a date all end before the text
does), so that its recursion has a solution (`RestIs`). And a text without a hit is left as
it is (`RestIsText`). The last two are inductions on the number of places that are left;
the library's induction theorem cannot be used here, its lemma on least elements can: each
takes the least number of which the claim fails and finds a smaller one (`LeastNumber`).

`OnePass` says that what the pass makes of a text stays as it is and has no name left, as
long as names and replacements are `Apart`. The places the pass comes to (`Reached`) have
each a place in what is made of the text (`PlaceOf`), and what is made of the rest stands
from there on (`PlacesAligned`). The second pass comes to no others, except inside of a
replacement before the name in it (`Followed`), and replaces nothing at any of them
(`PassIsFinal`): where a replacement has been written it is recognised (`ReplacedAgain`);
where the first pass has passed over one that was there, that has been copied whole, since
nothing in it has been replaced (`AllWhole`); and where it found no name there is none now,
because a name can come about only across the edge of a replacement (`NoNewName`). `KeepsOff`
is what `Apart` gives: in any text a name and a replacement are side by side, or the name
lies in the replacement as in its own. A text of which nothing is replaced stays as it is
(`FinalStays`), and a name in it lies in a replacement that was passed over (`FinalClean`).

The attempt to prove it has changed `Apart`. The condition had been that no name can overlap
the edge of a replacement, and the six sets of names that TLC takes had not shown that this
is too weak: when a public name begins with a digit or a dash and has the upstream name
further back, as in `-1b` for `b`, the date that goes with a name before it may be the
beginning of a public name that was in the text (`b-1b` becomes `-1bb`, if one digit is a
date); and of two copies of a public name that overlap, the second is not recognised as one
once the first has been passed over. `Obscures` says when that can be; the names it exempts
are as odd as those `ApplyIsIdempotent` is about.

**OutboundProofs**, for any `.env`, environment, header, body, address and answer that are
as `Given` says. The first four follow from `OutInv`, the fifth from `LookInv`, the sixth
from `SentInv`, each with those before it; TLC has found all three to hold on the run's
families, too.

| Theorem | Part of `OutInv`, or of `LookInv` or `SentInv` |
|---|---|
| `DeclarationsAreKept` | `MapInv`: while the mapping header is parsed, what is left begins where a part of it begins, the rules so far are those of the good parts passed, and unless something has been noted as invalid, every part passed that is not blank is good. `CapInv`: the same place in the other header, and the models so far are those the parts passed declare, kind by kind. `MapAssumption`, that a slip is noted at all, is what the refusal hangs on (`maxInvalid` is 4, `mapping.go:184`) |
| `SentByDeclaration` | `EnvInv`: after each line of `.env` a variable has its value from the process if that has one, or from the last line read that names it; at the end it is what `SentAsDeclared` says. The credential by the lemma `CredentialIsNamed`: `OfferedKey`, which looks at the fields in the code's order, finds the one the property names, and `RequestCarriesOne` that it crosses in the form of the protocol, alone |
| `FilesAreRouted` | `ScanInv`: what is found so far, with what is still to be searched, is what the body uses; `RouteInv`: what has been decided at each step between the map and the sending |
| `RepliesFit` | itself: the lemma `ReplyFits`, for each way of answering |
| `MostSpecificAnswers` | `LookInv`: the table that is asked is the header's, unless that has no rule for the name; `wild` has the wildcards of this table, sorted; and while it is searched, there is no rule for the name itself, and none of those tried matches |
| `SentToTheRightPlace` | `SentInv`: until the request is sent, `base` is what `resolveBase` finds for it; the bases of the configuration have been validated; all a model is picked from are lists of texts, so that the length of the body is a number, and not nothing |

The lemmas before them say what the operators on texts do for every text: `Trim`
leaves no blank at either end, a `Bearer` is what follows its prefix, the least and the
greatest of a set of positions exist and are what they are called. The two properties of
`DeclarationsAreKept` speak of the places where parts begin, taken in ascending order; the
code takes one part off the front at a time. `AscendingOneMore` says that a place behind
all others comes last in that order, `PartPassed` that cutting at the first semicolon goes
from one such place to the next, and `OneRuleMore` and `OnePartMore` what one part more adds
to the rules and the models. `BehindIsBlank` says that what is behind a colon is blank only
where the colon is the last character, because the part has been trimmed; the code asks for
the former, the property for the latter.

`MostSpecificAnswers` compares the search of `match` with `Glob`, which says what a
wildcard means: every star can be given a part of the name, none or any. It goes in four
steps. Such an assignment of the stars is the same as a function that takes each place of
the pattern to one of the name, forward by one where there is no star (`Fits`, by
`PlacesFit`). The parts between the stars (`Cuts`) then stand in the name one behind the
other, the outer ones at its ends where the pattern has no star there, and where they do,
there is such a function (`Lies`, by `FitsLies` and `LiesFits`). The code takes the first
place of each part (`Chain`); none of those places is behind the one the part has in any
such function, so that the search fails only where there is none (`ChainIsLies`). Together
that is `MatchIsGlob`. That the first match is the best one needs what the order of `wild`
is: `WeightIs` says that the weight of a pattern is four times the number of its literal
characters, and two bits, so that `MoreSpecific`, which speaks of the raw patterns, and
`Before`, which compares the compiled ones, are the same order (`SortedMeansSpecific`);
two patterns `Before` does not tell apart are one pattern (`OneIsMoreSpecific`).

`SentToTheRightPlace` compares what the code does to a text with what `Address` reads in
it: scheme, host and path. Cutting slashes off the end of an address changes nothing of what
it says but the slashes at the end of its path (`TrimmedHalves`), so that `normalizeBase`
leaves what the request's text says, and accepts none that says too little
(`NormalizedSays`); a base `checkBase` accepts says itself (`PresetSays`). From such a base
`buildURL` makes an address with the same scheme and host (`BuiltAddress`): the path in
front of the first slash ends where the host does (`Halves`), and taking out the version
of the client's path is the same as going on at its second slash (`JoinIs`). That lists put
together are lists (`FlattenWithin`) is again an induction by the least counterexample, on
the recursive function in `FlattenSeq`.

What is model-checked only: liveness, that is `NothingHeldForever`, `CallEnds`,
`AskedIsServed`, `TermEnds`, and the fair part of `GateKeepsPromise`. The prover has no rule
for fairness or `ENABLED`. Every invariant and every action property of the runs that pass
is proved.

## 7. Not modelled

* the outcome `rewrite_failed` of Gateway: `RewriteModel` on a body in which
  `ExtractModel` has found the model does not fail;
* the client's address, which only reaches attributes of the span, and the attributes that
  only describe a request; exporters, sampling and the shortening of error bodies; `NO_PROXY`
  and the syntax of proxy addresses; the query string;
* the variables of `Config` that set limits, transports and observability: numbers and
  durations, read once by the same few functions;
* an upstream body that is no JSON is relayed as it is (`LooksLikeJSON`); in
  `Gateway` that is not told from a JSON one without names;
* `PipeSSE` drops the error of the last flush; `EventStream` has failing writes at
  the moment the writer's buffer is passed on only;
* `UpstreamCall` is one call: that a request may have two, one after the other, is
  Gateway's part;
* how many connections a transport of the proxy pool has to one upstream, and the limits
  on that; HTTP/2 pings;
* the early return of `main.run` when `obs.New` fails, before the flush is deferred;
* duplicate JSON keys, and sjson's characters with a meaning in paths;
* the parse caches of `mapping` and `capability`: they hand on what `Parse` returned for
  the same text, entries are never changed, and nobody compares them;
* `Rules.New`'s statistics, and errors of `Parse` beyond the number that is kept.

## 8. Plan

In this order:

1. `StreamCall`, which puts `LineRelay` between the `Read` and the `Write` of
   `UpstreamCall`: whether a break of either side leaves a half line behind;
2. the parse caches of `mapping` and `capability` as a module of their own, if they get
   more to do than to hand on what was parsed.
