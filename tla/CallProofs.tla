----------------------------- MODULE CallProofs -----------------------------
(***************************************************************************)
(* Proofs about one call to the upstream, for every idle limit and every   *)
(* length of the stream: who is blamed for its end, that its body is       *)
(* closed, and that the idle watchdog waits for as long as it should.      *)
(***************************************************************************)
EXTENDS UpstreamCall, TLAPS

\* The goroutine is still in Do.
InDo == {"sending", "answered", "stopped"}

\* Do has returned a response and the stream is being relayed.
InStream == {"open", "next", "reading", "writing", "closing", "eof"}
            \cup Failures

----------------------------------------------------------------------------
(* Types                                                                   *)

\* Where things stand, without the counters of time and of pieces.
Places ==
    /\ pc \in {"sending", "answered", "stopped", "open", "next", "reading",
               "writing", "closing", "end", "eof"} \cup Failures
    /\ settled \in BOOLEAN /\ tripped \in BOOLEAN
    /\ gone \in BOOLEAN /\ broken \in BOOLEAN
    /\ fb \in {"armed", "running", "won", "over"}
    /\ ctx \in {"live"} \cup Causes
    /\ got \in {"none", "resp", "refused", "canceled", "deadline"}
    /\ result \in {"none", "ok", "first_byte", "refused", "canceled",
                   "deadline"}
    /\ body \in {"none", "open", "closed"}
    /\ sg \in {"off", "armed", "running", "marked", "over"}
    /\ feed \in {"flowing"} \cup Endings
    /\ outcome \in {"stream", "stream_stall", "client_gone", "stream_eof",
                    "stream_broken"}

Numbers ==
    /\ idle \in 0 .. Stall /\ silent \in 0 .. Stall /\ quiet \in 0 .. Stall
    /\ sent \in 0 .. MaxChunks /\ queue \in 0 .. sent

LEMMA InitTypes == Init => Places /\ Numbers
<1> SUFFICES ASSUME Init PROVE Places /\ Numbers
  OBVIOUS
<1>1. Places
  BY DEF Init, Places
<1>2. Numbers
  BY CallAssumption DEF Init, Numbers
<1> QED
  BY <1>1, <1>2

LEMMA StepPlaces ==
    ASSUME Places, [Next]_vars
    PROVE  Places'
<1> USE DEF Places, Failures, Endings, Causes, doVars, stallVars, netVars
<1>1. CASE UNCHANGED vars
  BY <1>1 DEF vars
<1>2. CASE Answered
  BY <1>2 DEF Answered, CtxError
<1>3. CASE StopFirstByte
  BY <1>3 DEF StopFirstByte
<1>4. CASE Settle
  BY <1>4 DEF Settle, Cancel
<1>5. CASE FirstByteRunsOut \/ FirstByteCAS \/ FirstByteCancel
  BY <1>5 DEF FirstByteRunsOut, FirstByteCAS, FirstByteCancel, Cancel
<1>6. CASE WrapBody
  <2>1. broken' \in BOOLEAN /\ sg' \in {"armed", "off"} /\ pc' = "next"
    BY <1>6, Zenon DEF WrapBody
  <2>2. UNCHANGED <<doVars, ctx, body, tripped, quiet, netVars, gone, outcome>>
    BY <1>6 DEF WrapBody
  <2> QED
    BY <2>1, <2>2
<1>7. CASE Read \/ ReadData
  BY <1>7 DEF Read, ReadData
<1>8. CASE ReadEnds
  BY <1>8 DEF ReadEnds, StopIdle
<1>9. CASE ReadCancelled
  BY <1>9 DEF ReadCancelled, StopIdle, CtxError
<1>3a. CASE Write \/ WriteFails
  BY <1>3a DEF Write, WriteFails
<1>11. CASE Classify
  BY <1>11 DEF Classify, StopIdle
<1>12. CASE Close
  BY <1>12 DEF Close, Cancel
<1>13. CASE IdleRunsOut \/ IdleMarks \/ IdleCancels
  BY <1>13 DEF IdleRunsOut, IdleMarks, IdleCancels, Cancel
<1>14. CASE Arrives \/ UpstreamEnds \/ Tick
  BY <1>14 DEF Arrives, UpstreamEnds, Tick
<1>15. CASE ClientLeaves \/ TotalRunsOut
  BY <1>15 DEF ClientLeaves, TotalRunsOut, Cancel
<1> QED
  BY <1>1, <1>2, <1>3, <1>4, <1>5, <1>6, <1>7, <1>8,
     <1>9, <1>3a, <1>11, <1>12, <1>13, <1>14, <1>15 DEF Next, Goroutine, Callbacks

LEMMA StepNumbers ==
    ASSUME Numbers, [Next]_vars
    PROVE  Numbers'
<1> USE CallAssumption DEF Numbers, doVars, stallVars, netVars
<1>1. CASE UNCHANGED vars
  BY <1>1 DEF vars
<1>2. CASE Answered \/ StopFirstByte \/ Settle \/ FirstByteRunsOut
           \/ FirstByteCAS \/ FirstByteCancel
  BY <1>2 DEF Answered, StopFirstByte, Settle, FirstByteRunsOut, FirstByteCAS,
     FirstByteCancel
<1>3. CASE Read \/ ReadData \/ ReadEnds \/ ReadCancelled
  BY <1>3 DEF Read, ReadData, ReadEnds, ReadCancelled
<1>4. CASE Write \/ WriteFails \/ Classify \/ Close
  BY <1>4 DEF Write, WriteFails, Classify, Close
<1>5. CASE IdleRunsOut \/ IdleMarks \/ IdleCancels
  BY <1>5 DEF IdleRunsOut, IdleMarks, IdleCancels
<1>6. CASE WrapBody
  <2>1. idle' = 0 /\ UNCHANGED <<quiet, netVars>>
    BY <1>6 DEF WrapBody
  <2> QED
    BY <2>1
<1>7. CASE UpstreamEnds \/ ClientLeaves \/ TotalRunsOut
  BY <1>7 DEF UpstreamEnds, ClientLeaves, TotalRunsOut
<1>8. CASE Arrives
  BY <1>8 DEF Arrives
<1>9. CASE Tick
  BY <1>9 DEF Tick
<1> QED
  BY <1>1, <1>2, <1>3, <1>4, <1>5, <1>6, <1>7, <1>8, <1>9
  DEF Next, Goroutine, Callbacks

LEMMA TypeInvariance == Safety => []TypeOK
<1>1. Places /\ Numbers => TypeOK
  BY DEF Places, Numbers, TypeOK
<1> QED
  BY <1>1, InitTypes, StepPlaces, StepNumbers, PTL DEF Safety

\* Every variable keeps its type; no timer is measured beyond the limit.
THEOREM CallTypeCorrect == Spec => []TypeOK
BY TypeInvariance, PTL DEF Spec

----------------------------------------------------------------------------
(* Who is blamed                                                           *)

\* The first-byte watchdog: whoever sets the flag first decides, and the other
\* one keeps out.
DoInv ==
    /\ ~settled => result = "none"
    /\ fb = "won" \/ ctx = "first_byte" =>
          settled /\ result \in {"none", "first_byte"}
    /\ pc \notin InDo => result # "none"
    /\ pc \in InStream => result = "ok"
    /\ pc \in {"answered", "stopped"} => got # "none"

\* What a cancelled context tells of who has cancelled it.
CauseInv ==
    /\ ctx = "owner" => pc = "end"
    /\ ctx = "client" => gone
    /\ ctx = "stall" \/ sg = "marked" => tripped

\* What an error tells of what has happened.
ErrorInv ==
    /\ broken => gone
    /\ pc \in Endings => feed = pc
    /\ pc = "epipe" => gone
    /\ pc = "canceled" => tripped \/ gone
    /\ StallNotSwallowed

BlameInv == DoInv /\ CauseInv /\ ErrorInv

LEMMA StepDo ==
    ASSUME TypeOK, DoInv, [Next]_vars
    PROVE  DoInv'
<1> USE DEF TypeOK, DoInv, InDo, InStream, Failures, Endings, doVars,
        stallVars, netVars
<1>1. CASE UNCHANGED vars
  BY <1>1 DEF vars
<1>2. CASE Answered \/ StopFirstByte \/ FirstByteRunsOut
  BY <1>2 DEF Answered, StopFirstByte, FirstByteRunsOut, CtxError
<1>3. CASE Settle
  BY <1>3 DEF Settle, Cancel
<1>4. CASE FirstByteCAS \/ FirstByteCancel
  BY <1>4 DEF FirstByteCAS, FirstByteCancel, Cancel
<1>5. CASE WrapBody \/ Read \/ ReadData \/ ReadEnds \/ ReadCancelled
  BY <1>5 DEF WrapBody, Read, ReadData, ReadEnds, ReadCancelled, StopIdle,
     CtxError
<1>6. CASE Write \/ WriteFails \/ Classify \/ Close
  BY <1>6 DEF Write, WriteFails, Classify, Close, StopIdle, Cancel
<1>7. CASE IdleRunsOut \/ IdleMarks \/ IdleCancels
  BY <1>7 DEF IdleRunsOut, IdleMarks, IdleCancels, Cancel
<1>8. CASE Arrives \/ UpstreamEnds \/ ClientLeaves \/ TotalRunsOut \/ Tick
  BY <1>8 DEF Arrives, UpstreamEnds, ClientLeaves, TotalRunsOut, Tick, Cancel
<1> QED
  BY <1>1, <1>2, <1>3, <1>4, <1>5, <1>6, <1>7, <1>8
  DEF Next, Goroutine, Callbacks

LEMMA StepCause ==
    ASSUME TypeOK, CauseInv, [Next]_vars
    PROVE  CauseInv'
<1> USE DEF TypeOK, CauseInv, Failures, Endings, doVars, stallVars, netVars
<1>1. CASE UNCHANGED vars
  BY <1>1 DEF vars
<1>2. CASE Answered \/ StopFirstByte \/ Settle \/ FirstByteRunsOut
           \/ FirstByteCAS \/ FirstByteCancel
  BY <1>2 DEF Answered, StopFirstByte, Settle, FirstByteRunsOut, FirstByteCAS,
     FirstByteCancel, Cancel
<1>3. CASE WrapBody \/ Read \/ ReadData \/ ReadEnds \/ ReadCancelled
  BY <1>3 DEF WrapBody, Read, ReadData, ReadEnds, ReadCancelled, StopIdle
<1>4. CASE Write \/ WriteFails \/ Classify \/ Close
  BY <1>4 DEF Write, WriteFails, Classify, Close, StopIdle, Cancel
<1>5. CASE IdleRunsOut \/ IdleMarks \/ IdleCancels
  BY <1>5 DEF IdleRunsOut, IdleMarks, IdleCancels, Cancel
<1>6. CASE Arrives \/ UpstreamEnds \/ ClientLeaves \/ TotalRunsOut \/ Tick
  BY <1>6 DEF Arrives, UpstreamEnds, ClientLeaves, TotalRunsOut, Tick, Cancel
<1> QED
  BY <1>1, <1>2, <1>3, <1>4, <1>5, <1>6 DEF Next, Goroutine, Callbacks

LEMMA StepError ==
    ASSUME TypeOK, BlameInv, [Next]_vars
    PROVE  ErrorInv'
<1> USE DEF TypeOK, BlameInv, ErrorInv, StallNotSwallowed, Failures, Endings,
        doVars, stallVars, netVars
<1>1. CASE UNCHANGED vars
  BY <1>1 DEF vars
<1>2. CASE Answered \/ StopFirstByte \/ Settle \/ FirstByteRunsOut
           \/ FirstByteCAS \/ FirstByteCancel
  BY <1>2 DEF Answered, StopFirstByte, Settle, FirstByteRunsOut, FirstByteCAS,
     FirstByteCancel
<1>3. CASE WrapBody
  BY <1>3 DEF WrapBody
<1>3a. CASE Read \/ ReadData \/ ReadEnds
  BY <1>3a DEF Read, ReadData, ReadEnds
\* Do has returned a response, so the first-byte watchdog is not the cause.
<1>4. CASE ReadCancelled
  <2>1. result = "ok" /\ ctx \notin {"first_byte", "owner", "live"}
    BY <1>4 DEF ReadCancelled, DoInv, CauseInv, InStream
  <2>2. ctx = "total" \/ gone \/ tripped
    BY <2>1 DEF CauseInv, Causes
  <2> QED
    BY <1>4, <2>2 DEF ReadCancelled, CtxError
<1>5. CASE Write \/ WriteFails
  BY <1>5 DEF Write, WriteFails
<1>6. CASE Classify
  BY <1>6 DEF Classify, IsClientGone
<1>7. CASE Close
  BY <1>7 DEF Close
<1>8. CASE IdleRunsOut \/ IdleMarks \/ IdleCancels
  BY <1>8 DEF IdleRunsOut, IdleMarks, IdleCancels
<1>9. CASE Arrives \/ UpstreamEnds \/ ClientLeaves \/ TotalRunsOut \/ Tick
  BY <1>9 DEF Arrives, UpstreamEnds, ClientLeaves, TotalRunsOut, Tick
<1> QED
  BY <1>1, <1>2, <1>3, <1>4, <1>5, <1>6, <1>7, <1>8, <1>9,
     <1>3a
  DEF Next, Goroutine, Callbacks

LEMMA BlameInvariance == Safety => [](TypeOK /\ BlameInv)
<1>1. Init => BlameInv
  BY DEF Init, BlameInv, DoInv, CauseInv, ErrorInv,
     StallNotSwallowed, InDo, InStream, Failures, Endings
<1>2. TypeOK /\ BlameInv /\ [Next]_vars => BlameInv'
  BY StepDo, StepCause, StepError DEF BlameInv
<1> QED
  BY <1>1, <1>2, TypeInvariance, PTL DEF Safety

\* Neither watchdog's cut is put down to somebody else, in whatever order the
\* timer, the cancellation and the reader come (transport.go:239-241, 332-345;
\* stall.go:32-37).
THEOREM BlameIsRight == Spec => []WatchdogsOwnUp
<1>1. BlameInv => WatchdogsOwnUp
  BY DEF BlameInv, DoInv, ErrorInv, InDo, WatchdogsOwnUp,
     WatchdogSparesStream, FirstByteOwnsUp
<1> QED
  BY <1>1, BlameInvariance, PTL DEF Spec

----------------------------------------------------------------------------
(* The response and the idle time                                          *)

\* An answer is closed by whoever ends the call, also one that comes in while
\* the first-byte watchdog fires (transport.go:332-345, gateway.go:398-402).
THEOREM BodyIsClosed == Spec => []NoBodyLeft
<1>1. Init => NoBodyLeft
  BY DEF Init, NoBodyLeft
<1>2. NoBodyLeft /\ TypeOK /\ [Next]_vars => NoBodyLeft'
  <2> SUFFICES ASSUME NoBodyLeft, TypeOK, [Next]_vars
               PROVE  NoBodyLeft'
    OBVIOUS
  <2> USE DEF NoBodyLeft, TypeOK, Failures, Endings, doVars, stallVars, netVars
  <2>1. CASE UNCHANGED vars
    BY <2>1 DEF vars
  <2>2. CASE Answered \/ StopFirstByte \/ Settle \/ FirstByteRunsOut
             \/ FirstByteCAS \/ FirstByteCancel
    BY <2>2 DEF Answered, StopFirstByte, Settle, FirstByteRunsOut,
       FirstByteCAS, FirstByteCancel
  <2>3. CASE WrapBody \/ Read \/ ReadData \/ ReadEnds \/ ReadCancelled
    BY <2>3 DEF WrapBody, Read, ReadData, ReadEnds, ReadCancelled, CtxError
  <2>4. CASE Write \/ WriteFails \/ Classify \/ Close
    BY <2>4 DEF Write, WriteFails, Classify, Close
  <2>5. CASE IdleRunsOut \/ IdleMarks \/ IdleCancels
    BY <2>5 DEF IdleRunsOut, IdleMarks, IdleCancels
  <2>6. CASE Arrives \/ UpstreamEnds \/ ClientLeaves \/ TotalRunsOut \/ Tick
    BY <2>6 DEF Arrives, UpstreamEnds, ClientLeaves, TotalRunsOut, Tick
  <2> QED
    BY <2>1, <2>2, <2>3, <2>4, <2>5, <2>6 DEF Next, Goroutine, Callbacks
<1> QED
  BY <1>1, <1>2, CallTypeCorrect, PTL DEF Spec, Safety

\* While a Read waits for an upstream that has sent nothing more, the idle timer
\* is never ahead of the silence.
SilenceInv == pc = "reading" /\ queue = 0 => idle <= silent

LEMMA StepSilence ==
    ASSUME TypeOK, SilenceInv, [Next]_vars
    PROVE  SilenceInv'
<1> USE CallAssumption DEF TypeOK, SilenceInv, Failures, Endings, doVars,
        stallVars, netVars
<1>1. CASE UNCHANGED vars
  BY <1>1 DEF vars
<1>2. CASE Answered \/ StopFirstByte \/ Settle \/ FirstByteRunsOut
           \/ FirstByteCAS \/ FirstByteCancel
  BY <1>2 DEF Answered, StopFirstByte, Settle, FirstByteRunsOut, FirstByteCAS,
     FirstByteCancel
<1>3. CASE WrapBody \/ Read \/ ReadData \/ ReadEnds \/ ReadCancelled
  BY <1>3 DEF WrapBody, Read, ReadData, ReadEnds, ReadCancelled, CtxError
<1>4. CASE Write \/ WriteFails \/ Classify \/ Close
  BY <1>4 DEF Write, WriteFails, Classify, Close
<1>5. CASE IdleRunsOut \/ IdleMarks \/ IdleCancels
  BY <1>5 DEF IdleRunsOut, IdleMarks, IdleCancels
<1>6. CASE Arrives \/ UpstreamEnds \/ ClientLeaves \/ TotalRunsOut
  BY <1>6 DEF Arrives, UpstreamEnds, ClientLeaves, TotalRunsOut
<1>7. CASE Tick
  BY <1>7 DEF Tick
<1> QED
  BY <1>1, <1>2, <1>3, <1>4, <1>5, <1>6, <1>7 DEF Next, Goroutine, Callbacks

\* The idle watchdog does not fire during a Read before the upstream has been
\* silent for the whole limit, or has sent what was not read yet (stall.go:58-62).
THEOREM ReaderIsSpared == Spec => ProgressIsSafe
<1>1. Init => SilenceInv
  BY DEF Init, SilenceInv
<1>2. TypeOK /\ SilenceInv /\ [Next]_vars => SilenceInv'
  BY StepSilence
<1>3. TypeOK /\ SilenceInv =>
        (IdleRunsOut /\ pc = "reading" => silent = Stall \/ queue > 0)
  BY CallAssumption DEF TypeOK, SilenceInv, IdleRunsOut
<1> QED
  BY <1>1, <1>2, <1>3, CallTypeCorrect, PTL DEF Spec, Safety, ProgressIsSafe
=============================================================================
