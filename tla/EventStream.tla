----------------------------- MODULE EventStream -----------------------------
(***************************************************************************)
(* The relay of a server-sent event stream: PipeSSE with its line reader   *)
(* and its buffered writer (protocol/sse.go), and before it the synthetic  *)
(* first event of pipeStream (gateway/response.go, protocol/preamble.go).  *)
(*                                                                         *)
(* A stream is a sequence of characters: "n" and "r" end lines, "D" stands *)
(* for the prefix data: with the blanks after it, "{" for the beginning of *)
(* a JSON object, "u" and "p" for the upstream and the public name.        *)
(***************************************************************************)
EXTENDS Naturals, Sequences, SequencesExt, FiniteSetsExt

CONSTANTS
    Streams, \* what is relayed: [frame |-> the synthetic event, body |-> the answer]
    Buf,     \* sseReaderBuf
    MaxLine  \* sseMaxLine, a multiple of Buf

Chars == {"D", "{", "u", "p", "x", "n", "r"}

\* The synthetic event is made of whole lines, without a carriage return.
ASSUME StreamAssumption ==
    /\ Streams \subseteq [frame : Seq(Chars), body : Seq(Chars)]
    /\ \A s \in Streams : /\ s.frame # <<>> => Last(s.frame) = "n"
                          /\ \A k \in DOMAIN s.frame : s.frame[k] # "r"
    /\ Buf \in Nat \ {0} /\ MaxLine \in {k * Buf : k \in 2 .. MaxLine}

VARIABLES
    stream, tr, \* what is relayed; whether there is a transformer
    pc,
    src,    \* what the upstream has still to send
    buf,    \* the bufio.Reader
    acc,    \* the pieces readLine has put together
    line, err, \* what readLine returned
    held,   \* what was written and not flushed
    sent,   \* what the client has got of it
    greeted, \* what the client has got before it
    gone,   \* the client has hung up
    sticky, \* the bufio.Writer has met an error
    events, rewrote, \* SSEStats
    result  \* what PipeSSE returned

given == <<stream, tr>>
reader == <<src, buf, acc, line, err>>
writer == <<held, sent, sticky>>
stats == <<events, rewrote>>
vars == <<given, pc, reader, writer, greeted, gone, stats, result>>

PreambleCopies == 2

\* trimEOL without the newline.
TrimCR(s) == IF s # <<>> /\ Last(s) = "r" THEN Front(s) ELSE s

\* transformLine: only an object in a data line is given to the transformer,
\* whose work on it is the subject of JsonSanitize.
TransformLine(on, s) ==
    IF on /\ Len(s) > 1 /\ s[1] = "D" /\ s[2] = "{"
    THEN [k \in DOMAIN s |-> IF s[k] = "u" THEN "p" ELSE s[k]]
    ELSE s

Transform(s) == TransformLine(tr, s)

Newline(s) == LET at == {k \in DOMAIN s : s[k] = "n"}
              IN  IF at = {} THEN 0 ELSE Min(at)

\* Mutant: only the first line is looked at.
SanitizeEventFirst(frame) ==
    LET i == Newline(frame)
    IN  IF i = 0 THEN Transform(frame)
        ELSE Transform(SubSeq(frame, 1, i - 1)) \o SubSeq(frame, i, Len(frame))

\* SanitizeEvent: line by line, the newlines as they are.
SanitizeEvent(frame) ==
    LET from[n \in 1 .. Len(frame) + 1] ==
            LET rest == SubSeq(frame, n, Len(frame))
                i == Newline(rest)
            IN  IF i = 0 THEN Transform(rest)
                ELSE Transform(SubSeq(rest, 1, i - 1)) \o <<"n">> \o from[n + i]
    IN  from[1]

Init ==
    /\ stream \in Streams /\ tr \in BOOLEAN
    /\ pc = "preamble"
    /\ src = stream.body /\ buf = <<>> /\ acc = <<>> /\ line = <<>> /\ err = "none"
    /\ held = <<>> /\ sent = <<>> /\ greeted = <<>> /\ gone = FALSE /\ sticky = FALSE
    /\ events = 0 /\ rewrote = 0 /\ result = "none"

\* The client hangs up.
Leave ==
    /\ ~gone /\ gone' = TRUE
    /\ UNCHANGED <<given, pc, reader, writer, greeted, stats, result>>

\* Flush ignores what the writer says, which the writer remembers.
Flush(bytes) ==
    /\ held' = <<>>
    /\ sent' = IF gone THEN sent ELSE sent \o bytes
    /\ sticky' = (sticky \/ gone)

\* The synthetic event, PreambleCopies times, and the response's headers.
SendPreamble ==
    /\ pc = "preamble"
    /\ LET pre == SanitizeEvent(stream.frame)
       IN  greeted' = IF gone THEN <<>>
                      ELSE FlattenSeq([k \in 1 .. PreambleCopies |-> pre])
    /\ pc' = "read"
    /\ UNCHANGED <<given, reader, writer, gone, stats, result>>

----------------------------------------------------------------------------
(* readLine                                                                *)

Blocked == pc = "read" /\ Newline(buf) = 0 /\ Len(buf) < Buf

\* A read returns whatever has arrived.
Fill ==
    /\ Blocked
    /\ \E k \in 1 .. Len(src) :
          /\ k <= Buf - Len(buf)
          /\ buf' = buf \o SubSeq(src, 1, k)
          /\ src' = SubSeq(src, k + 1, Len(src))
    /\ UNCHANGED <<given, pc, acc, line, err, writer, greeted, gone, stats,
                   result>>

ReturnLine(l, e) ==
    /\ line' = TrimCR(l) /\ err' = e
    /\ acc' = <<>> /\ pc' = "write"

\* Mutant: the pieces already read are forgotten at the newline.
ReadToNewlineOnly ==
    /\ pc = "read" /\ Newline(buf) > 0
    /\ ReturnLine(SubSeq(buf, 1, Newline(buf) - 1), "none")
    /\ buf' = SubSeq(buf, Newline(buf) + 1, Len(buf))
    /\ UNCHANGED <<given, src, writer, greeted, gone, stats, result>>

ReadToNewline ==
    /\ pc = "read" /\ Newline(buf) > 0
    /\ ReturnLine(acc \o SubSeq(buf, 1, Newline(buf) - 1), "none")
    /\ buf' = SubSeq(buf, Newline(buf) + 1, Len(buf))
    /\ UNCHANGED <<given, src, writer, greeted, gone, stats, result>>

\* Mutant: one buffer more than the limit.
ReadFullOneMore ==
    /\ pc = "read" /\ Newline(buf) = 0 /\ Len(buf) = Buf
    /\ buf' = <<>>
    /\ IF Len(acc) + Buf <= MaxLine
       THEN acc' = acc \o buf /\ UNCHANGED <<line, err, pc>>
       ELSE ReturnLine(acc \o buf, "none")
    /\ UNCHANGED <<given, src, writer, greeted, gone, stats, result>>

\* The buffer is full: go on, unless the line has become too long.
ReadFull ==
    /\ pc = "read" /\ Newline(buf) = 0 /\ Len(buf) = Buf
    /\ buf' = <<>>
    /\ IF Len(acc) + Buf < MaxLine
       THEN acc' = acc \o buf /\ UNCHANGED <<line, err, pc>>
       ELSE ReturnLine(acc \o buf, "none")
    /\ UNCHANGED <<given, src, writer, greeted, gone, stats, result>>

\* Nothing more comes: the end, or a failure.
ReadEnd ==
    /\ Blocked /\ src = <<>>
    /\ \E e \in {"EOF", "failure"} : ReturnLine(acc \o buf, e)
    /\ buf' = <<>>
    /\ UNCHANGED <<given, src, writer, greeted, gone, stats, result>>

----------------------------------------------------------------------------
(* The loop of PipeSSE                                                     *)

\* A write fails when the writer has failed before, and may fail when it spills.
WriteFails ==
    /\ pc = "write" /\ (line # <<>> \/ err = "none")
    /\ sticky \/ gone
    /\ result' = "write_error" /\ pc' = "done"
    /\ UNCHANGED <<given, reader, writer, greeted, gone, stats>>

\* Mutant: an empty line is written and not flushed.
WriteBlankUnflushed ==
    /\ pc = "write" /\ line = <<>> /\ err = "none" /\ ~sticky
    /\ held' = held \o <<"n">>
    /\ events' = events + 1 /\ pc' = "read"
    /\ UNCHANGED <<given, reader, sent, sticky, greeted, gone, rewrote, result>>

\* An empty line ends an event.
WriteBlank ==
    /\ pc = "write" /\ line = <<>> /\ err = "none" /\ ~sticky
    /\ Flush(held \o <<"n">>)
    /\ events' = events + 1 /\ pc' = "read"
    /\ UNCHANGED <<given, reader, greeted, gone, rewrote, result>>

\* Mutant: a line that ends with the stream is not written.
WriteLineComplete ==
    /\ pc = "write" /\ line # <<>> /\ ~sticky
    /\ LET out == IF err = "none" THEN Transform(line) \o <<"n">> ELSE <<>>
       IN  IF buf = <<>> THEN Flush(held \o out)
           ELSE held' = held \o out /\ UNCHANGED <<sent, sticky>>
    /\ rewrote' = IF Transform(line) # line THEN rewrote + 1 ELSE rewrote
    /\ IF err = "none" THEN pc' = "read" /\ UNCHANGED result
       ELSE pc' = "done" /\ result' = IF err = "EOF" THEN "nil" ELSE err
    /\ UNCHANGED <<given, reader, greeted, events, gone>>

\* Any other line; the writer is flushed when the reader has nothing left, and
\* at the end, which is when readLine has left nothing.
WriteLine ==
    /\ pc = "write" /\ line # <<>> /\ ~sticky
    /\ LET out == held \o Transform(line) \o <<"n">>
       IN  IF buf = <<>> THEN Flush(out)
           ELSE held' = out /\ UNCHANGED <<sent, sticky>>
    /\ rewrote' = IF Transform(line) # line THEN rewrote + 1 ELSE rewrote
    /\ IF err = "none" THEN pc' = "read" /\ UNCHANGED result
       ELSE pc' = "done" /\ result' = IF err = "EOF" THEN "nil" ELSE err
    /\ UNCHANGED <<given, reader, greeted, events, gone>>

\* The end with nothing before it.
WriteNothing ==
    /\ pc = "write" /\ line = <<>> /\ err # "none"
    /\ Flush(held)
    /\ pc' = "done" /\ result' = IF err = "EOF" THEN "nil" ELSE err
    /\ UNCHANGED <<given, reader, greeted, stats, gone>>

Next ==
    \/ SendPreamble \/ Leave
    \/ Fill \/ ReadToNewline \/ ReadFull \/ ReadEnd
    \/ WriteFails \/ WriteBlank \/ WriteLine \/ WriteNothing

Spec == Init /\ [][Next]_vars
----------------------------------------------------------------------------
(* Properties                                                              *)

\* The values the variables may have.
TypeOK ==
    /\ stream \in Streams /\ tr \in BOOLEAN /\ gone \in BOOLEAN /\ sticky \in BOOLEAN
    /\ pc \in {"preamble", "read", "write", "done"}
    /\ Len(buf) <= Buf /\ Len(acc) < MaxLine /\ Len(line) <= MaxLine
    /\ \A s \in {src, buf, acc, line, held, greeted, sent} : s \in Seq(Chars)
    /\ err \in {"none", "EOF", "failure"}
    /\ result \in {"none", "nil", "failure", "write_error"}
    /\ events + rewrote <= Len(stream.body)

Ended(l) == Transform(TrimCR(l)) \o <<"n">>

\* What the relay of a text is: each line sanitised by itself and ended by a
\* newline, and nothing after the last newline if nothing was there.
Relayed(s) ==
    LET from[n \in 1 .. Len(s) + 1] ==
            LET rest == SubSeq(s, n, Len(s))
                k == Newline(rest)
            IN  IF k > 0 THEN Ended(SubSeq(rest, 1, k - 1)) \o from[n + k]
                ELSE IF TrimCR(rest) = <<>> THEN <<>> ELSE Ended(rest)
    IN  from[1]

\* No line is as long as the limit.
Short ==
    \A k \in 1 .. Len(stream.body) + 1 - MaxLine :
        \E j \in k .. k + MaxLine - 1 : stream.body[j] = "n"

Expected == Relayed(stream.frame) \o Relayed(stream.frame) \o Relayed(stream.body)

\* sse.go:50-54, 150-166: however the bytes arrive, and however the lines lie
\* in the reader's buffer, what has been written is a beginning of the text
\* with its lines sanitised one by one, and the synthetic event has gone the
\* same way as the rest.
LinesSurviveChunking ==
    Short /\ pc # "preamble" /\ ~gone => IsPrefix(greeted \o sent \o held, Expected)

\* sse.go:113-119: PipeSSE returns no error only when the client has the whole
\* text, the last line included if the upstream did not end it.
CleanEndIsWhole == Short /\ result = "nil" /\ ~gone => greeted \o sent = Expected

\* The relay is the upstream's text at every moment and all of it at a clean end.
RelayIsFaithful == LinesSurviveChunking /\ CleanEndIsWhole

\* sse.go:54: while PipeSSE waits for the upstream the client has every event
\* that is complete, whatever of the next one lies in the reader's buffer.
EventsNotHeldBack ==
    LET seen == SubSeq(stream.body, 1, Len(stream.body) - Len(src))
        ends == {k \in DOMAIN Relayed(seen) :
                    k > 1 /\ Relayed(seen)[k] = "n" /\ Relayed(seen)[k - 1] = "n"}
    IN  Short /\ Blocked /\ ~gone => \A k \in ends : Len(sent) >= k

\* PipeSSE keeps the promise of LineRelay: neither how the bytes arrive nor how
\* they lie in the reader's and the writer's buffer can be told from what it does.
Relay == INSTANCE LineRelay WITH
             Texts <- {s.body : s \in Streams}, Made <- TransformLine,
             on <- tr, rest <- acc \o buf \o src,
             at <- IF pc = "preamble" THEN "read" ELSE pc,
             hand <- line, why <- err, waiting <- held, passed <- sent,
             broken <- sticky, outcome <- result

RelayKeepsPromise == Relay!RSpec

----------------------------------------------------------------------------
(* What the documentation says and the code does not do                    *)

\* The lines of a text, the last of them without a newline.
LinesOf(s) ==
    LET ends == SetToSortSeq({0, Len(s) + 1} \cup {k \in DOMAIN s : s[k] = "n"}, <)
    IN  [k \in 1 .. Len(ends) - 1 |-> SubSeq(s, ends[k] + 1, ends[k + 1] - 1)]

\* sse.go:32: a line that is too long goes through piece by piece.  A newline
\* is put between the pieces.
LongLinesPassThrough ==
    result = "nil" /\ ~gone /\ ~tr =>
        \A l \in ToSet(LinesOf(stream.body)) :
            \E k \in 0 .. Len(sent) : IsPrefix(TrimCR(l), SubSeq(sent, k + 1, Len(sent)))
=============================================================================
