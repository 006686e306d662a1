------------------------------ MODULE LineRelay ------------------------------
(***************************************************************************)
(* What the relay of an event stream promises, without the buffers between *)
(* the upstream and the client: the text is taken apart at its newlines    *)
(* and nowhere else, a line longer than the limit excepted; each line goes *)
(* on by itself, in its order; and the line that ends an event takes       *)
(* everything that still waits to the client.                              *)
(***************************************************************************)
EXTENDS Naturals, Sequences

CONSTANTS
    Texts,    \* the texts that are relayed
    MaxLine,  \* the longest line that is taken in one piece
    Made(_,_) \* what becomes of a line, if there is anything to be done

VARIABLES
    on,      \* whether there is anything to be done to a line
    rest,    \* what of the text has not been taken yet
    at,      \* "read": between two lines; "write": one is in hand; "done"
    hand,    \* the line in hand
    why,     \* "none", or why it is the last one
    waiting, \* lines that have been passed on and not arrived
    passed,  \* what the client has
    gone,    \* the client has hung up
    broken,  \* which has been noticed
    outcome  \* how the relay has ended

rvars == <<on, rest, at, hand, why, waiting, passed, gone, broken, outcome>>

Ends == {"EOF", "failure"}

\* A carriage return before the newline belongs to the newline.
Bare(s) ==
    IF s # <<>> /\ s[Len(s)] = "r" THEN SubSeq(s, 1, Len(s) - 1) ELSE s

NoNewline(s) == \A k \in DOMAIN s : s[k] # "n"

RInit ==
    /\ on \in BOOLEAN /\ rest \in Texts
    /\ at = "read" /\ hand = <<>> /\ why = "none"
    /\ waiting = <<>> /\ passed = <<>>
    /\ gone = FALSE /\ broken = FALSE /\ outcome = "none"

\* The first k characters go, of which the first l are in hand.
Take(l, k, e) ==
    /\ at = "read" /\ at' = "write"
    /\ hand' = Bare(SubSeq(rest, 1, l)) /\ why' = e
    /\ rest' = SubSeq(rest, k + 1, Len(rest))
    /\ UNCHANGED <<on, waiting, passed, gone, broken, outcome>>

TakeLine ==
    \E k \in DOMAIN rest :
        /\ k <= MaxLine /\ rest[k] = "n" /\ NoNewline(SubSeq(rest, 1, k - 1))
        /\ Take(k - 1, k, "none")

TakePiece ==
    /\ Len(rest) >= MaxLine /\ NoNewline(SubSeq(rest, 1, MaxLine))
    /\ Take(MaxLine, MaxLine, "none")

TakeLast ==
    /\ Len(rest) < MaxLine /\ NoNewline(rest)
    /\ \E e \in Ends : Take(Len(rest), Len(rest), e)

\* What waits arrives, or nothing ever does again.
Arrive(text) ==
    /\ waiting' = <<>>
    /\ passed' = IF gone THEN passed ELSE passed \o text
    /\ broken' = (broken \/ gone)

GoOn ==
    /\ at' = IF why = "none" THEN "read" ELSE "done"
    /\ outcome' = IF why = "none" THEN outcome
                  ELSE IF why = "EOF" THEN "nil" ELSE why
    /\ UNCHANGED <<on, rest, hand, why, gone>>

\* Only a line that ends no event, and is not the last one, may wait.
Pass ==
    LET text == waiting \o Made(on, hand) \o <<"n">>
    IN  /\ at = "write" /\ ~broken
        /\ hand # <<>> \/ why = "none"
        /\ \/ Arrive(text)
           \/ hand # <<>> /\ why = "none" /\ waiting' = text /\ UNCHANGED <<passed, broken>>
        /\ GoOn

\* The text ended with a newline: nothing is added.
PassNothing ==
    /\ at = "write" /\ hand = <<>> /\ why # "none"
    /\ Arrive(waiting)
    /\ GoOn

Fail ==
    /\ at = "write" /\ gone
    /\ at' = "done" /\ outcome' = "write_error"
    /\ UNCHANGED <<on, rest, hand, why, waiting, passed, gone, broken>>

Leave ==
    /\ ~gone /\ gone' = TRUE
    /\ UNCHANGED <<on, rest, at, hand, why, waiting, passed, broken, outcome>>

RNext ==
    TakeLine \/ TakePiece \/ TakeLast \/ Pass \/ PassNothing \/ Fail \/ Leave

RSpec == RInit /\ [][RNext]_rvars
=============================================================================
