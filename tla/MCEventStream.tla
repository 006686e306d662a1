---------------------------- MODULE MCEventStream ----------------------------
(* Streams for EventStream: any text, and a few events before a short one. *)
EXTENDS EventStream

Texts(k) == UNION {[1 .. m -> {"D", "{", "u", "n", "r"}] : m \in 0 .. k}

\* The chat chunk with a name in it, and the ping, whose first line is no data.
Frames == { <<"D", "{", "p", "n", "n">>, <<"D", "{", "u", "n", "n">>,
            <<"x", "n", "D", "{", "x", "n", "n">>,
            <<"x", "u", "n", "D", "{", "u", "n", "n">> }

AnyStream ==
    [frame : {<<>>}, body : Texts(5)] \cup [frame : Frames, body : Texts(2)]
=============================================================================
