----------------------------- MODULE Admission -----------------------------
(***************************************************************************)
(* What the concurrency gate of the gateway promises to its callers,       *)
(* whatever it is implemented with (internal/gateway/gate.go, 9-25): a     *)
(* client is either let in or turned away at once, never queued; at most   *)
(* Limit clients are inside at any time; a client is only turned away when *)
(* the house is full; whoever is inside eventually leaves.                 *)
(***************************************************************************)
EXTENDS Integers, FiniteSets

CONSTANTS
    Clients,   \* everybody who ever asks to be let in
    Limit      \* how many may be inside; 0 stands for "no limit"

VARIABLES
    inside,    \* the clients that were let in and have not left
    served,    \* the clients that were let in and have left
    turnedAway \* the clients that were refused

avars == <<inside, served, turnedAway>>

Fresh(c) == c \notin inside \cup served \cup turnedAway

AInit ==
    /\ inside = {}
    /\ served = {}
    /\ turnedAway = {}

Enter(c) ==
    /\ Fresh(c)
    /\ Limit = 0 \/ Cardinality(inside) < Limit
    /\ inside' = inside \cup {c}
    /\ UNCHANGED <<served, turnedAway>>

TurnAway(c) ==
    /\ Fresh(c)
    /\ Limit > 0
    /\ Cardinality(inside) = Limit
    /\ turnedAway' = turnedAway \cup {c}
    /\ UNCHANGED <<inside, served>>

Leave(c) ==
    /\ c \in inside
    /\ inside' = inside \ {c}
    /\ served' = served \cup {c}
    /\ UNCHANGED turnedAway

ANext == \E c \in Clients : Enter(c) \/ TurnAway(c) \/ Leave(c)

ASafety == AInit /\ [][ANext]_avars

ASpec == ASafety /\ \A c \in Clients : WF_avars(Leave(c))
=============================================================================
