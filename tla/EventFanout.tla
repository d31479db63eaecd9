----------------------------- MODULE EventFanout -----------------------------
(***************************************************************************)
(* What the hub promises those who publish: an event is handed to each     *)
(* client that was there when it was published, and whoever it could not   *)
(* be handed to is a client no longer.                                     *)
(***************************************************************************)
EXTENDS Integers

CONSTANTS
    Conns,      \* the connections of one run, each joins at most once
    MaxEvents   \* bound of the model: events published in one run

VARIABLES
    members,    \* the clients
    newcomers,  \* connections that have not joined yet
    audience,   \* per event, the clients it is for
    got,        \* per event, those it was handed to
    open        \* the events being handed out

Events == 1..MaxEvents

Init ==
    /\ members = {} /\ newcomers = Conns /\ open = {}
    /\ audience = [e \in Events |-> {}]
    /\ got = [e \in Events |-> {}]

Join(c) ==
    /\ c \in newcomers
    /\ newcomers' = newcomers \ {c}
    /\ members' = members \cup {c}
    /\ UNCHANGED <<audience, got, open>>

Leave(c) ==
    /\ c \in members
    /\ members' = members \ {c}
    /\ UNCHANGED <<newcomers, audience, got, open>>

Publish(e) ==
    /\ e \notin open /\ audience[e] = {}
    /\ open' = open \cup {e}
    /\ audience' = [audience EXCEPT ![e] = members]
    /\ UNCHANGED <<members, newcomers, got>>

Deliver(e, c) ==
    /\ e \in open /\ c \in audience[e] \ got[e]
    /\ got' = [got EXCEPT ![e] = @ \cup {c}]
    /\ UNCHANGED <<members, newcomers, audience, open>>

\* Nobody is left in between: a client was reached, or is dropped.
Finish(e) ==
    /\ e \in open
    /\ open' = open \ {e}
    /\ members' = members \ (audience[e] \ got[e])
    /\ UNCHANGED <<newcomers, audience, got>>

Next ==
    \/ \E c \in Conns : Join(c) \/ Leave(c)
    \/ \E e \in Events : Publish(e) \/ Finish(e) \/ \E c \in Conns : Deliver(e, c)

Spec == Init /\ [][Next]_<<members, newcomers, audience, got, open>>
=============================================================================
