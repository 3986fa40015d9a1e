------------------------------- MODULE Gauge -------------------------------
(***************************************************************************)
(* An atomic gauge.  Calls overlap, but each takes effect at one moment    *)
(* between its begin and its answer: it sets the gauge to what it asked    *)
(* for, or reads it.  One that sets it may also end without effect.        *)
(***************************************************************************)
CONSTANTS
    Clients,
    Values,
    Start,          \* the value after a start
    Reading,        \* the request that reads
    None

VARIABLES
    value,
    pending,        \* pending[c]: what c asks for and what has not taken effect
    got             \* got[c]: what c has read and has not been answered

vars == <<value, pending, got>>

Idle == [c \in Clients |-> None]

Init == value = Start /\ pending = Idle /\ got = Idle

Ask(c) ==
    /\ pending[c] = None /\ got[c] = None
    /\ \E request \in Values \cup {Reading} : pending' = [pending EXCEPT ![c] = request]
    /\ UNCHANGED <<value, got>>

\* What c asks for is no longer pending.
Settles(c) ==
    /\ pending[c] # None
    /\ pending' = [pending EXCEPT ![c] = None]

Set(c) == Settles(c) /\ pending[c] # Reading /\ value' = pending[c] /\ UNCHANGED got
Drop(c) == Settles(c) /\ pending[c] # Reading /\ UNCHANGED <<value, got>>
Read(c) ==
    /\ Settles(c) /\ pending[c] = Reading
    /\ got' = [got EXCEPT ![c] = value]
    /\ UNCHANGED value

Answer(c) ==
    /\ pending[c] = None
    /\ got' = [got EXCEPT ![c] = None]
    /\ UNCHANGED <<value, pending>>

\* The calls in progress are lost.
Restart == value' = Start /\ pending' = Idle /\ got' = Idle

Next == Restart \/ \E c \in Clients : Ask(c) \/ Set(c) \/ Drop(c) \/ Read(c) \/ Answer(c)

Spec == Init /\ [][Next]_vars

=============================================================================
