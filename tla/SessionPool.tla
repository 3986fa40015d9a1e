---------------------------- MODULE SessionPool ----------------------------
(***************************************************************************)
(* The load generator as its user sees it: a pool that keeps a number of   *)
(* sessions going.  When a session is over its turns are reported and, in  *)
(* continuous mode, a new one takes its place, in one step.                *)
(***************************************************************************)
EXTENDS Integers

CONSTANTS Sizes, Turns

VARIABLES
    replacing,      \* whether a session that is over is replaced
    live,           \* the sessions of the pool, until it is closed
    reported        \* the turns reported, as pairs of session and turn

vars == <<replacing, live, reported>>

Init ==
    /\ replacing \in BOOLEAN
    /\ live \in {1 .. n : n \in Sizes}
    /\ reported = {}

\* The turns of a session: it may have been stopped after any of them.
Transcripts(s) == {{<<s, t>> : t \in 1 .. n} : n \in 1 .. Turns}

Report(turns) == turns \cap reported = {} /\ reported' = reported \cup turns

IsNew(s) == \A t \in live \cup {row[1] : row \in reported} : t < s

\* Session s is over.
TurnOver(s) ==
    /\ \E turns \in Transcripts(s) : Report(turns)
    /\ IF replacing THEN \E n \in live' : IsNew(n) /\ live' = (live \ {s}) \cup {n}
       ELSE live' = live \ {s}
    /\ UNCHANGED replacing

\* A prompt from outside the pool.
Inject ==
    /\ \E row \in reported' : row[1] < 0 /\ Report({row})
    /\ UNCHANGED <<replacing, live>>

\* The user or a failed request ends it; the sessions that go on do not count.
Close == live' = {} /\ UNCHANGED <<replacing, reported>>

Next == Inject \/ Close \/ \E s \in live : TurnOver(s)

\* The next process has a pool of its own.
Anew == Init'

Spec == Init /\ [][Next \/ Anew]_vars

=============================================================================
