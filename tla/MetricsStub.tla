---------------------------- MODULE MetricsStub ----------------------------
(***************************************************************************)
(* The metrics stub, app.py: one dictionary, which the handlers of /set    *)
(* and /metrics work on without a lock, each in a thread of its own        *)
(* (app.run is threaded).  An access to one item of the dictionary is one  *)
(* step, and so is jsonify, which copies the items at once.                *)
(***************************************************************************)
EXTENDS Integers

CONSTANTS
    Clients,
    Usages,         \* what float() makes of a "kv" in a request
    Numbers,        \* what int() makes of its "requests"
    Garbage,        \* a value that float() or int() raises on
    Absent,         \* a key the request does not have
    Reading

ASSUME MetricsStubAssumption ==
    /\ 450 \in Usages /\ 0 \in Numbers /\ Usages \cup Numbers \subseteq Int
    /\ Garbage \notin Usages \cup Numbers /\ Absent \notin Usages \cup Numbers \cup {Garbage}
    /\ Reading \notin Usages \cup Numbers \cup {Absent}

VARIABLES
    state,          \* the dictionary
    call,           \* call[c]: the call of c in progress
    shown           \* what the last /set that was answered has shown, as long as
                    \* no /set has begun since

vars == <<state, call, shown>>

Hardcoded == [kv |-> 450, requests |-> 0]
NotShown == [kv |-> Absent, requests |-> Absent]

\* kv and requests are what a /set was given and what a /metrics has read;
\* settled is what was shown when a /metrics began.
NoCall == [pc |-> "idle", op |-> "metrics", kv |-> Absent, requests |-> Absent,
           settled |-> NotShown]

Init ==
    /\ state = Hardcoded
    /\ call = [c \in Clients |-> NoCall]
    /\ shown = NotShown

At(c, pc, op) == call[c].pc = pc /\ call[c].op = op
Step(c, pc) == [call EXCEPT ![c].pc = pc]

-----------------------------------------------------------------------------
(* /metrics: the body is put together item by item.                        *)

BeginMetrics(c) ==
    /\ call[c].pc = "idle"
    /\ call' = [call EXCEPT ![c] = [NoCall EXCEPT !.pc = "kv", !.settled = shown]]
    /\ UNCHANGED <<state, shown>>

ReadKv(c) ==
    /\ At(c, "kv", "metrics")
    /\ call' = [Step(c, "requests") EXCEPT ![c].kv = state.kv]
    /\ UNCHANGED <<state, shown>>

ReadRequests(c) ==
    /\ At(c, "requests", "metrics")
    /\ call' = [Step(c, "reply") EXCEPT ![c].requests = state.requests]
    /\ UNCHANGED <<state, shown>>

ReplyMetrics(c) ==
    /\ At(c, "reply", "metrics")
    /\ call' = [call EXCEPT ![c] = NoCall]
    /\ UNCHANGED <<state, shown>>

-----------------------------------------------------------------------------
(* /set: either key may be missing.                                        *)

BeginSet(c) ==
    /\ call[c].pc = "idle"
    /\ \E kv \in Usages \cup {Garbage, Absent}, requests \in Numbers \cup {Garbage, Absent} :
          call' = [d \in Clients |->
                     IF d = c THEN [NoCall EXCEPT !.pc = "kv", !.op = "set", !.kv = kv,
                                                  !.requests = requests]
                     ELSE [call[d] EXCEPT !.settled = NotShown]]
    /\ shown' = NotShown
    /\ UNCHANGED state

\* Mutant: a key that is missing stands for the value the stub starts with.
StoreKvOrDefault(c) ==
    /\ At(c, "kv", "set")
    /\ call[c].kv # Garbage
    /\ state' = [state EXCEPT !.kv = IF call[c].kv = Absent THEN Hardcoded.kv ELSE call[c].kv]
    /\ call' = Step(c, "requests")
    /\ UNCHANGED shown

StoreKv(c) ==
    /\ At(c, "kv", "set")
    /\ call[c].kv # Garbage
    /\ state' = [state EXCEPT !.kv = IF call[c].kv = Absent THEN @ ELSE call[c].kv]
    /\ call' = Step(c, "requests")
    /\ UNCHANGED shown

\* Mutant: the value is stored as it came.
StoreUnparsed(c) ==
    /\ At(c, "requests", "set")
    /\ state' = [state EXCEPT !.requests = IF call[c].requests = Absent THEN @ ELSE call[c].requests]
    /\ call' = Step(c, "reply")
    /\ UNCHANGED shown

StoreRequests(c) ==
    /\ At(c, "requests", "set")
    /\ call[c].requests # Garbage
    /\ state' = [state EXCEPT !.requests = IF call[c].requests = Absent THEN @ ELSE call[c].requests]
    /\ call' = Step(c, "reply")
    /\ UNCHANGED shown

\* float() or int() raises, and the answer is an error; what was stored stays.
BadValue(c) ==
    /\ call[c].op = "set"
    /\ \/ call[c].pc = "kv" /\ call[c].kv = Garbage
       \/ call[c].pc = "requests" /\ call[c].requests = Garbage
    /\ call' = [call EXCEPT ![c] = NoCall]
    /\ UNCHANGED <<state, shown>>

SetsInFlight == {c \in Clients : call[c].pc # "idle" /\ call[c].op = "set"}

\* Mutant: the answer repeats the request.
ReplyEcho(c) ==
    /\ At(c, "reply", "set")
    /\ shown' = IF SetsInFlight = {c} THEN [kv |-> call[c].kv, requests |-> call[c].requests]
                ELSE NotShown
    /\ call' = [call EXCEPT ![c] = NoCall]
    /\ UNCHANGED state

\* jsonify(state).  With another /set at work it says nothing about later.
ReplySet(c) ==
    /\ At(c, "reply", "set")
    /\ shown' = IF SetsInFlight = {c} THEN state ELSE NotShown
    /\ call' = [call EXCEPT ![c] = NoCall]
    /\ UNCHANGED state

\* The container starts anew: nothing is kept.
Restart == state' = Hardcoded /\ call' = [c \in Clients |-> NoCall] /\ shown' = NotShown

-----------------------------------------------------------------------------
Next ==
    \/ Restart
    \/ \E c \in Clients :
          \/ BeginMetrics(c) \/ ReadKv(c) \/ ReadRequests(c) \/ ReplyMetrics(c)
          \/ BeginSet(c) \/ StoreKv(c) \/ StoreRequests(c) \/ BadValue(c) \/ ReplySet(c)

Spec == Init /\ [][Next]_vars

-----------------------------------------------------------------------------
(* What the stub promises.                                                 *)

\* The types of the state: nothing that did not parse is ever stored or shown.
TypeOK ==
    /\ state \in [kv : Usages, requests : Numbers]
    /\ call \in [Clients -> [pc : {"idle", "kv", "requests", "reply"}, op : {"metrics", "set"},
                             kv : Usages \cup {Garbage, Absent},
                             requests : Numbers \cup {Garbage, Absent},
                             settled : [kv : Usages, requests : Numbers] \cup {NotShown}]]
    /\ shown \in [kv : Usages, requests : Numbers] \cup {NotShown}

\* Once a /set has been answered, and with no other since, every /metrics that
\* begins reads both values the answer showed: an experiment that sets a load
\* and then watches the operator watches that load.
SetThenRead ==
    \A c \in Clients :
      At(c, "reply", "metrics") /\ call[c].settled # NotShown =>
        call[c].settled = [kv |-> call[c].kv, requests |-> call[c].requests]

\* Each value is an atomic gauge, although the handlers have no lock, a /set
\* may fail between its two stores, and a /metrics may read between those of
\* another: that is how module Reconciler takes it (ChangeLoad, MetricsRead).
\* The two values together are not one.
KvGauge == INSTANCE Gauge WITH
    Values <- Usages, Start <- Hardcoded.kv, None <- Absent, value <- state.kv,
    pending <- [c \in Clients |->
                  IF call[c].pc # "kv" THEN Absent
                  ELSE IF call[c].op = "metrics" THEN Reading
                  ELSE IF call[c].kv = Garbage THEN Absent ELSE call[c].kv],
    got <- [c \in Clients |->
              IF call[c].op = "metrics" THEN call[c].kv ELSE Absent]

RequestsGauge == INSTANCE Gauge WITH
    Values <- Numbers, Start <- Hardcoded.requests, None <- Absent, value <- state.requests,
    pending <- [c \in Clients |->
                  IF call[c].pc \notin {"kv", "requests"} THEN Absent
                  ELSE IF call[c].op = "metrics" THEN Reading
                  ELSE IF call[c].requests = Garbage THEN Absent ELSE call[c].requests],
    got <- [c \in Clients |->
              IF call[c].op = "metrics" THEN call[c].requests ELSE Absent]

ImplementsGauges == KvGauge!Spec /\ RequestsGauge!Spec

=============================================================================
