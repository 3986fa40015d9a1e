---------------------------- MODULE MCReconciler ----------------------------
(* Instances of Reconciler for TLC: the specs and the answers of endpoints. *)
EXTENDS ReconcilerClaims, Sequences, TLC

CONSTANTS w1, w2, d1, d2, Garbage, NaN

Provider == INSTANCE MetricsProvider
Reads(responses) == UNION {Provider!GetMetrics(r) : r \in responses}

At(percent) == Provider!Metrics(10 * percent, 0)
Failing == [status |-> 500, lines |-> <<>>]
\* The stub after a /set of more requests than an int64 holds.
Unparsable == Provider!Metrics(900, Garbage)
\* The names of a vLLM server are not those of the stub.
OtherNames == [status |-> 200, lines |-> << <<"vllm:kv_cache_usage_perc", 900>> >>]

High == Reads({At(90), Failing})
Swing == Reads({OtherNames, At(90), Unparsable})

\* More than an int32 holds, in the width of the model.
Extreme == Reads({OtherNames, At(1000), Provider!Metrics(NaN, 0)})

\* Above 100 percent: what the endpoint can say and the status cannot hold.
TooHigh == Reads({At(150)})
HighOrHung == Reads({At(90)}) \cup {Hung}

\* What GetMetrics makes of a response, over all bodies of two lines.
Field == {Provider!KVUsage, Provider!NumWaiting, "other"}
Lines == {<<name, v>> : name \in Field, v \in {290, 455, Garbage}}
             \cup {<<name>> : name \in Field}
ASSUME ReadingIsLastUsage ==
    \A one, two \in Lines :
        LET read == Provider!Parse(<<one, two>>)
            bad == \E l \in {one, two} : Len(l) = 2 /\ l[1] # "other" /\ l[2] = Garbage
        IN /\ read = {Unreachable} <=> bad
           /\ ~bad /\ two = <<Provider!KVUsage, 455>> => read = {45}
           /\ ~bad /\ one = <<Provider!KVUsage, 290>> /\ two[1] # Provider!KVUsage => read = {28}

\* The band 25..80 of the README's experiments.
Band(target, min, max) ==
    [target |-> target, high |-> 80, low |-> 25, min |-> min, max |-> max]

OneSpec == {Band(d1, 1, 3)}
TwoSpecs == {Band(d1, 1, 3), Band(d1, 2, 2)}

\* Each workload may have either Deployment as its target.
SpecPerTarget == {Band(d1, 1, 3), Band(d2, 1, 3)}

\* The operator processes run the same code.
SameOperators == Permutations(Operators)

=============================================================================
