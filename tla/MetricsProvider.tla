-------------------------- MODULE MetricsProvider --------------------------
(***************************************************************************)
(* HTTPMetricsProvider.GetMetrics: what a response of the metrics endpoint *)
(* reads as.  numRequestsWaiting is only logged; it matters here because a *)
(* value of it that is no integer makes the whole response an error.       *)
(*                                                                         *)
(* A response is an HTTP status and the lines of the body, a line the list *)
(* of its fields.  A usage is counted in thousandths: kv_cache_usage_perc  *)
(* 0.45 is 450.  A value that does not parse is Garbage.  GetMetrics is the *)
(* set of what a response may read as.                                     *)
(***************************************************************************)
EXTENDS Integers, Sequences, FiniteSets

CONSTANTS
    Half,           \* half the number of int32 values
    Unreachable,    \* GetMetrics returned an error
    Garbage,
    NaN             \* a usage that is not a number, which ParseFloat accepts

KVUsage == "vllm_kv_cache_usage_perc"
NumWaiting == "vllm_num_requests_waiting"

\* The metric's name, its value, and nothing else on the line.
MetricLines(lines, name) ==
    {i \in DOMAIN lines : Len(lines[i]) = 2 /\ lines[i][1] = name}

\* int32(v * 100): the product of floats is cut off towards zero.  It may fall
\* just short of an integer: up to 1.99 it does at the hundredths listed, and
\* above it is left open at which.  A product of v and of -v are the same but
\* for the sign.
ShortHundredths == {29, 57, 58, 113, 114, 115, 116}
Magnitudes(v) ==
    LET p == v \div 10
    IN IF v % 10 # 0 THEN {p}
       ELSE IF v >= 2000 THEN {p - 1, p}
       ELSE IF p \in ShortHundredths THEN {p - 1} ELSE {p}
Hundredths(v) == IF v >= 0 THEN Magnitudes(v) ELSE {-p : p \in Magnitudes(-v)}

\* What does not fit an int32 becomes what the processor makes of it: the
\* smallest integer (amd64), or the nearest and 0 for no number (arm64).
Converted(p) == IF p >= Half THEN {-Half, Half - 1} ELSE IF p < -Half THEN {-Half} ELSE {p}
Percent(v) == IF v = NaN THEN {-Half, 0} ELSE UNION {Converted(p) : p \in Hundredths(v)}

Last(indices) == CHOOSE i \in indices : \A j \in indices : j <= i

\* A line that does not parse is an error; of several lines the last one
\* counts; without one the usage is the zero value.
Parse(lines) ==
    LET usage == MetricLines(lines, KVUsage)
    IN IF \E i \in usage \cup MetricLines(lines, NumWaiting) : lines[i][2] = Garbage
       THEN {Unreachable}
       ELSE IF usage = {} THEN {0}
       ELSE Percent(lines[Last(usage)][2])

GetMetrics(response) ==
    IF response.status = 200 THEN Parse(response.lines) ELSE {Unreachable}

-----------------------------------------------------------------------------
(* The responses of the metrics stub.                                      *)

\* /metrics: whatever float() made of a usage ParseFloat reads, but int() lets
\* through a number of requests too large for Atoi, which is Garbage here.
Metrics(kv, requests) ==
    [status |-> 200, lines |-> << <<KVUsage, kv>>, <<NumWaiting, requests>> >>]

=============================================================================
