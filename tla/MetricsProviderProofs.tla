----------------------- MODULE MetricsProviderProofs -----------------------
(***************************************************************************)
(* What a response reads as, for every response: the instances of the      *)
(* operator take their readings from a few.                                *)
(***************************************************************************)
EXTENDS MetricsProvider, WellFoundedInduction, TLAPS

\* The lines of a body, with values that a name of the provider may have.
Bodies ==
    {lines \in Seq(Seq(Int \cup {NaN, Garbage, KVUsage, NumWaiting, "other"})) :
        \A i \in MetricLines(lines, KVUsage) : lines[i][2] \in Int \cup {NaN, Garbage}}

\* A set of lines that is not empty has a last one.
LEMMA LastExists ==
    ASSUME NEW n \in Nat, NEW S \in SUBSET (1 .. n), S # {}
    PROVE  Last(S) \in S /\ \A j \in S : j <= Last(S)
<1> DEFINE R == {x \in Nat : \E i \in S : x = n - i}
<1>1. R \subseteq Nat /\ R # {}
  <2>1. PICK i \in S : TRUE
    OBVIOUS
  <2>2. n - i \in Nat
    BY <2>1
  <2> QED BY <2>1, <2>2
<1>2. PICK m \in R : \A k \in R : m <= k
  <2>1. PICK m \in R : \A k \in R : ~(<<k, m>> \in OpToRel(<, Nat))
    <3> HIDE DEF R
    <3> QED BY <1>1, NatLessThanWellFounded, WFMin
  <2>2. \A k \in R : <<k, m>> \in Nat \X Nat
    BY <1>1
  <2>3. \A k \in R : ~(k < m)
    BY <2>1, <2>2 DEF OpToRel
  <2> QED BY <1>1, <2>3
<1>3. PICK i \in S : m = n - i
  BY <1>2
<1>4. \A j \in S : j <= i
  <2> SUFFICES ASSUME NEW j \in S PROVE j <= i
    OBVIOUS
  <2>1. n - j \in R
    OBVIOUS
  <2>2. m <= n - j
    BY <1>2, <2>1
  <2> QED BY <1>3, <2>2
<1> QED BY <1>4 DEF Last

\* The hundredths of a usage are never above it and at most one below.
LEMMA MagnitudesAreCutOff ==
    ASSUME NEW v \in Nat
    PROVE  \A p \in Magnitudes(v) : p \in Nat /\ 10 * p <= v /\ v <= 10 * (p + 1)
<1> DEFINE q == v \div 10
<1>1. q \in Nat /\ 10 * q <= v /\ v < 10 * (q + 1) /\ (v % 10 = 0 => v = 10 * q)
  OBVIOUS
<1>2. \A p \in Magnitudes(v) : \/ p = q
                               \/ /\ p = q - 1 /\ v % 10 = 0
                                  /\ v >= 2000 \/ q \in ShortHundredths
  BY DEF Magnitudes
<1> HIDE DEF q
<1> QED BY <1>1, <1>2 DEF ShortHundredths

LEMMA HundredthsAreInts ==
    ASSUME NEW v \in Int
    PROVE  Hundredths(v) \subseteq Int
<1>1. v >= 0 => Hundredths(v) \subseteq Int
  BY MagnitudesAreCutOff DEF Hundredths
<1>2. v < 0 => Hundredths(v) \subseteq Int
  <2> SUFFICES ASSUME v < 0, NEW p \in Magnitudes(-v) PROVE -p \in Int
    BY DEF Hundredths
  <2>1. -v \in Nat
    OBVIOUS
  <2> QED BY <2>1, MagnitudesAreCutOff
<1> QED BY <1>1, <1>2

\* The reading of a number lies in an int32, whatever its size.
LEMMA PercentFits ==
    ASSUME Half \in Nat \ {0}, NEW v \in Int \cup {NaN}, NaN \notin Int
    PROVE  Percent(v) \subseteq -Half .. Half - 1
<1>1. CASE v = NaN
  BY <1>1 DEF Percent
<1>2. CASE v # NaN
  <2>1. \A p \in Int : Converted(p) \subseteq -Half .. Half - 1
    BY DEF Converted
  <2>2. Hundredths(v) \subseteq Int
    BY <1>2, HundredthsAreInts
  <2> QED BY <1>2, <2>1, <2>2 DEF Percent
<1> QED BY <1>1, <1>2

\* Whatever a server answers, the operator gets an int32 or an error: the
\* readings that module Reconciler assumes.
THEOREM ReadingsFit ==
    ASSUME Half \in Nat \ {0}, NaN \notin Int,
           NEW status, NEW lines \in Bodies
    PROVE  GetMetrics([status |-> status, lines |-> lines])
             \subseteq (-Half .. Half - 1) \cup {Unreachable}
<1> DEFINE usage == MetricLines(lines, KVUsage)
<1>1. usage \in SUBSET (1 .. Len(lines)) /\ Len(lines) \in Nat
  BY DEF Bodies, MetricLines
<1>2. ASSUME usage # {}, lines[Last(usage)][2] # Garbage
      PROVE  Percent(lines[Last(usage)][2]) \subseteq -Half .. Half - 1
  <2>1. Last(usage) \in usage
    BY <1>1, <1>2, LastExists
  <2>2. lines[Last(usage)][2] \in Int \cup {NaN}
    BY <1>2, <2>1 DEF Bodies
  <2> QED BY <2>2, PercentFits
<1>3. ASSUME usage # {}, \A i \in usage : lines[i][2] # Garbage
      PROVE  Percent(lines[Last(usage)][2]) \subseteq -Half .. Half - 1
  <2>1. Last(usage) \in usage
    BY <1>1, <1>3, LastExists
  <2> HIDE DEF usage
  <2>2. lines[Last(usage)][2] # Garbage
    BY <1>3, <2>1
  <2> QED BY <1>2, <1>3, <2>2
<1>4. 0 \in -Half .. Half - 1
  OBVIOUS
<1>5. Parse(lines) \subseteq (-Half .. Half - 1) \cup {Unreachable}
  <2>1. CASE \E i \in usage \cup MetricLines(lines, NumWaiting) : lines[i][2] = Garbage
    BY <2>1 DEF Parse
  <2>2. CASE /\ ~\E i \in usage \cup MetricLines(lines, NumWaiting) : lines[i][2] = Garbage
             /\ usage = {}
    BY <1>4, <2>2 DEF Parse
  <2>3. CASE /\ ~\E i \in usage \cup MetricLines(lines, NumWaiting) : lines[i][2] = Garbage
             /\ usage # {}
    <3>1. Parse(lines) = Percent(lines[Last(usage)][2])
      BY <2>3 DEF Parse
    <3>2. \A i \in usage : lines[i][2] # Garbage
      BY <2>3
    <3> QED BY <1>3, <2>3, <3>1, <3>2
  <2> QED BY <2>1, <2>2, <2>3
<1> QED BY <1>5 DEF GetMetrics

\* Of a body that is no error the last line of the usage counts, wherever it
\* is and whatever else the body says.
THEOREM LastLineCounts ==
    ASSUME NEW lines \in Bodies, NEW i \in MetricLines(lines, KVUsage),
           \A j \in MetricLines(lines, KVUsage) : j <= i,
           Unreachable \notin Parse(lines)
    PROVE  Parse(lines) = Percent(lines[i][2])
<1> DEFINE usage == MetricLines(lines, KVUsage)
<1>1. usage \in SUBSET Int /\ usage # {}
  BY DEF Bodies, MetricLines
<1>2. Last(usage) = i
  <2>1. Last(usage) \in usage /\ \A j \in usage : j <= Last(usage)
    BY <1>1 DEF Last
  <2> QED BY <1>1, <2>1
<1>3. Parse(lines) = {Unreachable} \/ Parse(lines) = Percent(lines[Last(usage)][2])
  BY <1>1 DEF Parse
<1> QED BY <1>2, <1>3

\* A usage between 0 and 1 reads as one percentage, which is never above it and
\* at most one below: just above a threshold it may read as not above it.
THEOREM PercentIsCutOff ==
    ASSUME Half \in Nat, Half > 100, NaN \notin Int, NEW v \in 0 .. 1000
    PROVE  \E p \in 0 .. 100 : Percent(v) = {p} /\ 10 * p <= v /\ v <= 10 * (p + 1)
<1>1. v \in Nat /\ v # NaN
  OBVIOUS
<1>2. PICK p : Hundredths(v) = {p}
  <2>1. Hundredths(v) = Magnitudes(v)
    BY <1>1 DEF Hundredths
  <2> DEFINE q == v \div 10
  <2>2. Magnitudes(v) \in {{q}, {q - 1}}
    BY DEF Magnitudes
  <2> HIDE DEF q
  <2>3. \E p : Magnitudes(v) = {p}
    BY <2>2, Zenon
  <2> QED BY <2>1, <2>3, Zenon
<1>3. p \in 0 .. 100 /\ 10 * p <= v /\ v <= 10 * (p + 1)
  <2>1. p \in Magnitudes(v)
    BY <1>1, <1>2 DEF Hundredths
  <2> QED BY <1>1, <2>1, MagnitudesAreCutOff
<1>4. Percent(v) = {p}
  <2>1. Converted(p) = {p}
    BY <1>3 DEF Converted
  <2> QED BY <1>1, <1>2, <2>1 DEF Percent
<1> QED BY <1>3, <1>4

\* A response is an error exactly when its status is not 200 or one of its lines
\* of the two metrics does not parse: a number of requests that is garbled costs
\* the usage too, which nothing but a log line is made of.
THEOREM ErrorsExactly ==
    ASSUME Half \in Nat \ {0}, NaN \notin Int, Unreachable \notin Int,
           NEW status, NEW lines \in Bodies
    PROVE  Unreachable \in GetMetrics([status |-> status, lines |-> lines]) <=>
             \/ status # 200
             \/ \E name \in {KVUsage, NumWaiting} :
                  \E i \in MetricLines(lines, name) : lines[i][2] = Garbage
<1> DEFINE usage == MetricLines(lines, KVUsage)
           garbled == \E i \in usage \cup MetricLines(lines, NumWaiting) : lines[i][2] = Garbage
<1>1. garbled <=> \E name \in {KVUsage, NumWaiting} :
                    \E i \in MetricLines(lines, name) : lines[i][2] = Garbage
  OBVIOUS
<1>2. garbled => Parse(lines) = {Unreachable}
  BY DEF Parse
<1>3. ASSUME ~garbled PROVE Unreachable \notin Parse(lines)
  <2>1. CASE usage = {}
    BY <1>3, <2>1 DEF Parse
  <2>2. CASE usage # {}
    <3>1. usage \in SUBSET (1 .. Len(lines)) /\ Len(lines) \in Nat
      BY DEF Bodies, MetricLines
    <3>2. Last(usage) \in usage
      BY <2>2, <3>1, LastExists
    <3>3. lines[Last(usage)][2] \in Int \cup {NaN}
      BY <1>3, <3>2 DEF Bodies
    <3>4. Percent(lines[Last(usage)][2]) \subseteq -Half .. Half - 1
      BY <3>3, PercentFits
    <3>5. Parse(lines) = Percent(lines[Last(usage)][2])
      BY <1>3, <2>2 DEF Parse
    <3> QED BY <3>4, <3>5
  <2> QED BY <2>1, <2>2
<1> HIDE DEF garbled, usage
<1> QED BY <1>1, <1>2, <1>3 DEF GetMetrics

\* A usage that grows never reads as a smaller percentage, also below 0 and
\* above 1, at whichever hundredths the product falls short of the integer, as
\* long as both fit an int32.
THEOREM PercentIsMonotone ==
    ASSUME Half \in Nat \ {0}, NaN \notin Int, NEW v \in Int, NEW w \in Int, v < w,
           \A p \in Hundredths(v) : -Half <= p, \A q \in Hundredths(w) : q < Half
    PROVE  \A p \in Percent(v), q \in Percent(w) : p <= q
<1>1. ASSUME NEW p \in Hundredths(v), NEW q \in Hundredths(w) PROVE p <= q
  <2>1. CASE v >= 0
    <3>1. p \in Magnitudes(v) /\ q \in Magnitudes(w) /\ v \in Nat /\ w \in Nat
      BY <1>1, <2>1 DEF Hundredths
    <3>2. p \in Nat /\ 10 * p <= v /\ q \in Nat /\ w <= 10 * (q + 1)
      BY <3>1, MagnitudesAreCutOff
    <3> QED BY <3>2
  <2>2. CASE w < 0
    <3>1. PICK x \in Magnitudes(-v) : p = -x
      BY <1>1, <2>2 DEF Hundredths
    <3>2. PICK y \in Magnitudes(-w) : q = -y
      BY <1>1, <2>2 DEF Hundredths
    <3>3. -v \in Nat /\ -w \in Nat
      BY <2>2
    <3>4. x \in Nat /\ y \in Nat /\ -v <= 10 * (x + 1) /\ 10 * y <= -w
      BY <3>3, MagnitudesAreCutOff
    <3> QED BY <3>1, <3>2, <3>4
  <2>3. CASE v < 0 /\ w >= 0
    <3>1. PICK x \in Magnitudes(-v) : p = -x
      BY <1>1, <2>3 DEF Hundredths
    <3>2. -v \in Nat /\ w \in Nat /\ q \in Magnitudes(w)
      BY <1>1, <2>3 DEF Hundredths
    <3>3. x \in Nat /\ q \in Nat
      BY <3>2, MagnitudesAreCutOff
    <3> QED BY <3>1, <3>3
  <2> QED BY <2>1, <2>2, <2>3
<1>2. /\ Hundredths(v) \subseteq Int /\ Hundredths(w) \subseteq Int
      /\ Hundredths(v) # {} /\ Hundredths(w) # {}
  <2>1. \A x : Magnitudes(x) # {}
    <3> SUFFICES ASSUME NEW x PROVE Magnitudes(x) # {}
      OBVIOUS
    <3> DEFINE q == x \div 10
    <3>1. Magnitudes(x) \in {{q}, {q - 1}, {q - 1, q}}
      BY DEF Magnitudes
    <3> HIDE DEF q
    <3> QED BY <3>1
  <2> QED BY <2>1, HundredthsAreInts DEF Hundredths
<1>3. \A x \in Hundredths(v) \cup Hundredths(w) : Converted(x) = {x}
  BY <1>1, <1>2 DEF Converted
<1>4. Percent(v) = Hundredths(v) /\ Percent(w) = Hundredths(w)
  BY <1>3 DEF Percent
<1> QED BY <1>1, <1>4

-----------------------------------------------------------------------------
(* What a usage does to the count.                                         *)

Rule == INSTANCE ScalingRule

\* The thresholds of a spec hold for the usage itself, by way of the reading and
\* the rule: the operator never scales up at or below the upper threshold and always
\* more than one percent above it; it always scales down below the lower
\* threshold and never above it.  At the lower threshold itself it may.  The
\* largest int32 is apart: there the increment wraps.
THEOREM UsageDecides ==
    ASSUME Half \in Nat, Half > 100, NaN \notin Int,
           NEW v \in 0 .. 1000, NEW kv \in Percent(v),
           NEW s, s.high \in Int, s.low \in Int, s.low <= s.high,
           s.min \in 1 .. Half - 1, s.max \in 1 .. Half - 1,
           NEW n \in s.min .. s.max, n # Half - 1
    PROVE  LET desired == Rule!ComputeDesired(n, kv, s)
           IN /\ v <= 10 * s.high => desired <= n
              /\ v > 10 * (s.high + 1) => desired = IF n < s.max THEN n + 1 ELSE n
              /\ v < 10 * s.low => desired = IF n > s.min THEN n - 1 ELSE n
              /\ v > 10 * s.low => desired >= n
<1> DEFINE desired == Rule!ComputeDesired(n, kv, s)
<1>1. kv \in 0 .. 100 /\ 10 * kv <= v /\ v <= 10 * (kv + 1)
  <2>1. PICK p \in 0 .. 100 : Percent(v) = {p} /\ 10 * p <= v /\ v <= 10 * (p + 1)
    BY PercentIsCutOff
  <2> QED BY <2>1
<1>2. n \in 1 .. Half - 2
  OBVIOUS
<1>3. CASE kv > s.high
  <2>1. desired = Rule!AtMost(Rule!Wrap(n + 1), s.max)
    BY <1>1, <1>3 DEF Rule!ComputeDesired
  <2>2. desired = IF n < s.max THEN n + 1 ELSE n
    <3>1. Rule!Wrap(n + 1) = n + 1
      BY <1>2 DEF Rule!Wrap
    <3> QED BY <1>2, <2>1, <3>1 DEF Rule!AtMost
  <2> HIDE DEF desired
  <2>3. v > 10 * s.high /\ v > 10 * s.low
    BY <1>1, <1>3
  <2> QED BY <1>2, <2>2, <2>3 DEF desired
<1>4. CASE kv <= s.high /\ kv < s.low
  <2>1. desired = Rule!AtLeast(Rule!Wrap(n - 1), s.min)
    BY <1>1, <1>4 DEF Rule!ComputeDesired
  <2>2. desired = IF n > s.min THEN n - 1 ELSE n
    BY <1>2, <2>1 DEF Rule!AtLeast, Rule!Wrap
  <2> HIDE DEF desired
  <2>3. v <= 10 * s.low /\ v <= 10 * (s.high + 1)
    BY <1>1, <1>4
  <2> QED BY <1>2, <2>2, <2>3 DEF desired
<1>5. CASE kv <= s.high /\ kv >= s.low
  <2>1. desired = n
    BY <1>1, <1>5 DEF Rule!ComputeDesired
  <2> HIDE DEF desired
  <2>2. v <= 10 * (s.high + 1) /\ v >= 10 * s.low
    BY <1>1, <1>5
  <2> QED BY <1>2, <2>1, <2>2 DEF desired
<1> QED BY <1>1, <1>3, <1>4, <1>5

=============================================================================
