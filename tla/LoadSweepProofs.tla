-------------------------- MODULE LoadSweepProofs --------------------------
(***************************************************************************)
(* Proofs about the scripts that measure in rounds, for any set of         *)
(* scripts, any responses and any schedule of the threads: what is printed *)
(* is what the server sent, and nothing is left behind at the server.      *)
(***************************************************************************)
EXTENDS LoadSweep, FiniteSetTheorems, SequenceTheorems, TLAPS

-----------------------------------------------------------------------------
(* How many of the lines that are not read yet count as a token.           *)

Lines == {"token", "empty", "done", "end", "garbled"}
Texts == {"token", "empty"}

Counted(u, counts) == {i \in 1 .. Len(u) : u[i] \in counts}
Count(u, counts) == Cardinality(Counted(u, counts))

LEMMA CountedFinite ==
  ASSUME NEW u \in Seq(Lines), NEW counts
  PROVE  IsFiniteSet(Counted(u, counts)) /\ Count(u, counts) \in Nat
<1>1. Len(u) \in Nat
  BY LenProperties
<1>2. IsFiniteSet(1 .. Len(u)) /\ Counted(u, counts) \in SUBSET (1 .. Len(u))
  BY <1>1, FS_Interval DEF Counted
<1>3. IsFiniteSet(Counted(u, counts))
  BY <1>2, FS_Subset
<1> QED BY <1>3, FS_CardinalityType DEF Count

\* A line that arrives.
LEMMA CountAppend ==
  ASSUME NEW u \in Seq(Lines), NEW counts, NEW l \in Lines
  PROVE  Count(Append(u, l), counts) = Count(u, counts) + (IF l \in counts THEN 1 ELSE 0)
<1> DEFINE C == Counted(u, counts)
           D == Counted(Append(u, l), counts)
           n == Len(u) + 1
<1>1. /\ Len(u) \in Nat /\ Len(Append(u, l)) = n /\ Append(u, l)[n] = l
      /\ \A i \in 1 .. Len(u) : Append(u, l)[i] = u[i]
  BY AppendProperties, LenProperties
<1>2. D = IF l \in counts THEN C \cup {n} ELSE C
  BY <1>1 DEF Counted
<1>3. IsFiniteSet(C) /\ n \notin C /\ Count(u, counts) \in Nat
  BY <1>1, CountedFinite DEF Counted
<1> HIDE DEF C, D, n
<1>4. Cardinality(C \cup {n}) = Cardinality(C) + 1
  BY <1>3, FS_AddElement
<1>5. Cardinality(D) = Cardinality(C) + (IF l \in counts THEN 1 ELSE 0)
  <2>1. Cardinality(C) \in Nat
    BY <1>3 DEF Count, C
  <2> QED BY <1>2, <1>4, <2>1
<1> QED BY <1>5 DEF Count, C, D

\* A line that is read.
LEMMA CountTail ==
  ASSUME NEW u \in Seq(Lines), NEW counts, u # <<>>
  PROVE  Count(u, counts) = Count(Tail(u), counts) + (IF Head(u) \in counts THEN 1 ELSE 0)
<1> DEFINE C == Counted(u, counts)
           T == Counted(Tail(u), counts)
           S == C \ {1}
           f == [i \in T |-> i + 1]
<1>1. /\ Len(u) \in Nat \ {0} /\ Tail(u) \in Seq(Lines) /\ Len(Tail(u)) = Len(u) - 1
      /\ Head(u) = u[1] /\ \A i \in 1 .. Len(Tail(u)) : Tail(u)[i] = u[i + 1]
  BY HeadTailProperties, LenProperties, EmptySeq
<1>2. \A i \in T : i \in Int /\ i + 1 \in S
  BY <1>1 DEF Counted
<1>3. \A j \in S : j \in Int /\ j - 1 \in T
  <2> SUFFICES ASSUME NEW j \in S PROVE j \in Int /\ j - 1 \in T
    OBVIOUS
  <2>1. j \in 2 .. Len(u) /\ u[j] \in counts
    BY <1>1 DEF Counted
  <2>2. j - 1 \in 1 .. Len(Tail(u)) /\ Tail(u)[j - 1] = u[j]
    BY <1>1, <2>1
  <2> QED BY <2>1, <2>2 DEF Counted
<1>4. IsFiniteSet(T) /\ IsFiniteSet(C)
  BY <1>1, CountedFinite
<1>5. 1 \in C <=> Head(u) \in counts
  BY <1>1 DEF Counted
<1>c. Cardinality(T) \in Nat /\ Cardinality(C) \in Nat
  BY <1>1, CountedFinite DEF Count
<1> HIDE DEF C, T
<1>6. f \in Bijection(T, S)
  <2>1. f \in [T -> S]
    BY <1>2
  <2>2. \A a, b \in T : f[a] = f[b] => a = b
    BY <1>2
  <2>3. \A j \in S : \E i \in T : f[i] = j
    <3> SUFFICES ASSUME NEW j \in S PROVE f[j - 1] = j
      BY <1>3
    <3> QED BY <1>3
  <2> QED BY <2>1, <2>2, <2>3 DEF Bijection, Injection, Surjection, IsInjective
<1>7. Cardinality(S) = Cardinality(T)
  BY <1>4, <1>6, FS_Bijection DEF ExistsBijection
<1>8. Cardinality(S) = IF 1 \in C THEN Cardinality(C) - 1 ELSE Cardinality(C)
  BY <1>4, FS_RemoveElement
<1>9. Cardinality(C) = Cardinality(T) + (IF Head(u) \in counts THEN 1 ELSE 0)
  BY <1>5, <1>7, <1>8, <1>c
<1> QED BY <1>9 DEF Count, C, T

-----------------------------------------------------------------------------
(* Types.                                                                  *)

Times == Never .. MaxTime
Pcs == {"pending", "reading", "silent", "done", "failed", "cancelled"}
Sents == [chunks : Nat, tokens : Nat, first : Times, last : Times]
Reqs == [pc : Pcs, t0 : Times, t_first : Times, t_done : Times, tokens : Nat,
         unread : Seq(Lines), sent : Sents]
Results == [ttft : Int, total : Int, tokens : Nat]

N == program.rounds[round]

TInv ==
    /\ program \in Programs /\ program.counts \subseteq Texts
    /\ round \in DOMAIN program.rounds /\ N \in Nat \ {0}
    /\ main \in {"collect", "unwind", "print", "sleep", "ended", "crashed"}
    /\ request \in [1 .. N -> Reqs]
    /\ results \in Seq(Results) /\ Len(results) <= N
    /\ elapsed \in Times /\ clock \in 0 .. MaxTime

-----------------------------------------------------------------------------
(* What holds of a request, with the texts its program counts, at the time *)
(* now: what has been read and what has arrived add up to what was sent.   *)

InOrder(u) == \A i, j \in 1 .. Len(u) : i < j /\ u[j] \in Texts => u[i] \in Texts
NoText(u) == \A i \in 1 .. Len(u) : u[i] \notin Texts

Sound(q, counts, now) ==
    /\ q.sent.tokens <= q.sent.chunks /\ q.sent.chunks <= MaxChunks
    /\ q.tokens + Count(q.unread, counts) = q.sent.tokens
    /\ q.t0 <= now /\ q.t_first <= now /\ q.t_done <= now
    /\ q.sent.first <= now /\ q.sent.last <= now
    /\ q.pc \in {"pending", "cancelled"} \/ q.t0 >= 0
    /\ InOrder(q.unread)
    /\ q.sent.last = Never => /\ q.t_done = Never
                              /\ \A i \in 1 .. Len(q.unread) : q.unread[i] \in Texts
    /\ q.t_first # Never => q.sent.first # Never /\ q.sent.first <= q.t_first
    /\ q.sent.first # Never /\ q.t_first = Never =>
         \E i \in 1 .. Len(q.unread) : q.unread[i] = "token"
    /\ q.sent.first = Never => \A i \in 1 .. Len(q.unread) : q.unread[i] # "token"
    /\ q.t_done # Never => /\ q.sent.last <= q.t_done /\ q.t_first <= q.t_done
                           /\ NoText(q.unread)
    /\ q.pc = "done" => q.t_done # Never

LEMMA SoundLater ==
  ASSUME NEW q \in Reqs, NEW counts, NEW now \in Int, NEW later \in Int, now <= later,
         Sound(q, counts, now)
  PROVE  Sound(q, counts, later)
BY DEF Sound, Reqs, Sents, Times, Never

LEMMA SoundFresh ==
  ASSUME NEW counts, NEW now \in 0 .. MaxTime
  PROVE  Fresh \in Reqs /\ Sound(Fresh, counts, now)
<1>1. Counted(<<>>, counts) = {}
  BY DEF Counted
<1>2. Count(<<>>, counts) = 0
  BY <1>1, FS_EmptySet DEF Count
<1>3. <<>> \in Seq(Lines) /\ Len(<<>>) = 0
  BY EmptySeq
<1>4. Fresh \in Reqs
  BY <1>3, LoadSweepAssumption DEF Fresh, Reqs, Sents, Pcs, Times, Never
<1>5. Sound(Fresh, counts, now)
  BY <1>2, <1>3, LoadSweepAssumption DEF Fresh, Sound, InOrder, NoText, Never
<1> QED BY <1>4, <1>5

\* A request x that differs from q in its pc only, and is not more done than q.
LEMMA SoundStop ==
  ASSUME NEW q \in Reqs, NEW x \in Reqs, NEW counts, NEW now \in Int, Sound(q, counts, now),
         x.t0 = q.t0, x.t_first = q.t_first, x.t_done = q.t_done, x.tokens = q.tokens,
         x.unread = q.unread, x.sent = q.sent,
         x.pc \in {"cancelled", q.pc} \/ (x.pc = "silent" /\ q.pc = "reading")
  PROVE  Sound(x, counts, now)
BY DEF Sound

LEMMA SoundStart ==
  ASSUME NEW q \in Reqs, NEW x \in Reqs, NEW counts, NEW now \in 0 .. MaxTime,
         Sound(q, counts, now), x.t0 = now, x.t_first = q.t_first, x.t_done = q.t_done,
         x.tokens = q.tokens, x.unread = q.unread, x.sent = q.sent, x.pc = "reading"
  PROVE  Sound(x, counts, now)
BY DEF Sound

\* A chunk arrives.
LEMMA SoundChunk ==
  ASSUME NEW q \in Reqs, NEW x \in Reqs, NEW counts, NEW now \in 0 .. MaxTime,
         Sound(q, counts, now), NEW l \in Texts,
         q.sent.last = Never, q.sent.chunks < MaxChunks,
         x.pc = q.pc, x.t0 = q.t0, x.t_first = q.t_first, x.t_done = q.t_done,
         x.tokens = q.tokens, x.unread = Append(q.unread, l),
         x.sent.chunks = q.sent.chunks + 1, x.sent.last = Never,
         x.sent.tokens = q.sent.tokens + (IF l \in counts THEN 1 ELSE 0),
         x.sent.first = IF l = "token" /\ q.sent.first = Never THEN now ELSE q.sent.first
  PROVE  Sound(x, counts, now)
<1> DEFINE u == q.unread
           n == Len(u) + 1
<1>1. u \in Seq(Lines) /\ l \in Lines
  BY DEF Reqs, Lines, Texts
<1>2. /\ Len(u) \in Nat /\ Len(x.unread) = n /\ x.unread[n] = l
      /\ \A i \in 1 .. Len(u) : x.unread[i] = u[i]
  BY <1>1, AppendProperties, LenProperties
<1>3. Count(x.unread, counts) = Count(u, counts) + (IF l \in counts THEN 1 ELSE 0)
  BY <1>1, CountAppend
<1>4. Count(u, counts) \in Nat
  BY <1>1, CountedFinite
<1>5. \A i \in 1 .. Len(u) : u[i] \in Texts
  BY DEF Sound
<1>6. \A i \in 1 .. n : x.unread[i] \in Texts
  BY <1>2, <1>5
<1>7. InOrder(x.unread)
  BY <1>2, <1>6 DEF InOrder
<1>8. x.sent.first # Never /\ x.t_first = Never => \E i \in 1 .. n : x.unread[i] = "token"
  <2>1. CASE l = "token"
    BY <1>2, <2>1
  <2>2. CASE l # "token"
    BY <1>2, <2>2 DEF Sound
  <2> QED BY <2>1, <2>2
<1>9. /\ x.sent.tokens <= x.sent.chunks /\ x.sent.chunks <= MaxChunks
      /\ x.tokens + Count(x.unread, counts) = x.sent.tokens
  <2>1. /\ q.sent.tokens \in Nat /\ q.sent.chunks \in Nat /\ q.tokens \in Nat /\ MaxChunks \in Nat
        /\ q.sent.tokens <= q.sent.chunks /\ q.tokens + Count(u, counts) = q.sent.tokens
    BY LoadSweepAssumption DEF Sound, Reqs, Sents
  <2> DEFINE d == IF l \in counts THEN 1 ELSE 0
  <2>2. d \in 0 .. 1 /\ x.sent.tokens = q.sent.tokens + d /\ x.sent.chunks = q.sent.chunks + 1
        /\ Count(x.unread, counts) = Count(u, counts) + d
    BY <1>3
  <2> HIDE DEF u, d
  <2>3. x.sent.tokens <= x.sent.chunks /\ x.sent.chunks <= MaxChunks
    BY <2>1, <2>2
  <2>4. x.tokens + Count(x.unread, counts) = x.sent.tokens
    BY <1>4, <2>1, <2>2
  <2> QED BY <2>3, <2>4
<1>10. x.sent.first <= now /\ x.sent.last <= now /\ x.t_done = Never
  BY DEF Sound, Never
<1>11. x.t_first # Never => x.sent.first # Never /\ x.sent.first <= x.t_first
  BY DEF Sound, Reqs, Sents, Times, Never
<1>12. x.sent.first = Never => \A i \in 1 .. n : x.unread[i] # "token"
  BY <1>2 DEF Sound, Never
<1> HIDE DEF u, n
<1> QED BY <1>2, <1>6, <1>7, <1>8, <1>9, <1>10, <1>11, <1>12 DEF Sound

\* The end of a response, or what stands for it, arrives.
LEMMA SoundEnd ==
  ASSUME NEW q \in Reqs, NEW x \in Reqs, NEW counts, counts \subseteq Texts,
         NEW now \in 0 .. MaxTime, Sound(q, counts, now), NEW l \in Lines \ Texts,
         x.pc = q.pc, x.t0 = q.t0, x.t_first = q.t_first, x.t_done = q.t_done,
         x.tokens = q.tokens, x.unread = Append(q.unread, l),
         x.sent.chunks = q.sent.chunks, x.sent.tokens = q.sent.tokens,
         x.sent.first = q.sent.first,
         x.sent.last = IF q.sent.last = Never THEN now ELSE q.sent.last
  PROVE  Sound(x, counts, now)
<1> DEFINE u == q.unread
           n == Len(u) + 1
<1>1. u \in Seq(Lines) /\ l \notin counts
  BY DEF Reqs
<1>2. /\ Len(u) \in Nat /\ Len(x.unread) = n /\ x.unread[n] = l
      /\ \A i \in 1 .. Len(u) : x.unread[i] = u[i]
  BY <1>1, AppendProperties, LenProperties
<1>3. Count(x.unread, counts) = Count(u, counts)
  BY <1>1, CountAppend, CountedFinite
<1>7. InOrder(x.unread)
  BY <1>2 DEF InOrder, Sound
<1>8. x.sent.first # Never /\ x.t_first = Never => \E i \in 1 .. n : x.unread[i] = "token"
  BY <1>2 DEF Sound
<1>9. x.t_done # Never => /\ x.sent.last <= x.t_done /\ x.t_first <= x.t_done
                          /\ NoText(x.unread)
  BY <1>2 DEF Sound, NoText
<1>10. x.sent.last # Never /\ x.sent.last <= now
  BY DEF Sound, Never
<1>11. x.sent.first = Never => \A i \in 1 .. n : x.unread[i] # "token"
  BY <1>2 DEF Sound, Texts
<1> HIDE DEF u, n
<1> QED BY <1>2, <1>3, <1>7, <1>8, <1>9, <1>10, <1>11 DEF Sound, u

\* A chunk is read.
LEMMA SoundRead ==
  ASSUME NEW q \in Reqs, NEW x \in Reqs, NEW counts, NEW now \in 0 .. MaxTime,
         Sound(q, counts, now), q.unread # <<>>, Head(q.unread) \in Texts,
         x.pc = q.pc, x.t0 = q.t0, x.t_done = q.t_done, x.unread = Tail(q.unread),
         x.sent = q.sent,
         x.tokens = q.tokens + (IF Head(q.unread) \in counts THEN 1 ELSE 0),
         x.t_first = IF Head(q.unread) = "token" /\ q.t_first = Never THEN now ELSE q.t_first
  PROVE  Sound(x, counts, now)
<1> DEFINE u == q.unread
<1>1. u \in Seq(Lines)
  BY DEF Reqs
<1>2. /\ Len(u) \in Nat \ {0} /\ Len(x.unread) = Len(u) - 1 /\ Head(u) = u[1]
      /\ \A i \in 1 .. Len(x.unread) : x.unread[i] = u[i + 1]
      /\ x.unread \in Seq(Lines)
  BY <1>1, HeadTailProperties, LenProperties, EmptySeq
<1>3. Count(u, counts) = Count(x.unread, counts) + (IF Head(u) \in counts THEN 1 ELSE 0)
  BY <1>1, CountTail
<1>4. Count(u, counts) \in Nat /\ Count(x.unread, counts) \in Nat
  BY <1>1, <1>2, CountedFinite
<1>5. x.tokens + Count(x.unread, counts) = x.sent.tokens
  BY <1>3, <1>4 DEF Sound, Reqs, Sents
<1>6. InOrder(x.unread) /\ (x.sent.last = Never => \A i \in 1 .. Len(x.unread) : x.unread[i] \in Texts)
  BY <1>2 DEF InOrder, Sound
<1>7. q.t_done = Never
  BY <1>2 DEF Sound, NoText
<1>8. x.sent.first # Never /\ x.t_first = Never =>
        \E i \in 1 .. Len(x.unread) : x.unread[i] = "token"
  <2> SUFFICES ASSUME q.sent.first # Never, q.t_first = Never, Head(u) # "token"
               PROVE  \E i \in 1 .. Len(x.unread) : x.unread[i] = "token"
    BY DEF Never
  <2>1. PICK i \in 1 .. Len(u) : u[i] = "token"
    BY DEF Sound
  <2>2. i - 1 \in 1 .. Len(x.unread) /\ x.unread[i - 1] = "token"
    BY <1>2, <2>1
  <2> QED BY <2>2
<1>9. x.t_first # Never => x.sent.first # Never /\ x.sent.first <= x.t_first
  <2>1. CASE Head(u) = "token" /\ q.t_first = Never
    <3>1. q.sent.first # Never /\ q.sent.first <= now
      BY <1>2, <2>1 DEF Sound
    <3> QED BY <2>1, <3>1
  <2>2. CASE ~(Head(u) = "token" /\ q.t_first = Never)
    BY <2>2 DEF Sound
  <2> QED BY <2>1, <2>2
<1>10. x.t_first <= now
  BY DEF Sound
<1>11. x.sent.first = Never => \A i \in 1 .. Len(x.unread) : x.unread[i] # "token"
  BY <1>2 DEF Sound
<1> HIDE DEF u
<1> QED BY <1>5, <1>6, <1>7, <1>8, <1>9, <1>10, <1>11 DEF Sound

\* What is no chunk is read: a "done", when x.t_done is now, or the end.
LEMMA SoundOver ==
  ASSUME NEW q \in Reqs, NEW x \in Reqs, NEW counts, counts \subseteq Texts,
         NEW now \in 0 .. MaxTime, Sound(q, counts, now), q.pc = "reading",
         q.unread # <<>>, Head(q.unread) \notin Texts,
         x.t0 = q.t0, x.t_first = q.t_first, x.unread = Tail(q.unread),
         x.sent = q.sent, x.tokens = q.tokens, x.t_done \in {now, q.t_done},
         x.pc = "done" => x.t_done # Never
  PROVE  Sound(x, counts, now)
<1> DEFINE u == q.unread
<1>1. u \in Seq(Lines)
  BY DEF Reqs
<1>2. /\ Len(u) \in Nat \ {0} /\ Len(x.unread) = Len(u) - 1 /\ Head(u) = u[1]
      /\ \A i \in 1 .. Len(x.unread) : x.unread[i] = u[i + 1]
      /\ x.unread \in Seq(Lines)
  BY <1>1, HeadTailProperties, LenProperties, EmptySeq
<1>3. Count(u, counts) = Count(x.unread, counts)
  <2>1. Head(u) \notin counts /\ Count(x.unread, counts) \in Nat
    BY <1>2, CountedFinite
  <2>2. Count(u, counts) = Count(x.unread, counts) + 0
    BY <1>1, <1>2, <2>1, CountTail
  <2> QED BY <2>1, <2>2
<1>4. NoText(u)
  BY <1>2 DEF Sound, InOrder, NoText
<1>5. NoText(x.unread) /\ InOrder(x.unread)
  BY <1>2, <1>4 DEF NoText, InOrder
<1>6. q.sent.last # Never /\ (q.sent.first # Never => q.t_first # Never)
  BY <1>2, <1>4 DEF Sound, NoText, Texts
<1>7. x.sent.first = Never => \A i \in 1 .. Len(x.unread) : x.unread[i] # "token"
  BY <1>5 DEF NoText, Texts
<1>8. x.t_done # Never => x.sent.last <= x.t_done /\ x.t_first <= x.t_done
  BY DEF Sound
<1>9. x.t_done <= now
  BY DEF Sound
<1> HIDE DEF u
<1> QED BY <1>3, <1>5, <1>6, <1>7, <1>8, <1>9 DEF Sound, u

-----------------------------------------------------------------------------
(* The invariant.                                                          *)

MInv ==
    /\ \A i \in 1 .. N : Sound(request[i], program.counts, clock)
    /\ \A i \in 1 .. Len(results) :
          request[i].pc = "done" /\ results[i] = Result(request[i])
    /\ main \in {"print", "sleep", "ended"} => Len(results) = N /\ elapsed = clock
    /\ main = "crashed" => \A i \in 1 .. N : request[i].pc \notin {"reading", "silent"}

LEMMA Rounds ==
  ASSUME NEW p \in Programs
  PROVE  /\ Len(p.rounds) \in Nat \ {0} /\ DOMAIN p.rounds = 1 .. Len(p.rounds)
         /\ \A n \in DOMAIN p.rounds : p.rounds[n] \in Nat \ {0}
         /\ p.counts \subseteq Texts
<1>1. p.rounds \in Seq(Nat \ {0}) /\ p.rounds # <<>> /\ p.counts \subseteq Texts
  BY LoadSweepAssumption DEF Texts
<1>2. Len(p.rounds) # 0
  BY <1>1, EmptySeq
<1> QED BY <1>1, <1>2, LenProperties

LEMMA Requested == TInv => Len(request) = N /\ DOMAIN request = 1 .. N
<1> SUFFICES ASSUME TInv PROVE Len(request) = N
  BY DEF TInv
<1> DEFINE n == N
<1>1. n \in Nat /\ request \in [1 .. n -> Reqs]
  BY DEF TInv
<1> HIDE DEF n
<1>2. request \in Seq(Reqs)
  BY <1>1, IsASeq
<1>3. Len(request) = n
  BY <1>1, <1>2, LenProperties
<1> QED BY <1>3 DEF n

LEMMA SweepInit == Init => TInv /\ MInv
<1> SUFFICES ASSUME Init PROVE TInv /\ MInv
  OBVIOUS
<1> DEFINE p == program
<1>1. p \in Programs /\ round = 1 /\ results = <<>> /\ clock = 0 /\ elapsed = Never
      /\ main = "collect" /\ request = Requests(p, 1)
  BY DEF Init
<1>2. 1 \in DOMAIN p.rounds /\ p.rounds[1] \in Nat \ {0} /\ p.counts \subseteq Texts
  BY <1>1, Rounds
<1>3. 0 \in 0 .. MaxTime /\ Never \in Times
  BY LoadSweepAssumption DEF Times, Never
<1>4. Fresh \in Reqs /\ Sound(Fresh, p.counts, 0)
  BY <1>3, SoundFresh
<1>5. N = p.rounds[1]
  BY <1>1 DEF N
<1>6. request \in [1 .. N -> Reqs] /\ \A i \in 1 .. N : request[i] = Fresh
  BY <1>1, <1>4, <1>5 DEF Requests
<1>7. results \in Seq(Results) /\ Len(results) = 0
  BY <1>1, EmptySeq
<1>8. TInv
  BY <1>1, <1>2, <1>3, <1>5, <1>6, <1>7 DEF TInv
<1>9. MInv
  BY <1>1, <1>4, <1>6, <1>7 DEF MInv
<1> QED BY <1>8, <1>9

\* One request goes on, and the main thread is elsewhere.
LEMMA OneRequest ==
  ASSUME TInv, MInv, NEW i \in 1 .. N, NEW x \in Reqs,
         Sound(x, program.counts, clock), request[i].pc # "done", main # "crashed",
         request' = [request EXCEPT ![i] = x],
         UNCHANGED <<program, main, round, results, elapsed, clock>>
  PROVE  TInv' /\ MInv'
<1>1. N' = N
  BY DEF N
<1>2. request' \in [1 .. N -> Reqs] /\ request'[i] = x
      /\ \A j \in 1 .. N \ {i} : request'[j] = request[j]
  BY DEF TInv
<1>3. TInv'
  BY <1>1, <1>2 DEF TInv
<1>4. \A j \in 1 .. N : Sound(request'[j], program.counts, clock)
  BY <1>2 DEF MInv
<1>5. \A j \in 1 .. Len(results) : j \in 1 .. N /\ j # i
  BY LenProperties DEF TInv, MInv
<1>6. \A j \in 1 .. Len(results) : request'[j].pc = "done" /\ results[j] = Result(request'[j])
  BY <1>2, <1>5 DEF MInv
<1>7. MInv'
  BY <1>1, <1>4, <1>6 DEF MInv
<1> QED BY <1>3, <1>7

LEMMA ServerStep ==
  ASSUME TInv, MInv, NEW i \in 1 .. N, Server(i)
  PROVE  TInv' /\ MInv'
<1> DEFINE q == request[i]
           c == program.counts
           s == q.sent
<1>a. q \in Reqs /\ Sound(q, c, clock) /\ c \subseteq Texts /\ request \in [1 .. N -> Reqs]
  BY DEF TInv, MInv
<1>b. clock \in 0 .. MaxTime /\ clock \in Times
  BY LoadSweepAssumption DEF TInv, Times, Never
<1>1. /\ q \in Reqs /\ Sound(q, c, clock) /\ c \subseteq Texts /\ clock \in 0 .. MaxTime
      /\ clock \in Times /\ s \in Sents /\ request \in [1 .. N -> Reqs]
  BY <1>a, <1>b DEF Reqs
<1>2. q.pc = "reading" /\ main # "crashed"
  BY DEF Server, SendChunk, SendDone, SendEnd, FallSilent, Arrives, MInv
<1>3. ASSUME NEW line \in Lines, NEW t \in Sents, Arrives(i, line, t),
             Sound([q EXCEPT !.unread = Append(@, line), !.sent = t], c, clock)
      PROVE  TInv' /\ MInv'
  <2> DEFINE x == [q EXCEPT !.unread = Append(@, line), !.sent = t]
  <2>1. request' = [request EXCEPT ![i] = x]
    BY <1>1, <1>3 DEF Arrives
  <2>2. x \in Reqs
    BY <1>1, AppendProperties DEF Reqs
  <2> HIDE DEF x
  <2> QED BY <1>2, <1>3, <2>1, <2>2, OneRequest DEF Arrives, x
<1>4. ASSUME NEW line \in Texts, SendChunk(i, line) PROVE TInv' /\ MInv'
  <2> DEFINE t == [s EXCEPT !.chunks = @ + 1,
                            !.tokens = IF line \in c THEN @ + 1 ELSE @,
                            !.first = IF line = "token" /\ @ = Never THEN clock ELSE @]
             x == [q EXCEPT !.unread = Append(@, line), !.sent = t]
  <2>1. Arrives(i, line, t) /\ s.last = Never /\ s.chunks < MaxChunks /\ line \in Lines
    BY <1>4 DEF SendChunk, Lines, Texts
  <2>a. s = [chunks |-> s.chunks, tokens |-> s.tokens, first |-> s.first, last |-> s.last]
    BY <1>1 DEF Sents
  <2>b. s.chunks \in Nat /\ s.tokens \in Nat /\ s.first \in Times /\ s.last \in Times
    BY <1>1 DEF Sents
  <2> DEFINE sum == s.tokens + (IF line \in c THEN 1 ELSE 0)
             first == IF line = "token" /\ s.first = Never THEN clock ELSE s.first
  <2>c. sum \in Nat /\ first \in Times
    BY <1>1, <2>b
  <2>d. (IF line \in c THEN s.tokens + 1 ELSE s.tokens) = sum
    BY <2>b
  <2>2. t = [chunks |-> s.chunks + 1, tokens |-> sum, first |-> first, last |-> s.last]
    <3> DEFINE then == IF line \in c THEN s.tokens + 1 ELSE s.tokens
    <3>1. t = [s EXCEPT !.chunks = s.chunks + 1, !.tokens = then, !.first = first]
      OBVIOUS
    <3>2. then = sum
      BY <2>d
    <3> HIDE DEF then, first, sum, t
    <3>3. t = [[[s EXCEPT !.chunks = s.chunks + 1] EXCEPT !.tokens = then] EXCEPT !.first = first]
      BY <3>1
    <3> QED BY <2>a, <3>2, <3>3
  <2> HIDE DEF sum, first, t
  <2>3. t \in Sents
    BY <2>2, <2>b, <2>c DEF Sents
  <2>4. x \in Reqs
    BY <1>1, <2>1, <2>3, AppendProperties DEF Reqs
  <2>5. /\ x.pc = q.pc /\ x.t0 = q.t0 /\ x.t_first = q.t_first /\ x.t_done = q.t_done
        /\ x.tokens = q.tokens /\ x.unread = Append(q.unread, line) /\ x.sent = t
    BY <1>1 DEF Reqs
  <2>6. /\ t.chunks = s.chunks + 1 /\ t.last = Never
        /\ t.tokens = s.tokens + (IF line \in c THEN 1 ELSE 0)
        /\ t.first = IF line = "token" /\ s.first = Never THEN clock ELSE s.first
    BY <2>1, <2>2 DEF sum, first
  <2> HIDE DEF x
  <2>7. Sound(x, c, clock)
    BY <1>1, <2>1, <2>4, <2>5, <2>6, SoundChunk
  <2> QED BY <1>3, <2>1, <2>3, <2>7 DEF x
<1>5. ASSUME NEW line \in Lines \ Texts, NEW t \in Sents, Arrives(i, line, t),
             t.chunks = s.chunks, t.tokens = s.tokens, t.first = s.first,
             t.last = IF s.last = Never THEN clock ELSE s.last
      PROVE  TInv' /\ MInv'
  <2> DEFINE x == [q EXCEPT !.unread = Append(@, line), !.sent = t]
  <2>1. x \in Reqs
    BY <1>1, AppendProperties DEF Reqs
  <2>2. /\ x.pc = q.pc /\ x.t0 = q.t0 /\ x.t_first = q.t_first /\ x.t_done = q.t_done
        /\ x.tokens = q.tokens /\ x.unread = Append(q.unread, line) /\ x.sent = t
    BY <1>1 DEF Reqs
  <2> HIDE DEF x
  <2>3. Sound(x, c, clock)
    BY <1>1, <1>5, <2>1, <2>2, SoundEnd
  <2> QED BY <1>3, <1>5, <2>3 DEF x
<1>6. CASE SendDone(i)
  <2> DEFINE t == [s EXCEPT !.last = clock]
  <2>1. t \in Sents /\ t.chunks = s.chunks /\ t.tokens = s.tokens /\ t.first = s.first
        /\ t.last = clock
    BY <1>1 DEF Sents
  <2>2. Arrives(i, "done", t) /\ s.last = Never /\ "done" \in Lines \ Texts
    BY <1>6 DEF SendDone, Lines, Texts
  <2> HIDE DEF t
  <2> QED BY <1>5, <2>1, <2>2
<1>7. ASSUME NEW line \in {"end", "garbled"}, SendEnd(i, line) PROVE TInv' /\ MInv'
  <2> DEFINE t == [s EXCEPT !.last = IF @ = Never THEN clock ELSE @]
  <2>1. /\ t \in Sents /\ t.chunks = s.chunks /\ t.tokens = s.tokens /\ t.first = s.first
        /\ t.last = IF s.last = Never THEN clock ELSE s.last
    BY <1>1 DEF Sents
  <2>2. Arrives(i, line, t) /\ line \in Lines \ Texts
    BY <1>7 DEF SendEnd, Lines, Texts
  <2> HIDE DEF t
  <2> QED BY <1>5, <2>1, <2>2
<1>8. CASE FallSilent(i)
  <2> DEFINE x == [q EXCEPT !.pc = "silent"]
  <2>1. x \in Reqs
    BY <1>1 DEF Reqs, Pcs
  <2>2. Sound(x, c, clock)
    BY <1>1, <1>2, <2>1, SoundStop DEF Reqs
  <2>3. request' = [request EXCEPT ![i] = x]
    BY <1>1, <1>8 DEF FallSilent
  <2> HIDE DEF x
  <2> QED BY <1>2, <1>8, <2>1, <2>2, <2>3, OneRequest DEF FallSilent
<1>9. {"token", "empty"} = Texts
  BY DEF Texts
<1> HIDE DEF q, c, s
<1> QED BY <1>4, <1>6, <1>7, <1>8, <1>9 DEF Server

LEMMA ReaderStep ==
  ASSUME TInv, MInv, NEW i \in 1 .. N, Request(i)
  PROVE  TInv' /\ MInv'
<1> DEFINE q == request[i]
           c == program.counts
           u == q.unread
<1>a. q \in Reqs /\ Sound(q, c, clock) /\ c \subseteq Texts /\ request \in [1 .. N -> Reqs]
  BY DEF TInv, MInv
<1>b. clock \in 0 .. MaxTime /\ clock \in Times
  BY LoadSweepAssumption DEF TInv, Times, Never
<1>1. q.pc \in {"pending", "reading"} /\ main # "crashed"
  BY DEF Request, StartRequest, ReadChunk, ReadDone, ReadEnd, Raise, Reads, MInv, Exited
<1>2. ASSUME NEW x \in Reqs, Reader(i, x), Sound(x, c, clock) PROVE TInv' /\ MInv'
  BY <1>1, <1>2, OneRequest DEF Reader
<1>3. ASSUME u # <<>> PROVE Tail(u) \in Seq(Lines)
  BY <1>a, <1>3, HeadTailProperties DEF Reqs
<1>4. CASE StartRequest(i)
  <2> DEFINE x == [q EXCEPT !.pc = "reading", !.t0 = clock]
  <2>1. x \in Reqs
    BY <1>a, <1>b DEF Reqs, Pcs
  <2>2. /\ x.pc = "reading" /\ x.t0 = clock /\ x.t_first = q.t_first /\ x.t_done = q.t_done
        /\ x.tokens = q.tokens /\ x.unread = u /\ x.sent = q.sent
    BY <1>a DEF Reqs
  <2>3. Reader(i, x)
    BY <1>4 DEF StartRequest
  <2> HIDE DEF x
  <2>4. Sound(x, c, clock)
    BY <1>a, <1>b, <2>1, <2>2, SoundStart
  <2> QED BY <1>2, <2>1, <2>3, <2>4
<1>5. CASE ReadChunk(i)
  <2> DEFINE line == Head(u)
             first == IF line = "token" /\ q.t_first = Never THEN clock ELSE q.t_first
             sum == q.tokens + (IF line \in c THEN 1 ELSE 0)
             x == [[[q EXCEPT !.unread = Tail(u)] EXCEPT !.t_first = first] EXCEPT !.tokens = sum]
  <2>1. u # <<>> /\ line \in Texts
    BY <1>5 DEF ReadChunk, Reads, Texts
  <2>2. sum = (IF line \in c THEN q.tokens + 1 ELSE q.tokens) /\ sum \in Nat /\ first \in Times
    BY <1>a, <1>b DEF Reqs
  <2>3. Reader(i, x)
    <3> DEFINE then == IF line \in c THEN q.tokens + 1 ELSE q.tokens
    <3>1. Reader(i, [[q EXCEPT !.unread = Tail(u)] EXCEPT !.t_first = first, !.tokens = then])
      BY <1>5, <1>a DEF ReadChunk, Rest, Reqs
    <3>2. then = sum
      BY <2>2
    <3> HIDE DEF then, sum, first, line
    <3> QED BY <3>1, <3>2
  <2>4. /\ x.pc = q.pc /\ x.t0 = q.t0 /\ x.t_first = first /\ x.t_done = q.t_done
        /\ x.tokens = sum /\ x.unread = Tail(u) /\ x.sent = q.sent
    <3> HIDE DEF sum, first, u
    <3> QED BY <1>a DEF Reqs
  <2>5. x \in Reqs
    <3> HIDE DEF sum, first
    <3> QED BY <1>a, <1>3, <2>1, <2>2 DEF Reqs
  <2> HIDE DEF x
  <2>6. Sound(x, c, clock)
    BY <1>a, <1>b, <2>1, <2>4, <2>5, SoundRead
  <2> QED BY <1>2, <2>3, <2>5, <2>6
<1>6. ASSUME NEW x \in Reqs, Reader(i, x), q.pc = "reading", u # <<>>, Head(u) \notin Texts,
             x.t0 = q.t0, x.t_first = q.t_first, x.unread = Tail(u), x.sent = q.sent,
             x.tokens = q.tokens, x.t_done \in {clock, q.t_done},
             x.pc = "done" => x.t_done # Never
      PROVE  TInv' /\ MInv'
  <2>1. Sound(x, c, clock)
    BY <1>a, <1>b, <1>6, SoundOver
  <2> QED BY <1>2, <1>6, <2>1
<1>7. CASE ReadDone(i)
  <2> DEFINE pc == IF program.format = "sse" THEN "done" ELSE q.pc
             x == [[[q EXCEPT !.unread = Tail(u)] EXCEPT !.t_done = clock] EXCEPT !.pc = pc]
  <2>1. u # <<>> /\ Head(u) \notin Texts /\ q.pc = "reading"
    BY <1>7 DEF ReadDone, Reads, Texts
  <2>2. Reader(i, x)
    BY <1>7, <1>a DEF ReadDone, Rest, Reqs
  <2>3. pc \in Pcs /\ clock # Never
    BY <1>b, <2>1 DEF Pcs, Never
  <2> HIDE DEF pc
  <2>4. /\ x.pc = pc /\ x.t0 = q.t0 /\ x.t_first = q.t_first /\ x.t_done = clock
        /\ x.tokens = q.tokens /\ x.unread = Tail(u) /\ x.sent = q.sent
    BY <1>a DEF Reqs
  <2>5. x \in Reqs
    BY <1>a, <1>b, <1>3, <2>1, <2>3 DEF Reqs
  <2> HIDE DEF x
  <2> QED BY <1>6, <2>1, <2>2, <2>3, <2>4, <2>5
<1>8. CASE ReadEnd(i)
  <2>1. u # <<>> /\ Head(u) \notin Texts /\ q.pc = "reading"
    BY <1>8 DEF ReadEnd, Reads, Texts
  <2>2. CASE program.format = "sse"
    <3> DEFINE x == [[[q EXCEPT !.unread = Tail(u)] EXCEPT !.t_done = clock] EXCEPT !.pc = "done"]
    <3>1. Reader(i, x)
      BY <1>8, <1>a, <2>2 DEF ReadEnd, Rest, Reqs
    <3>2. /\ x.pc = "done" /\ x.t0 = q.t0 /\ x.t_first = q.t_first /\ x.t_done = clock
          /\ x.tokens = q.tokens /\ x.unread = Tail(u) /\ x.sent = q.sent
      BY <1>a DEF Reqs
    <3>3. x \in Reqs
      BY <1>a, <1>b, <1>3, <2>1 DEF Reqs, Pcs
    <3>4. clock # Never
      BY <1>b DEF Never
    <3> HIDE DEF x
    <3> QED BY <1>6, <2>1, <3>1, <3>2, <3>3, <3>4
  <2>3. CASE program.format # "sse"
    <3> DEFINE pc == IF q.t_done = Never THEN "failed" ELSE "done"
               x == [[q EXCEPT !.unread = Tail(u)] EXCEPT !.pc = pc]
    <3>1. Reader(i, x)
      BY <1>8, <1>a, <2>3 DEF ReadEnd, Rest, Reqs
    <3>2. /\ x.pc = pc /\ x.t0 = q.t0 /\ x.t_first = q.t_first /\ x.t_done = q.t_done
          /\ x.tokens = q.tokens /\ x.unread = Tail(u) /\ x.sent = q.sent
      BY <1>a DEF Reqs
    <3>3. x \in Reqs
      BY <1>a, <1>3, <2>1 DEF Reqs, Pcs
    <3>4. x.pc = "done" => x.t_done # Never
      BY <3>2
    <3> HIDE DEF x
    <3> QED BY <1>6, <2>1, <3>1, <3>2, <3>3, <3>4
  <2> QED BY <2>2, <2>3
<1>9. CASE Raise(i)
  <2> DEFINE x == [[q EXCEPT !.unread = Tail(u)] EXCEPT !.pc = "failed"]
  <2>1. u # <<>> /\ Head(u) \notin Texts /\ q.pc = "reading"
    BY <1>9 DEF Raise, Reads, Texts
  <2>2. Reader(i, x)
    BY <1>9, <1>a DEF Raise, Rest, Reqs
  <2>3. /\ x.pc = "failed" /\ x.t0 = q.t0 /\ x.t_first = q.t_first /\ x.t_done = q.t_done
        /\ x.tokens = q.tokens /\ x.unread = Tail(u) /\ x.sent = q.sent
    BY <1>a DEF Reqs
  <2>4. x \in Reqs
    BY <1>a, <1>3, <2>1 DEF Reqs, Pcs
  <2> HIDE DEF x
  <2> QED BY <1>6, <2>1, <2>2, <2>3, <2>4
<1> QED BY <1>4, <1>5, <1>7, <1>8, <1>9 DEF Request

\* A round begins.
LEMMA BeginStep ==
  ASSUME TInv, NEW n \in DOMAIN program.rounds, Begin(n)
  PROVE  TInv' /\ MInv'
<1> DEFINE p == program
<1>1. /\ p \in Programs /\ p' = p /\ round' = n /\ results' = <<>> /\ elapsed' = Never
      /\ main' = "collect" /\ clock' = 0 /\ request' = Requests(p, n)
  BY DEF Begin, TInv
<1>2. p.rounds[n] \in Nat \ {0} /\ p.counts \subseteq Texts
  BY <1>1, Rounds
<1>3. 0 \in 0 .. MaxTime /\ Never \in Times
  BY LoadSweepAssumption DEF Times, Never
<1>4. Fresh \in Reqs /\ Sound(Fresh, p.counts, 0)
  BY <1>3, SoundFresh
<1>5. N' = p.rounds[n]
  BY <1>1 DEF N
<1>6. request' \in [1 .. N' -> Reqs] /\ \A i \in 1 .. N' : request'[i] = Fresh
  BY <1>1, <1>4, <1>5 DEF Requests
<1>7. results' \in Seq(Results) /\ Len(results') = 0
  BY <1>1, EmptySeq
<1>8. TInv'
  BY <1>1, <1>2, <1>3, <1>5, <1>6, <1>7 DEF TInv
<1>9. MInv'
  BY <1>1, <1>4, <1>6, <1>7 DEF MInv
<1> QED BY <1>8, <1>9

\* The with statement is left by an exception.
LEMMA AbandonStep ==
  ASSUME TInv, MInv, Abandon
  PROVE  TInv' /\ MInv'
<1>1. /\ main' = "unwind"
      /\ UNCHANGED <<program, round, results, elapsed, clock>> /\ N' = N
  BY DEF Abandon, N
<1>2. \A i \in 1 .. N : \/ request'[i] = request[i]
                        \/ /\ request'[i] = [request[i] EXCEPT !.pc = "cancelled"]
                           /\ request[i].pc # "done"
  BY Requested DEF Abandon, InFlight
<1>3. DOMAIN request' = 1 .. N
  BY Requested DEF Abandon
<1>4. ASSUME NEW i \in 1 .. N
      PROVE  /\ request'[i] \in Reqs
             /\ Sound(request'[i], program.counts, clock)
             /\ request[i].pc = "done" => request'[i] = request[i]
  <2> DEFINE q == request[i]
             x == [q EXCEPT !.pc = "cancelled"]
  <2>1. q \in Reqs /\ Sound(q, program.counts, clock) /\ clock \in Int
    BY LoadSweepAssumption DEF TInv, MInv
  <2>2. x \in Reqs
    BY <2>1 DEF Reqs, Pcs
  <2>3. Sound(x, program.counts, clock)
    BY <2>1, <2>2, SoundStop DEF Reqs
  <2> QED BY <1>2, <2>1, <2>2, <2>3
<1>5. request' \in [1 .. N -> Reqs]
  <2>1. request' = [i \in 1 .. N |-> request'[i]]
    BY <1>3, Requested DEF Abandon
  <2> QED BY <1>4, <2>1
<1>6. TInv'
  BY <1>1, <1>5 DEF TInv
<1>7. \A j \in 1 .. Len(results) : j \in 1 .. N
  BY LenProperties DEF TInv
<1>8. \A j \in 1 .. Len(results) : request'[j].pc = "done" /\ results[j] = Result(request'[j])
  BY <1>4, <1>7 DEF MInv
<1>9. MInv'
  BY <1>1, <1>4, <1>8 DEF MInv
<1> QED BY <1>6, <1>9

LEMMA TimesAreIntegers == \A t \in Times : t \in Int
BY LoadSweepAssumption DEF Times, Never

LEMMA MainStep ==
  ASSUME TInv, MInv, Main \/ Tick
  PROVE  TInv' /\ MInv'
<1>r. Len(request) = N /\ DOMAIN request = 1 .. N /\ Len(results) \in Nat /\ N \in Nat \ {0}
  BY Requested, LenProperties DEF TInv
<1>n. UNCHANGED <<program, round>> => N' = N
  BY DEF N
<1>1. CASE Collect
  <2> DEFINE i == Len(results) + 1
             r == Result(request[i])
  <2>1. i \in 1 .. N /\ request[i].pc = "done" /\ results' = Append(results, r)
        /\ main = "collect" /\ UNCHANGED <<program, main, round, request, elapsed, clock>>
    BY <1>1, <1>r DEF Collect
  <2>2. r \in Results
    <3> DEFINE q == request[i]
    <3>1. q \in Reqs /\ Never \in Int
      BY <2>1 DEF TInv, Never
    <3>2. /\ q.t0 \in Int /\ q.t_first \in Int /\ q.t_done \in Int /\ q.tokens \in Nat
          /\ r = [ttft |-> (IF q.t_first = Never THEN q.t_done ELSE q.t_first) - q.t0,
                   total |-> q.t_done - q.t0, tokens |-> q.tokens]
      BY <3>1, TimesAreIntegers DEF Reqs, Result
    <3> HIDE DEF q, r
    <3> QED BY <3>2 DEF Results
  <2>3. /\ results' \in Seq(Results) /\ Len(results') = i
        /\ \A j \in 1 .. Len(results) : results'[j] = results[j]
        /\ results'[i] = r
    BY <2>1, <2>2, AppendProperties DEF TInv
  <2> HIDE DEF r
  <2>4. TInv'
    BY <1>n, <2>1, <2>3 DEF TInv
  <2>5. \A j \in 1 .. Len(results') : request[j].pc = "done" /\ results'[j] = Result(request[j])
    BY <1>r, <2>1, <2>3 DEF MInv, r
  <2>6. MInv'
    BY <1>n, <2>1, <2>5 DEF MInv, Result
  <2> QED BY <2>4, <2>6
<1>2. CASE CollectRaises
  BY <1>2, AbandonStep DEF CollectRaises
<1>3. CASE Crash
  BY <1>3, <1>n, <1>r DEF Crash, InFlight, TInv, MInv, Result
<1>4. CASE RoundOver
  <2>1. clock \in Times
    BY LoadSweepAssumption DEF TInv, Times, Never
  <2> QED BY <1>4, <1>n, <1>r, <2>1 DEF RoundOver, TInv, MInv, Result
<1>5. CASE NextRound
  <2>1. round + 1 \in DOMAIN program.rounds
    BY <1>5, Rounds DEF NextRound, LastRound, TInv
  <2> QED BY <1>5, <2>1, BeginStep DEF NextRound
<1>6. CASE AfterLast
  BY <1>6, <1>n DEF AfterLast, TInv, MInv, Result
<1>7. CASE StartOver
  <2>1. 1 \in DOMAIN program.rounds
    BY Rounds DEF TInv
  <2> QED BY <1>7, <2>1, BeginStep DEF StartOver
<1>8. CASE Tick
  <2>1. /\ clock' = clock + 1 /\ clock < MaxTime /\ clock \in 0 .. MaxTime /\ MaxTime \in Nat
        /\ main = "collect" /\ UNCHANGED <<program, main, round, request, results, elapsed>>
    BY <1>8, LoadSweepAssumption DEF Tick, TInv
  <2>2. clock' \in 0 .. MaxTime
    BY <2>1
  <2>3. \A i \in 1 .. N : Sound(request[i], program.counts, clock + 1)
    BY <2>1, SoundLater DEF TInv, MInv
  <2>4. TInv'
    BY <1>n, <2>1, <2>2 DEF TInv
  <2>5. MInv'
    BY <1>n, <2>1, <2>3 DEF MInv, Result
  <2> QED BY <2>4, <2>5
<1> QED BY <1>1, <1>2, <1>3, <1>4, <1>5, <1>6, <1>7, <1>8 DEF Main

THEOREM SweepInductive == Spec => [](TInv /\ MInv)
<1>1. TInv /\ MInv /\ [Next]_vars => (TInv /\ MInv)'
  <2> SUFFICES ASSUME TInv, MInv, [Next]_vars PROVE TInv' /\ MInv'
    OBVIOUS
  <2>1. CASE UNCHANGED vars
    BY <2>1 DEF vars, TInv, MInv, N, Result
  <2>2. CASE Interrupt
    BY <2>2, AbandonStep DEF Interrupt
  <2>3. CASE \E i \in DOMAIN request : Server(i) \/ Request(i)
    BY <2>3, Requested, ServerStep, ReaderStep
  <2> QED BY <2>1, <2>2, <2>3, MainStep DEF Next
<1> QED BY <1>1, SweepInit, PTL DEF Spec

-----------------------------------------------------------------------------
(* What the scripts promise.                                               *)

\* The state keeps its types, whatever the server sends and when it is read.
THEOREM SweepTypes == Spec => []TypeOK
<1>1. TInv /\ MInv => TypeOK
  <2> SUFFICES ASSUME TInv, MInv PROVE TypeOK
    OBVIOUS
  <2>1. Len(request) = program.rounds[round] /\ DOMAIN request = 1 .. N
    BY Requested DEF N
  <2>2. ASSUME NEW i \in 1 .. N PROVE request[i].pc \in Pcs /\ request[i].tokens \in 0 .. MaxChunks
    <3> DEFINE q == request[i]
               m == Count(q.unread, program.counts)
    <3>1. q \in Reqs /\ Sound(q, program.counts, clock)
      BY DEF TInv, MInv
    <3>2. m \in Nat /\ q.tokens \in Nat /\ q.sent.tokens \in Nat /\ q.sent.chunks \in Nat
          /\ MaxChunks \in Nat
      BY <3>1, CountedFinite, LoadSweepAssumption DEF Reqs, Sents
    <3>3. q.tokens + m = q.sent.tokens /\ q.sent.tokens <= q.sent.chunks
          /\ q.sent.chunks <= MaxChunks
      BY <3>1 DEF Sound
    <3> HIDE DEF m
    <3>4. q.tokens \in 0 .. MaxChunks
      BY <3>2, <3>3
    <3> QED BY <3>1, <3>4 DEF Reqs
  <2> QED BY <2>1, <2>2 DEF TInv, TypeOK, Pcs, Times, Exited, N
<1> QED BY <1>1, SweepInductive, PTL

\* What is printed of a round is true: tokens, order, and the bounds on the times.
THEOREM ReportIsTrue == Spec => []TrueReport
<1>1. TInv /\ MInv => TrueReport
  <2> SUFFICES ASSUME TInv, MInv, main = "print" PROVE TrueReport
    BY DEF TrueReport
  <2>1. Len(request) = N /\ DOMAIN request = 1 .. N /\ Len(results) = N /\ elapsed = clock
    BY Requested DEF MInv
  <2>2. ASSUME NEW i \in 1 .. N
        PROVE  LET r == results[i]
                   q == request[i]
                   first == IF q.sent.first = Never THEN q.sent.last ELSE q.sent.first
               IN /\ r.tokens = q.sent.tokens
                  /\ first - q.t0 <= r.ttft /\ r.ttft <= r.total
                  /\ q.sent.last - q.t0 <= r.total /\ r.total <= elapsed
    <3> DEFINE q == request[i]
               r == results[i]
               s == q.sent
    <3>1. /\ q \in Reqs /\ Sound(q, program.counts, clock) /\ q.pc = "done" /\ r = Result(q)
          /\ program.counts \subseteq Texts /\ clock \in Int
      BY <2>1, LoadSweepAssumption DEF TInv, MInv
    <3>2. /\ q.t0 \in Int /\ q.t_first \in Int /\ q.t_done \in Int /\ s.first \in Int
          /\ s.last \in Int /\ q.tokens \in Nat /\ s.tokens \in Nat
      BY <3>1, TimesAreIntegers DEF Reqs, Sents
    <3>3. /\ r.ttft = (IF q.t_first = Never THEN q.t_done ELSE q.t_first) - q.t0
          /\ r.total = q.t_done - q.t0 /\ r.tokens = q.tokens
      BY <3>1 DEF Result
    <3>4. /\ q.t_done # Never /\ NoText(q.unread)
          /\ q.t_done <= clock /\ s.last <= q.t_done /\ q.t_first <= q.t_done /\ q.t0 >= 0
      BY <3>1 DEF Sound
    <3>5. Count(q.unread, program.counts) = 0
      <4>1. Counted(q.unread, program.counts) = {}
        BY <3>1, <3>4 DEF Counted, NoText
      <4> QED BY <4>1, FS_EmptySet DEF Count
    <3>6. q.tokens = s.tokens
      BY <3>1, <3>2, <3>5 DEF Sound
    <3>7. /\ q.t_first # Never => s.first # Never /\ s.first <= q.t_first
          /\ s.first # Never => q.t_first # Never
      BY <3>1, <3>4 DEF Sound, NoText, Texts
    <3> HIDE DEF q, r, s
    <3>8. /\ r.tokens = s.tokens
          /\ (IF s.first = Never THEN s.last ELSE s.first) - q.t0 <= r.ttft /\ r.ttft <= r.total
          /\ s.last - q.t0 <= r.total /\ r.total <= elapsed
      BY <2>1, <3>1, <3>2, <3>3, <3>4, <3>6, <3>7
    <3> QED BY <3>8 DEF q, r, s
  <2> QED BY <2>1, <2>2 DEF TrueReport
<1> QED BY <1>1, SweepInductive, PTL

\* Between rounds and after the program no request of it is at work.
THEOREM QuietInBetween == Spec => []QuietBetween
<1>1. TInv /\ MInv => QuietBetween
  <2> SUFFICES ASSUME TInv, MInv, main \notin {"collect", "unwind"}, NEW i \in DOMAIN request
               PROVE  request[i].pc \notin {"reading", "silent"}
    BY DEF QuietBetween, InFlight
  <2>1. i \in 1 .. N
    BY Requested
  <2> QED BY <2>1 DEF TInv, MInv
<1> QED BY <1>1, SweepInductive, PTL

\* A request that has begun goes on, and is not begun again.
LEMMA GoesOn ==
  ASSUME TInv, NEW i \in 1 .. N, Server(i) \/ Request(i), request[i].pc # "pending"
  PROVE  /\ UNCHANGED <<program, main, round>> /\ DOMAIN request' = 1 .. N
         /\ \A j \in 1 .. N : /\ request'[j].t0 = request[j].t0
                              /\ request[j].pc # "pending" => request'[j].pc # "pending"
<1> DEFINE q == request[i]
<1>1. q \in Reqs /\ request \in [1 .. N -> Reqs]
  BY DEF TInv
<1>2. ASSUME NEW x, request' = [request EXCEPT ![i] = x], x.t0 = q.t0, x.pc # "pending",
             UNCHANGED <<program, main, round>>
      PROVE  /\ UNCHANGED <<program, main, round>> /\ DOMAIN request' = 1 .. N
             /\ \A j \in 1 .. N : /\ request'[j].t0 = request[j].t0
                                  /\ request[j].pc # "pending" => request'[j].pc # "pending"
  BY <1>1, <1>2
<1>3. ASSUME NEW line, NEW sent, Arrives(i, line, sent)
      PROVE  /\ request' = [request EXCEPT ![i] = [q EXCEPT !.unread = Append(@, line), !.sent = sent]]
             /\ UNCHANGED <<program, main, round>>
  BY <1>1, <1>3 DEF Arrives
<1>4. ASSUME NEW line, NEW sent
      PROVE  LET x == [q EXCEPT !.unread = Append(@, line), !.sent = sent]
             IN x.t0 = q.t0 /\ x.pc = q.pc
  BY <1>1 DEF Reqs
<1>5. CASE Server(i)
  <2>1. CASE FallSilent(i)
    <3> DEFINE x == [q EXCEPT !.pc = "silent"]
    <3>1. request' = [request EXCEPT ![i] = x] /\ UNCHANGED <<program, main, round>>
      BY <1>1, <2>1 DEF FallSilent
    <3>2. x.t0 = q.t0 /\ x.pc = "silent"
      BY <1>1 DEF Reqs
    <3> QED BY <1>2, <3>1, <3>2
  <2>2. CASE ~FallSilent(i)
    <3>1. PICK line, sent : Arrives(i, line, sent)
      <4>1. ASSUME NEW line, SendChunk(i, line) PROVE \E l, t : Arrives(i, l, t)
        BY <4>1 DEF SendChunk
      <4>2. CASE SendDone(i)
        BY <4>2 DEF SendDone
      <4>3. ASSUME NEW line, SendEnd(i, line) PROVE \E l, t : Arrives(i, l, t)
        BY <4>3 DEF SendEnd
      <4> QED BY <1>5, <2>2, <4>1, <4>2, <4>3 DEF Server
    <3> DEFINE x == [q EXCEPT !.unread = Append(@, line), !.sent = sent]
    <3>2. request' = [request EXCEPT ![i] = x] /\ UNCHANGED <<program, main, round>>
      BY <1>3, <3>1
    <3>3. x.t0 = q.t0 /\ x.pc = q.pc
      BY <1>4
    <3> HIDE DEF x
    <3> QED BY <1>2, <3>2, <3>3
  <2> QED BY <2>1, <2>2
<1>6. CASE Request(i)
  <2> DEFINE r == Rest(i)
  <2>1. r.t0 = q.t0 /\ DOMAIN r = DOMAIN q /\ {"pc", "t0", "t_first", "t_done", "tokens"} \subseteq DOMAIN r
        /\ r.pc = q.pc
    BY <1>1 DEF Rest, Reqs
  <2>2. \E x : Reader(i, x) /\ x.t0 = q.t0 /\ x.pc # "pending"
    <3>1. CASE ReadChunk(i)
      <4>1. PICK f, t : Reader(i, [r EXCEPT !.t_first = f, !.tokens = t])
        BY <3>1 DEF ReadChunk
      <4>2. [r EXCEPT !.t_first = f, !.tokens = t].t0 = q.t0
            /\ [r EXCEPT !.t_first = f, !.tokens = t].pc = q.pc
        <5> HIDE DEF r
        <5> QED BY <2>1
      <4> QED BY <4>1, <4>2
    <3>2. CASE ReadDone(i)
      <4>1. PICK p \in {"done", r.pc} : Reader(i, [r EXCEPT !.t_done = clock, !.pc = p])
        BY <3>2, <2>1 DEF ReadDone
      <4>2. [r EXCEPT !.t_done = clock, !.pc = p].t0 = q.t0
            /\ [r EXCEPT !.t_done = clock, !.pc = p].pc = p
        <5> HIDE DEF r
        <5> QED BY <2>1
      <4> QED BY <2>1, <4>1, <4>2
    <3>3. CASE ReadEnd(i)
      <4>1. CASE program.format = "sse"
        <5>1. Reader(i, [r EXCEPT !.t_done = clock, !.pc = "done"])
          BY <3>3, <4>1 DEF ReadEnd
        <5>2. [r EXCEPT !.t_done = clock, !.pc = "done"].t0 = q.t0
              /\ [r EXCEPT !.t_done = clock, !.pc = "done"].pc = "done"
          <6> HIDE DEF r
          <6> QED BY <2>1
        <5> QED BY <5>1, <5>2
      <4>2. CASE program.format # "sse"
        <5>1. PICK p \in {"done", "failed"} : Reader(i, [r EXCEPT !.pc = p])
          BY <3>3, <4>2 DEF ReadEnd
        <5>2. [r EXCEPT !.pc = p].t0 = q.t0 /\ [r EXCEPT !.pc = p].pc = p
          <6> HIDE DEF r
          <6> QED BY <2>1
        <5> QED BY <5>1, <5>2
      <4> QED BY <4>1, <4>2
    <3>4. CASE Raise(i)
      <4>1. Reader(i, [r EXCEPT !.pc = "failed"])
        BY <3>4 DEF Raise
      <4>2. [r EXCEPT !.pc = "failed"].t0 = q.t0 /\ [r EXCEPT !.pc = "failed"].pc = "failed"
        <5> HIDE DEF r
        <5> QED BY <2>1
      <4> QED BY <4>1, <4>2
    <3> QED BY <1>6, <3>1, <3>2, <3>3, <3>4 DEF Request, StartRequest
  <2> QED BY <1>2, <2>2 DEF Reader
<1> QED BY <1>5, <1>6

\* When a program is over, or on its way there, no request waits to be begun.
UInv == Over => \A i \in 1 .. N : request[i].pc # "pending"

LEMMA OverStep ==
  ASSUME TInv, MInv, UInv, [Next]_vars
  PROVE  UInv' /\ (Over => Over' /\ Begun' = Begun)
<1>0. DOMAIN request = 1 .. N
  BY Requested
<1>n. UNCHANGED <<program, round>> => N' = N
  BY DEF N
<1>1. CASE UNCHANGED vars
  BY <1>1, <1>n DEF vars, UInv, Over, Begun
<1>2. CASE CollectRaises \/ Interrupt
  <2>1. ~Over /\ Abandon
    BY <1>2 DEF CollectRaises, Interrupt, Over, Exited
  <2>2. N' = N /\ \A i \in 1 .. N : request'[i] = IF request[i].pc = "pending" \/ (~program.pool /\ InFlight(i))
                                        THEN [request[i] EXCEPT !.pc = "cancelled"] ELSE request[i]
    BY <1>0, <1>n, <2>1 DEF Abandon
  <2>3. \A i \in 1 .. N : [request[i] EXCEPT !.pc = "cancelled"].pc = "cancelled"
    BY DEF TInv, Reqs
  <2> QED BY <2>1, <2>2, <2>3 DEF UInv
<1>3. CASE Crash
  BY <1>3, <1>n DEF Crash, Over, Exited, UInv, Begun
<1>4. CASE AfterLast
  <2>1. \A i \in 1 .. N : request[i].pc = "done"
    BY <1>4 DEF AfterLast, MInv
  <2> QED BY <1>4, <1>n, <2>1 DEF AfterLast, Over, Exited, UInv
<1>5. CASE Collect \/ RoundOver \/ NextRound \/ StartOver \/ Tick
  BY <1>5 DEF Collect, RoundOver, NextRound, StartOver, Begin, Tick, Over, Exited, UInv
<1>6. CASE \E i \in DOMAIN request : Server(i) \/ Request(i)
  <2>1. PICK i \in 1 .. N : Server(i) \/ Request(i)
    BY <1>0, <1>6
  <2>2. CASE Over
    <3>1. /\ UNCHANGED <<program, main, round>> /\ DOMAIN request' = 1 .. N
          /\ \A j \in 1 .. N : /\ request'[j].t0 = request[j].t0
                               /\ request[j].pc # "pending" => request'[j].pc # "pending"
      BY <2>1, <2>2, GoesOn DEF UInv
    <3>2. Over' /\ N' = N
      BY <1>n, <2>2, <3>1 DEF Over
    <3>3. Begun' = Begun
      BY <1>0, <3>1 DEF Begun
    <3> QED BY <2>2, <3>1, <3>2, <3>3 DEF UInv
  <2>3. CASE ~Over
    <3>1. UNCHANGED main
      BY <2>1 DEF Server, SendChunk, SendDone, SendEnd, FallSilent, Arrives, Request,
                  StartRequest, ReadChunk, ReadDone, ReadEnd, Raise, Reader
    <3> QED BY <2>3, <3>1 DEF Over, UInv
  <2> QED BY <2>2, <2>3
<1> QED BY <1>1, <1>2, <1>3, <1>4, <1>5, <1>6 DEF Next, Main

\* Once a program is given up no request is begun, whichever are still running.
THEOREM NothingFurther == Spec => NoFurtherRequest
<1>1. Init => UInv
  BY DEF Init, UInv, Over, Exited
<1>2. TInv /\ MInv /\ UInv /\ [Next]_vars => UInv' /\ [Over => Over' /\ Begun' = Begun]_vars
  BY OverStep
<1> QED BY <1>1, <1>2, SweepInductive, PTL DEF Spec, NoFurtherRequest

-----------------------------------------------------------------------------
(* The rounds follow the plan.                                             *)

\* What TInv and MInv leave open of where a round begins: a run that sleeps
\* has been through its rounds and is to go through them again.
SInv == main = "sleep" => LastRound /\ program.continuous

Busy == {i \in DOMAIN request : InFlight(i)}

LEMMA BusyBounded ==
  ASSUME NEW n \in Nat, NEW f, DOMAIN f = 1 .. n
  PROVE  Cardinality({i \in DOMAIN f : f[i].pc \in {"reading", "silent"}}) \in 0 .. n
<1> DEFINE B == {i \in DOMAIN f : f[i].pc \in {"reading", "silent"}}
<1>1. IsFiniteSet(1 .. n) /\ Cardinality(1 .. n) = n /\ B \subseteq 1 .. n
  BY FS_Interval
<1> HIDE DEF B
<1>2. IsFiniteSet(B) /\ Cardinality(B) <= n
  <2>1. IsFiniteSet(B) /\ Cardinality(B) <= Cardinality(1 .. n)
    BY <1>1, FS_Subset
  <2> QED BY <1>1, <2>1
<1>3. Cardinality(B) \in Nat
  BY <1>2, FS_CardinalityType
<1> QED BY <1>2, <1>3 DEF B

LEMMA SleepStep ==
  ASSUME SInv, [Next]_vars
  PROVE  SInv'
<1>1. CASE UNCHANGED vars
  BY <1>1 DEF vars, SInv, LastRound
<1>2. CASE AfterLast
  BY <1>2 DEF AfterLast, SInv, LastRound
<1>3. CASE Collect \/ CollectRaises \/ Crash \/ RoundOver \/ Interrupt
  BY <1>3 DEF Collect, CollectRaises, Crash, RoundOver, Interrupt, Abandon, SInv, LastRound
<1>4. CASE NextRound \/ StartOver
  BY <1>4 DEF NextRound, StartOver, Begin, SInv
<1>5. CASE Tick
  BY <1>5 DEF Tick, SInv
<1>6. CASE \E i \in DOMAIN request : Server(i) \/ Request(i)
  <2>1. PICK i \in DOMAIN request : Server(i) \/ Request(i)
    BY <1>6
  <2>2. UNCHANGED <<program, main, round>>
    BY <2>1 DEF Server, SendChunk, SendDone, SendEnd, FallSilent, Arrives, Request,
                StartRequest, ReadChunk, ReadDone, ReadEnd, Raise, Reader
  <2> QED BY <2>2 DEF SInv, LastRound
<1> QED BY <1>1, <1>2, <1>3, <1>4, <1>5, <1>6 DEF Next, Main

\* A step in which no round begins is work of the round that is open.
LEMMA WorkStep ==
  ASSUME TInv, TInv', UNCHANGED <<program, round>>, main' = "collect" => main = "collect"
  PROVE  Plan!Work
<1>1. N \in Nat /\ N' = N /\ round > 0
  BY Rounds DEF TInv, N
<1>2. Len(request) = N /\ Len(request') = N /\ DOMAIN request' = 1 .. N
  <2>1. \A n \in Nat : \A f \in [1 .. n -> Reqs] : Len(f) = n
    <3> TAKE n \in Nat
    <3> TAKE f \in [1 .. n -> Reqs]
    <3>1. f \in Seq(Reqs)
      BY IsASeq
    <3> QED BY <3>1, LenProperties
  <2>2. request \in [1 .. N -> Reqs] /\ request' \in [1 .. N -> Reqs]
    BY <1>1 DEF TInv
  <2> HIDE DEF N
  <2> QED BY <1>1, <2>1, <2>2
<1>3. Cardinality(Busy') \in 0 .. N
  BY <1>1, <1>2, BusyBounded DEF Busy, InFlight
<1> QED BY <1>1, <1>2, <1>3 DEF Plan!Work, Busy, N

\* A round begins: the one before it is over, and so are its requests.
LEMMA AdvanceStep ==
  ASSUME TInv, MInv, SInv, NextRound \/ StartOver
  PROVE  Plan!Advance
<1>1. PICK n \in DOMAIN program.rounds :
        /\ n \in Plan!Following /\ Begin(n) /\ main \in {"print", "sleep"}
  <2>1. /\ Len(program.rounds) \in Nat \ {0} /\ DOMAIN program.rounds = 1 .. Len(program.rounds)
        /\ round \in DOMAIN program.rounds
    BY Rounds DEF TInv
  <2>2. CASE NextRound
    BY <2>1, <2>2 DEF NextRound, LastRound, Plan!Following
  <2>3. CASE StartOver
    BY <2>1, <2>3 DEF StartOver, SInv, LastRound, Plan!Following
  <2> QED BY <2>2, <2>3
<1>2. /\ round' = n /\ main' = "collect" /\ program' = program
      /\ request' = Requests(program, n)
  BY <1>1 DEF Begin
<1>3. Busy = {}
  <2>1. \A i \in 1 .. N : request[i].pc = "done"
    BY <1>1 DEF MInv
  <2> QED BY <2>1, Requested DEF Busy, InFlight
<1>4. Busy' = {}
  BY <1>2 DEF Busy, InFlight, Requests, Fresh
<1>5. Len(request') = program.rounds[n]
  <2> DEFINE m == program.rounds[n]
  <2>1. m \in Nat /\ request' = [i \in 1 .. m |-> Fresh]
    BY <1>1, <1>2, Rounds DEF TInv, Requests
  <2> HIDE DEF m
  <2>2. request' \in Seq({Fresh})
    BY <2>1, IsASeq
  <2>3. Len(request') = m
    BY <2>1, <2>2, LenProperties
  <2> QED BY <2>3 DEF m
<1>6. round > 0
  BY Rounds DEF TInv
<1>7. Cardinality(Busy) = 0 /\ Cardinality(Busy') = 0
  BY <1>3, <1>4, FS_EmptySet
<1> QED BY <1>1, <1>2, <1>5, <1>6, <1>7 DEF Plan!Advance, Busy

\* Every run of a script goes through its rounds as the plan says.
THEOREM SweepRefinement == Spec => ImplementsPlan
<1>1. Init => Plan!Init /\ SInv
  <2> SUFFICES ASSUME Init PROVE Plan!Init /\ SInv
    OBVIOUS
  <2>1. TInv /\ round = 1 /\ main = "collect" /\ request = Requests(program, 1)
    BY SweepInit DEF Init
  <2>2. Len(request) = program.rounds[1]
    BY <2>1, Requested DEF N
  <2>3. Busy = {}
    BY <2>1 DEF Busy, InFlight, Requests, Fresh
  <2> QED BY <2>1, <2>2, <2>3, FS_EmptySet DEF Plan!Init, Busy, SInv
<1>2. TInv /\ MInv /\ SInv /\ TInv' /\ [Next]_vars => [Plan!Next]_Plan!vars
  <2> SUFFICES ASSUME TInv, MInv, SInv, TInv', [Next]_vars PROVE [Plan!Next]_Plan!vars
    OBVIOUS
  <2>1. CASE NextRound \/ StartOver
    BY <2>1, AdvanceStep DEF Plan!Next
  <2>2. ASSUME UNCHANGED <<program, round>>, main' = "collect" => main = "collect"
        PROVE  Plan!Next
    BY <2>2, WorkStep DEF Plan!Next
  <2>3. CASE UNCHANGED vars
    BY <2>2, <2>3 DEF vars
  <2>4. CASE Collect \/ CollectRaises \/ Crash \/ RoundOver \/ AfterLast \/ Interrupt \/ Tick
    BY <2>2, <2>4 DEF Collect, CollectRaises, Crash, RoundOver, AfterLast, Interrupt, Tick, Abandon
  <2>5. CASE \E i \in DOMAIN request : Server(i) \/ Request(i)
    <3>1. PICK i \in DOMAIN request : Server(i) \/ Request(i)
      BY <2>5
    <3>2. UNCHANGED <<program, main, round>>
      BY <3>1 DEF Server, SendChunk, SendDone, SendEnd, FallSilent, Arrives, Request,
                  StartRequest, ReadChunk, ReadDone, ReadEnd, Raise, Reader
    <3> QED BY <2>2, <3>2
  <2> QED BY <2>1, <2>3, <2>4, <2>5 DEF Next, Main
<1>3. SInv /\ [Next]_vars => SInv'
  BY SleepStep
<1> QED BY <1>1, <1>2, <1>3, SweepInductive, PTL DEF Spec, ImplementsPlan, Plan!Spec

=============================================================================
