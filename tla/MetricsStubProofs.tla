------------------------- MODULE MetricsStubProofs -------------------------
(***************************************************************************)
(* Proofs about module MetricsStub, for any clients and any values: what   *)
(* the stub stores is always a number, a load that has been set is the one *)
(* that is read, and each of its two values is an atomic gauge.            *)
(***************************************************************************)
EXTENDS MetricsStub, TLAPS

Pair == [kv : Usages, requests : Numbers]
Call == [pc : {"idle", "kv", "requests", "reply"}, op : {"metrics", "set"},
         kv : Usages \cup {Garbage, Absent}, requests : Numbers \cup {Garbage, Absent},
         settled : Pair \cup {NotShown}]

LEMMA PairIsShown == NotShown \notin Pair
  BY MetricsStubAssumption DEF NotShown, Pair

LEMMA NoCallType == NoCall \in Call
  BY DEF NoCall, Call

LEMMA InitTypes == Init => TypeOK
<1> SUFFICES ASSUME Init PROVE TypeOK
  OBVIOUS
<1>1. state \in Pair
  BY MetricsStubAssumption DEF Init, Hardcoded, Pair
<1>2. call \in [Clients -> Call]
  BY NoCallType DEF Init
<1> QED BY <1>1, <1>2 DEF TypeOK, Init, Pair, Call

LEMMA NextTypes == TypeOK /\ [Next]_vars => TypeOK'
<1> SUFFICES ASSUME TypeOK, [Next]_vars PROVE TypeOK'
  OBVIOUS
<1>1. state \in Pair /\ call \in [Clients -> Call] /\ shown \in Pair \cup {NotShown}
  BY DEF TypeOK, Pair, Call
<1> DEFINE Goal == state' \in Pair /\ call' \in [Clients -> Call] /\ shown' \in Pair \cup {NotShown}
<1>2. ASSUME UNCHANGED vars PROVE Goal
  BY <1>1, <1>2 DEF vars
<1>3. ASSUME Restart PROVE Goal
  <2>1. state' \in Pair
    BY <1>3, MetricsStubAssumption DEF Restart, Hardcoded, Pair
  <2> QED BY <2>1, <1>3, NoCallType DEF Restart
<1>4. ASSUME NEW c \in Clients, BeginMetrics(c) PROVE Goal
  <2>1. [NoCall EXCEPT !.pc = "kv", !.settled = shown] \in Call
    BY <1>1 DEF NoCall, Call
  <2> QED BY <1>1, <1>4, <2>1 DEF BeginMetrics
<1>5. ASSUME NEW c \in Clients, ReadKv(c) PROVE Goal
  <2>1. state.kv \in Usages
    BY <1>1 DEF Pair
  <2>2. call' = [call EXCEPT ![c] = [call[c] EXCEPT !.pc = "requests", !.kv = state.kv]]
    BY <1>1, <1>5 DEF ReadKv, Step
  <2>3. [call[c] EXCEPT !.pc = "requests", !.kv = state.kv] \in Call
    BY <1>1, <2>1 DEF Call
  <2> QED BY <1>1, <1>5, <2>2, <2>3 DEF ReadKv
<1>6. ASSUME NEW c \in Clients, ReadRequests(c) PROVE Goal
  <2>1. state.requests \in Numbers
    BY <1>1 DEF Pair
  <2>2. call' = [call EXCEPT ![c] = [call[c] EXCEPT !.pc = "reply", !.requests = state.requests]]
    BY <1>1, <1>6 DEF ReadRequests, Step
  <2>3. [call[c] EXCEPT !.pc = "reply", !.requests = state.requests] \in Call
    BY <1>1, <2>1 DEF Call
  <2> QED BY <1>1, <1>6, <2>2, <2>3 DEF ReadRequests
<1>7. ASSUME NEW c \in Clients, ReplyMetrics(c) \/ BadValue(c) PROVE Goal
  BY <1>1, <1>7, NoCallType DEF ReplyMetrics, BadValue
<1>8. ASSUME NEW c \in Clients, BeginSet(c) PROVE Goal
  <2>1. PICK kv \in Usages \cup {Garbage, Absent}, requests \in Numbers \cup {Garbage, Absent} :
          call' = [d \in Clients |->
                     IF d = c THEN [NoCall EXCEPT !.pc = "kv", !.op = "set", !.kv = kv,
                                                  !.requests = requests]
                     ELSE [call[d] EXCEPT !.settled = NotShown]]
    BY <1>8 DEF BeginSet
  <2>2. [NoCall EXCEPT !.pc = "kv", !.op = "set", !.kv = kv, !.requests = requests] \in Call
    BY DEF NoCall, Call
  <2>3. \A d \in Clients : [call[d] EXCEPT !.settled = NotShown] \in Call
    BY <1>1 DEF Call
  <2>4. call' \in [Clients -> Call]
    BY <2>1, <2>2, <2>3
  <2> QED BY <1>1, <1>8, <2>4 DEF BeginSet
<1>9. ASSUME NEW c \in Clients, StoreKv(c) PROVE Goal
  <2>1. state' \in Pair
    BY <1>1, <1>9 DEF StoreKv, Call, Pair
  <2>2. call' \in [Clients -> Call]
    BY <1>1, <1>9 DEF StoreKv, Step, Call
  <2> QED BY <1>1, <1>9, <2>1, <2>2 DEF StoreKv
<1>10. ASSUME NEW c \in Clients, StoreRequests(c) PROVE Goal
  <2>1. state' \in Pair
    BY <1>1, <1>10 DEF StoreRequests, Call, Pair
  <2>2. call' \in [Clients -> Call]
    BY <1>1, <1>10 DEF StoreRequests, Step, Call
  <2> QED BY <1>1, <1>10, <2>1, <2>2 DEF StoreRequests
<1>11. ASSUME NEW c \in Clients, ReplySet(c) PROVE Goal
  BY <1>1, <1>11, NoCallType DEF ReplySet
<1>12. Goal
  BY <1>2, <1>3, <1>4, <1>5, <1>6, <1>7, <1>8, <1>9, <1>10, <1>11 DEF Next
<1> QED BY <1>12 DEF TypeOK, Pair, Call

\* No value that does not parse is stored or shown, whatever clients send.
THEOREM StubTypes == Spec => []TypeOK
  BY InitTypes, NextTypes, PTL DEF Spec

-----------------------------------------------------------------------------
(* SetThenRead.  As long as something is shown, no /set is in flight and   *)
(* the dictionary is what is shown; a /metrics that began then has read it. *)

SettledCall(c) ==
    call[c].pc # "idle" /\ call[c].op = "metrics" /\ call[c].settled # NotShown =>
      /\ call[c].settled = shown
      /\ call[c].pc \in {"requests", "reply"} => call[c].kv = shown.kv
      /\ call[c].pc = "reply" => call[c].requests = shown.requests
SInv ==
    /\ TypeOK
    /\ shown # NotShown => SetsInFlight = {} /\ state = shown
    /\ \A c \in Clients : SettledCall(c)

LEMMA SInvImplies == SInv => SetThenRead
<1> SUFFICES ASSUME SInv, NEW c \in Clients, At(c, "reply", "metrics"),
                    call[c].settled # NotShown
             PROVE  call[c].settled = [kv |-> call[c].kv, requests |-> call[c].requests]
  BY DEF SetThenRead
<1>1. call[c].settled \in Pair
  BY DEF SInv, TypeOK, Pair
<1> QED BY <1>1 DEF SInv, SettledCall, At, Pair

LEMMA SettledStep == SInv /\ [Next]_vars => SInv'
<1> SUFFICES ASSUME SInv, [Next]_vars PROVE SInv'
  OBVIOUS
<1> DEFINE Still == shown' # NotShown => SetsInFlight' = {} /\ state' = shown'
<1> DEFINE Goal == Still /\ \A c \in Clients : SettledCall(c)'
<1>1. call \in [Clients -> Call]
  BY DEF SInv, TypeOK, Call, Pair
<1>2. ASSUME UNCHANGED vars PROVE Goal
  BY <1>2 DEF SInv, vars, SettledCall, SetsInFlight
<1>3. ASSUME Restart PROVE Goal
  BY <1>3 DEF Restart, SettledCall, NoCall
<1>4. ASSUME NEW c \in Clients, BeginMetrics(c) PROVE Goal
  <2>1. \A d \in Clients \ {c} : call'[d] = call[d]
    BY <1>1, <1>4 DEF BeginMetrics
  <2>2. call'[c].pc = "kv" /\ call'[c].op = "metrics" /\ call'[c].settled = shown
    BY <1>1, <1>4 DEF BeginMetrics, NoCall
  <2>3. SetsInFlight' \subseteq SetsInFlight
    BY <2>1, <2>2 DEF SetsInFlight
  <2> QED BY <1>4, <2>1, <2>2, <2>3 DEF BeginMetrics, SInv, SettledCall
<1>5. ASSUME NEW c \in Clients, ReadKv(c) \/ ReadRequests(c) PROVE Goal
  <2>1. \A d \in Clients \ {c} : call'[d] = call[d]
    BY <1>1, <1>5 DEF ReadKv, ReadRequests, Step
  <2>2. /\ call[c].pc # "idle" /\ call[c].op = "metrics"
        /\ call'[c].op = "metrics" /\ call'[c].settled = call[c].settled
    BY <1>1, <1>5 DEF ReadKv, ReadRequests, Step, At, Call
  <2>3. SetsInFlight' = SetsInFlight
    BY <2>1, <2>2 DEF SetsInFlight
  <2>4. \/ call'[c].pc = "requests" /\ call'[c].kv = state.kv
        \/ /\ call[c].pc = "requests" /\ call'[c].pc = "reply"
           /\ call'[c].kv = call[c].kv /\ call'[c].requests = state.requests
    BY <1>1, <1>5 DEF ReadKv, ReadRequests, Step, At, Call
  <2>5. call[c].settled # NotShown => state = shown /\ call[c].settled = shown
    BY <2>2 DEF SInv, SettledCall
  <2>6. SettledCall(c)'
    BY <1>5, <2>2, <2>4, <2>5 DEF SInv, SettledCall, ReadKv, ReadRequests
  <2> QED BY <1>5, <2>1, <2>3, <2>6 DEF ReadKv, ReadRequests, SInv, SettledCall
<1>6. ASSUME NEW c \in Clients, ReplyMetrics(c) PROVE Goal
  <2>1. \A d \in Clients \ {c} : call'[d] = call[d]
    BY <1>1, <1>6 DEF ReplyMetrics
  <2>2. call'[c].pc = "idle"
    BY <1>1, <1>6 DEF ReplyMetrics, NoCall
  <2>3. SetsInFlight' \subseteq SetsInFlight
    BY <2>1, <2>2 DEF SetsInFlight
  <2> QED BY <1>6, <2>1, <2>2, <2>3 DEF ReplyMetrics, SInv, SettledCall
<1>7. ASSUME NEW c \in Clients, BeginSet(c) PROVE Goal
  <2>1. PICK kv \in Usages \cup {Garbage, Absent}, requests \in Numbers \cup {Garbage, Absent} :
          call' = [d \in Clients |->
                     IF d = c THEN [NoCall EXCEPT !.pc = "kv", !.op = "set", !.kv = kv,
                                                  !.requests = requests]
                     ELSE [call[d] EXCEPT !.settled = NotShown]]
    BY <1>7 DEF BeginSet
  <2>2. call'[c].op = "set"
    BY <2>1 DEF NoCall
  <2>3. \A d \in Clients \ {c} : call'[d].settled = NotShown
    BY <1>1, <2>1 DEF Call
  <2> QED BY <1>7, <2>2, <2>3 DEF BeginSet, SettledCall
<1>8. ASSUME NEW c \in Clients,
             call[c].pc # "idle", call[c].op = "set", shown' = shown \/ shown' = NotShown,
             \A d \in Clients \ {c} : call'[d] = call[d],
             call'[c].op = "set" \/ call'[c].pc = "idle"
      PROVE  Goal
  <2>1. shown = NotShown
    BY <1>8 DEF SInv, SetsInFlight
  <2>2. \A d \in Clients : call[d].pc # "idle" /\ call[d].op = "metrics" => call[d].settled = NotShown
    BY <2>1 DEF SInv, SettledCall
  <2> QED BY <1>8, <2>1, <2>2 DEF SettledCall
<1>9. ASSUME NEW c \in Clients, StoreKv(c) \/ StoreRequests(c) \/ BadValue(c) PROVE Goal
  <2>1. call[c].pc # "idle" /\ call[c].op = "set" /\ shown' = shown
    BY <1>9 DEF StoreKv, StoreRequests, BadValue, At
  <2>2. \A d \in Clients \ {c} : call'[d] = call[d]
    BY <1>1, <1>9 DEF StoreKv, StoreRequests, BadValue, Step
  <2>3. call'[c].op = "set" \/ call'[c].pc = "idle"
    BY <1>1, <1>9 DEF StoreKv, StoreRequests, BadValue, Step, At, Call, NoCall
  <2> QED BY <1>8, <2>1, <2>2, <2>3
<1>10. ASSUME NEW c \in Clients, ReplySet(c) PROVE Goal
  <2>1. call[c].pc # "idle" /\ call[c].op = "set" /\ call'[c].pc = "idle"
    BY <1>1, <1>10 DEF ReplySet, At, NoCall
  <2>2. \A d \in Clients \ {c} : call'[d] = call[d]
    BY <1>1, <1>10 DEF ReplySet
  <2>3. shown = NotShown
    BY <2>1 DEF SInv, SetsInFlight
  <2>4. \A d \in Clients : call[d].pc # "idle" /\ call[d].op = "metrics" => call[d].settled = NotShown
    BY <2>3 DEF SInv, SettledCall
  <2>5. \A d \in Clients : SettledCall(d)'
    BY <2>1, <2>2, <2>4 DEF SettledCall
  <2>6. shown' # NotShown => SetsInFlight' = {}
    <3> SUFFICES ASSUME shown' # NotShown PROVE SetsInFlight' = {}
      OBVIOUS
    <3>1. SetsInFlight = {c}
      BY <1>10 DEF ReplySet
    <3> QED BY <2>1, <2>2, <3>1 DEF SetsInFlight
  <2>7. shown' # NotShown => state' = shown'
    BY <1>10 DEF ReplySet
  <2> QED BY <2>5, <2>6, <2>7
<1>11. Goal
  BY <1>2, <1>3, <1>4, <1>5, <1>6, <1>7, <1>9, <1>10 DEF Next
<1>12. TypeOK'
  BY NextTypes DEF SInv
<1> QED BY <1>11, <1>12 DEF SInv

\* A load that was set and not set again since is the one every client reads.
THEOREM SetIsRead == Spec => []SetThenRead
<1>1. Init => SInv
  BY InitTypes DEF Init, SInv, SettledCall, NoCall
<1> QED BY <1>1, SettledStep, SInvImplies, PTL DEF Spec

-----------------------------------------------------------------------------
(* ImplementsGauges.  What a call asks for and has got is Absent wherever   *)
(* the gauge has nothing pending or nothing got.                            *)

Clean(c) ==
    /\ call[c].pc = "idle" => call[c] = NoCall
    /\ At(c, "kv", "metrics") => call[c].kv = Absent
    /\ call[c].op = "metrics" /\ call[c].pc \in {"kv", "requests"} => call[c].requests = Absent
GInv == TypeOK /\ \A c \in Clients : Clean(c)

LEMMA CleanStep == GInv /\ [Next]_vars => GInv'
<1> SUFFICES ASSUME GInv, [Next]_vars PROVE \A c \in Clients : Clean(c)'
  BY NextTypes DEF GInv
<1>1. call \in [Clients -> Call]
  BY DEF GInv, TypeOK, Call, Pair
<1> DEFINE Goal == \A c \in Clients : Clean(c)'
<1>2. ASSUME UNCHANGED vars PROVE Goal
  BY <1>2 DEF GInv, vars, Clean, At
<1>3. ASSUME Restart PROVE Goal
  BY <1>3 DEF Restart, Clean, At, NoCall
<1>4. ASSUME NEW c \in Clients, BeginMetrics(c) PROVE Goal
  <2>1. \A d \in Clients \ {c} : call'[d] = call[d]
    BY <1>1, <1>4 DEF BeginMetrics
  <2>2. Clean(c)'
    BY <1>1, <1>4 DEF BeginMetrics, Clean, At, NoCall
  <2> QED BY <2>1, <2>2 DEF GInv, Clean, At
<1>5. ASSUME NEW c \in Clients,
             \/ ReadKv(c) \/ ReadRequests(c) \/ StoreKv(c) \/ StoreRequests(c)
      PROVE  Goal
  <2>1. \A d \in Clients \ {c} : call'[d] = call[d]
    BY <1>1, <1>5 DEF ReadKv, ReadRequests, StoreKv, StoreRequests, Step
  <2>2. call[c] \in Call
    BY <1>1
  <2>3. Clean(c)'
    BY <1>1, <1>5, <2>2 DEF ReadKv, ReadRequests, StoreKv, StoreRequests, Step, At, GInv, Clean, Call
  <2> QED BY <2>1, <2>3 DEF GInv, Clean, At
<1>6. ASSUME NEW c \in Clients, ReplyMetrics(c) \/ BadValue(c) \/ ReplySet(c) PROVE Goal
  <2>1. \A d \in Clients \ {c} : call'[d] = call[d]
    BY <1>1, <1>6 DEF ReplyMetrics, BadValue, ReplySet
  <2>2. call'[c] = NoCall
    BY <1>1, <1>6 DEF ReplyMetrics, BadValue, ReplySet
  <2>3. Clean(c)'
    BY <2>2 DEF Clean, At, NoCall
  <2> QED BY <2>1, <2>3 DEF GInv, Clean, At
<1>7. ASSUME NEW c \in Clients, BeginSet(c) PROVE Goal
  <2>1. call'[c].pc = "kv" /\ call'[c].op = "set"
    BY <1>7 DEF BeginSet, NoCall
  <2>2. ASSUME NEW d \in Clients \ {c} PROVE Clean(d)'
    <3>1. call'[d] = [call[d] EXCEPT !.settled = NotShown] /\ call[d] \in Call
      BY <1>1, <1>7 DEF BeginSet
    <3>2. call[d].pc = "idle" => call'[d] = NoCall
      BY <3>1 DEF GInv, Clean, NoCall
    <3> QED BY <3>1, <3>2 DEF GInv, Clean, At, Call
  <2> QED BY <2>1, <2>2 DEF Clean, At
<1> QED BY <1>2, <1>3, <1>4, <1>5, <1>6, <1>7 DEF Next

\* The two mappings of ImplementsGauges, client by client.
KvAsks(c) ==
    IF call[c].pc # "kv" THEN Absent
    ELSE IF call[c].op = "metrics" THEN Reading
    ELSE IF call[c].kv = Garbage THEN Absent ELSE call[c].kv
KvGot(c) == IF call[c].op = "metrics" THEN call[c].kv ELSE Absent

\* What a step may do to the mapped variables of one client.
KvMoves(c) ==
    \/ UNCHANGED <<state.kv, KvAsks(c), KvGot(c)>>
    \/ /\ KvAsks(c) = Absent /\ KvGot(c) = Absent
       /\ KvAsks(c)' \in Usages \cup {Reading} /\ UNCHANGED <<state.kv, KvGot(c)>>
    \/ /\ KvAsks(c) \notin {Absent, Reading} /\ KvAsks(c)' = Absent
       /\ state'.kv \in {KvAsks(c), state.kv} /\ UNCHANGED KvGot(c)
    \/ /\ KvAsks(c) = Reading /\ KvAsks(c)' = Absent
       /\ KvGot(c)' = state.kv /\ UNCHANGED state.kv
    \/ /\ KvAsks(c) = Absent /\ KvGot(c)' = Absent
       /\ UNCHANGED <<state.kv, KvAsks(c)>>

LEMMA KvSimulates ==
    ASSUME NEW c \in Clients, KvMoves(c),
           \A d \in Clients \ {c} : KvAsks(d)' = KvAsks(d) /\ KvGot(d)' = KvGot(d)
    PROVE  [KvGauge!Next]_(KvGauge!vars)
<1> DEFINE pending == [d \in Clients |-> KvAsks(d)]
           got == [d \in Clients |-> KvGot(d)]
<1>1. /\ pending' = [pending EXCEPT ![c] = KvAsks(c)'] /\ pending[c] = KvAsks(c)
      /\ got' = [got EXCEPT ![c] = KvGot(c)'] /\ got[c] = KvGot(c)
  OBVIOUS
<1>2. /\ KvAsks(c)' = KvAsks(c) => pending' = pending
      /\ KvGot(c)' = KvGot(c) => got' = got
  OBVIOUS
<1> HIDE DEF pending, got
<1>3. KvGauge!Ask(c) <=> /\ pending[c] = Absent /\ got[c] = Absent
                        /\ \E request \in Usages \cup {Reading} :
                              pending' = [pending EXCEPT ![c] = request]
                        /\ UNCHANGED <<state.kv, got>>
  BY DEF KvGauge!Ask, pending, got, KvAsks, KvGot
<1>4. KvGauge!Set(c) <=> /\ pending[c] # Absent /\ pending' = [pending EXCEPT ![c] = Absent]
                        /\ pending[c] # Reading /\ state'.kv = pending[c] /\ UNCHANGED got
  BY DEF KvGauge!Set, KvGauge!Settles, pending, got, KvAsks, KvGot
<1>5. KvGauge!Drop(c) <=> /\ pending[c] # Absent /\ pending' = [pending EXCEPT ![c] = Absent]
                         /\ pending[c] # Reading /\ UNCHANGED <<state.kv, got>>
  BY DEF KvGauge!Drop, KvGauge!Settles, pending, got, KvAsks, KvGot
<1>6. KvGauge!Read(c) <=> /\ pending[c] # Absent /\ pending' = [pending EXCEPT ![c] = Absent]
                         /\ pending[c] = Reading /\ got' = [got EXCEPT ![c] = state.kv]
                         /\ UNCHANGED state.kv
  BY DEF KvGauge!Read, KvGauge!Settles, pending, got, KvAsks, KvGot
<1>7. KvGauge!Answer(c) <=> /\ pending[c] = Absent /\ got' = [got EXCEPT ![c] = Absent]
                           /\ UNCHANGED <<state.kv, pending>>
  BY DEF KvGauge!Answer, pending, got, KvAsks, KvGot
<1> DEFINE Goal == \/ KvGauge!Ask(c) \/ KvGauge!Set(c) \/ KvGauge!Drop(c)
                   \/ KvGauge!Read(c) \/ KvGauge!Answer(c)
                   \/ UNCHANGED <<state.kv, pending, got>>
<1>8. Goal
  <2>1. CASE UNCHANGED <<state.kv, KvAsks(c), KvGot(c)>>
    BY <1>2, <2>1
  <2>2. CASE /\ KvAsks(c) = Absent /\ KvGot(c) = Absent
             /\ KvAsks(c)' \in Usages \cup {Reading} /\ UNCHANGED <<state.kv, KvGot(c)>>
    BY <1>1, <1>2, <1>3, <2>2
  <2>3. CASE /\ KvAsks(c) \notin {Absent, Reading} /\ KvAsks(c)' = Absent
             /\ state'.kv \in {KvAsks(c), state.kv} /\ UNCHANGED KvGot(c)
    <3>1. /\ pending[c] # Absent /\ pending[c] # Reading /\ got' = got
          /\ pending' = [pending EXCEPT ![c] = Absent]
      BY <1>1, <1>2, <2>3
    <3> QED BY <1>1, <1>4, <1>5, <2>3, <3>1
  <2>4. CASE /\ KvAsks(c) = Reading /\ KvAsks(c)' = Absent
             /\ KvGot(c)' = state.kv /\ UNCHANGED state.kv
    <3>1. Reading # Absent
      BY MetricsStubAssumption
    <3> QED BY <1>1, <1>6, <2>4, <3>1
  <2>5. CASE /\ KvAsks(c) = Absent /\ KvGot(c)' = Absent
             /\ UNCHANGED <<state.kv, KvAsks(c)>>
    BY <1>1, <1>2, <1>7, <2>5
  <2> QED BY <2>1, <2>2, <2>3, <2>4, <2>5 DEF KvMoves
<1>9. UNCHANGED <<state.kv, pending, got>> => UNCHANGED KvGauge!vars
  BY DEF KvGauge!vars, pending, got, KvAsks, KvGot
<1> QED BY <1>8, <1>9 DEF KvGauge!Next

LEMMA KvRefines == GInv /\ [Next]_vars => [KvGauge!Next]_(KvGauge!vars)
<1> SUFFICES ASSUME GInv, [Next]_vars PROVE [KvGauge!Next]_(KvGauge!vars)
  OBVIOUS
<1>1. call \in [Clients -> Call] /\ state \in Pair
  BY DEF GInv, TypeOK, Call, Pair
<1>2. CASE UNCHANGED vars
  <2>1. UNCHANGED <<state, call>>
    BY <1>2 DEF vars
  <2> QED BY <2>1 DEF KvGauge!vars
<1>3. CASE Restart
  <2>1. KvGauge!Restart
    BY <1>3 DEF Restart, NoCall, Hardcoded, KvGauge!Restart, KvGauge!Idle
  <2> QED BY <2>1 DEF KvGauge!Next
<1>4. ASSUME NEW c \in Clients,
             \/ BeginMetrics(c) \/ ReadKv(c) \/ ReadRequests(c) \/ ReplyMetrics(c)
             \/ StoreKv(c) \/ StoreRequests(c) \/ BadValue(c) \/ ReplySet(c)
      PROVE  \A d \in Clients \ {c} : call'[d] = call[d]
  BY <1>1, <1>4 DEF BeginMetrics, ReadKv, ReadRequests, ReplyMetrics, StoreKv, StoreRequests,
                    BadValue, ReplySet, Step
<1>5. ASSUME NEW c \in Clients,
             \/ BeginMetrics(c) \/ ReadKv(c) \/ ReadRequests(c) \/ ReplyMetrics(c)
             \/ StoreKv(c) \/ StoreRequests(c) \/ BadValue(c) \/ ReplySet(c)
      PROVE  KvMoves(c)
  <2>1. call[c] \in Call /\ Clean(c) /\ state.kv \in Usages /\ state.requests \in Numbers
    BY <1>1 DEF GInv, Pair
  <2> USE <1>1, <2>1, MetricsStubAssumption DEF KvMoves, KvAsks, KvGot, Call, Clean, At
  <2>2. CASE BeginMetrics(c)
    BY <2>2 DEF BeginMetrics, NoCall
  <2>3. CASE ReadKv(c)
    BY <2>3 DEF ReadKv, Step
  <2>4. CASE ReadRequests(c)
    BY <2>4 DEF ReadRequests, Step
  <2>5. CASE ReplyMetrics(c)
    BY <2>5 DEF ReplyMetrics, NoCall
  <2>6. CASE StoreKv(c)
    BY <2>6 DEF StoreKv, Step, Pair
  <2>7. CASE StoreRequests(c)
    BY <2>7 DEF StoreRequests, Step, Pair
  <2>8. CASE BadValue(c)
    BY <2>8 DEF BadValue, NoCall
  <2>9. CASE ReplySet(c)
    BY <2>9 DEF ReplySet, NoCall
  <2> QED BY <1>5, <2>2, <2>3, <2>4, <2>5, <2>6, <2>7, <2>8, <2>9
<1>6. ASSUME NEW c \in Clients, BeginSet(c)
      PROVE  /\ KvMoves(c)
             /\ \A d \in Clients \ {c} : KvAsks(d)' = KvAsks(d) /\ KvGot(d)' = KvGot(d)
  <2>1. \A d \in Clients \ {c} : call'[d] = [call[d] EXCEPT !.settled = NotShown]
    BY <1>6 DEF BeginSet
  <2>2. \A d \in Clients \ {c} : KvAsks(d)' = KvAsks(d) /\ KvGot(d)' = KvGot(d)
    <3> SUFFICES ASSUME NEW d \in Clients \ {c}
                 PROVE  KvAsks(d)' = KvAsks(d) /\ KvGot(d)' = KvGot(d)
      OBVIOUS
    <3>1. /\ call'[d].pc = call[d].pc /\ call'[d].op = call[d].op
          /\ call'[d].kv = call[d].kv
      BY <1>1, <2>1 DEF Call
    <3> QED BY <3>1 DEF KvAsks, KvGot
  <2>3. call[c] = NoCall /\ state' = state
    BY <1>6 DEF BeginSet, GInv, Clean
  <2>4. PICK kv \in Usages \cup {Garbage, Absent}, requests \in Numbers \cup {Garbage, Absent} :
          call'[c] = [NoCall EXCEPT !.pc = "kv", !.op = "set", !.kv = kv, !.requests = requests]
    BY <1>6 DEF BeginSet
  <2>5. KvMoves(c)
    BY <2>3, <2>4 DEF KvMoves, KvAsks, KvGot, NoCall
  <2> QED BY <2>2, <2>5
<1>7. ASSUME NEW c \in Clients,
             \/ BeginMetrics(c) \/ ReadKv(c) \/ ReadRequests(c) \/ ReplyMetrics(c)
             \/ StoreKv(c) \/ StoreRequests(c) \/ BadValue(c) \/ ReplySet(c)
      PROVE  [KvGauge!Next]_(KvGauge!vars)
  <2>1. \A d \in Clients \ {c} : KvAsks(d)' = KvAsks(d) /\ KvGot(d)' = KvGot(d)
    BY <1>4, <1>7 DEF KvAsks, KvGot
  <2> QED BY <1>5, <1>7, <2>1, KvSimulates
<1>8. ASSUME NEW c \in Clients, BeginSet(c) PROVE [KvGauge!Next]_(KvGauge!vars)
  BY <1>6, <1>8, KvSimulates
<1> QED BY <1>2, <1>3, <1>7, <1>8 DEF Next

LEMMA KvStarts == Init => KvGauge!Init
  BY DEF Init, NoCall, Hardcoded, KvGauge!Init, KvGauge!Idle

-----------------------------------------------------------------------------
(* The same for the other value.                                           *)

RequestsAsks(c) ==
    IF call[c].pc \notin {"kv", "requests"} THEN Absent
    ELSE IF call[c].op = "metrics" THEN Reading
    ELSE IF call[c].requests = Garbage THEN Absent ELSE call[c].requests
RequestsGot(c) == IF call[c].op = "metrics" THEN call[c].requests ELSE Absent

\* What a step may do to the mapped variables of one client.
RequestsMoves(c) ==
    \/ UNCHANGED <<state.requests, RequestsAsks(c), RequestsGot(c)>>
    \/ /\ RequestsAsks(c) = Absent /\ RequestsGot(c) = Absent
       /\ RequestsAsks(c)' \in Numbers \cup {Reading} /\ UNCHANGED <<state.requests, RequestsGot(c)>>
    \/ /\ RequestsAsks(c) \notin {Absent, Reading} /\ RequestsAsks(c)' = Absent
       /\ state'.requests \in {RequestsAsks(c), state.requests} /\ UNCHANGED RequestsGot(c)
    \/ /\ RequestsAsks(c) = Reading /\ RequestsAsks(c)' = Absent
       /\ RequestsGot(c)' = state.requests /\ UNCHANGED state.requests
    \/ /\ RequestsAsks(c) = Absent /\ RequestsGot(c)' = Absent
       /\ UNCHANGED <<state.requests, RequestsAsks(c)>>

LEMMA RequestsSimulates ==
    ASSUME NEW c \in Clients, RequestsMoves(c),
           \A d \in Clients \ {c} : RequestsAsks(d)' = RequestsAsks(d) /\ RequestsGot(d)' = RequestsGot(d)
    PROVE  [RequestsGauge!Next]_(RequestsGauge!vars)
<1> DEFINE pending == [d \in Clients |-> RequestsAsks(d)]
           got == [d \in Clients |-> RequestsGot(d)]
<1>1. /\ pending' = [pending EXCEPT ![c] = RequestsAsks(c)'] /\ pending[c] = RequestsAsks(c)
      /\ got' = [got EXCEPT ![c] = RequestsGot(c)'] /\ got[c] = RequestsGot(c)
  OBVIOUS
<1>2. /\ RequestsAsks(c)' = RequestsAsks(c) => pending' = pending
      /\ RequestsGot(c)' = RequestsGot(c) => got' = got
  OBVIOUS
<1> HIDE DEF pending, got
<1>3. RequestsGauge!Ask(c) <=> /\ pending[c] = Absent /\ got[c] = Absent
                        /\ \E request \in Numbers \cup {Reading} :
                              pending' = [pending EXCEPT ![c] = request]
                        /\ UNCHANGED <<state.requests, got>>
  BY DEF RequestsGauge!Ask, pending, got, RequestsAsks, RequestsGot
<1>4. RequestsGauge!Set(c) <=> /\ pending[c] # Absent /\ pending' = [pending EXCEPT ![c] = Absent]
                        /\ pending[c] # Reading /\ state'.requests = pending[c] /\ UNCHANGED got
  BY DEF RequestsGauge!Set, RequestsGauge!Settles, pending, got, RequestsAsks, RequestsGot
<1>5. RequestsGauge!Drop(c) <=> /\ pending[c] # Absent /\ pending' = [pending EXCEPT ![c] = Absent]
                         /\ pending[c] # Reading /\ UNCHANGED <<state.requests, got>>
  BY DEF RequestsGauge!Drop, RequestsGauge!Settles, pending, got, RequestsAsks, RequestsGot
<1>6. RequestsGauge!Read(c) <=> /\ pending[c] # Absent /\ pending' = [pending EXCEPT ![c] = Absent]
                         /\ pending[c] = Reading /\ got' = [got EXCEPT ![c] = state.requests]
                         /\ UNCHANGED state.requests
  BY DEF RequestsGauge!Read, RequestsGauge!Settles, pending, got, RequestsAsks, RequestsGot
<1>7. RequestsGauge!Answer(c) <=> /\ pending[c] = Absent /\ got' = [got EXCEPT ![c] = Absent]
                           /\ UNCHANGED <<state.requests, pending>>
  BY DEF RequestsGauge!Answer, pending, got, RequestsAsks, RequestsGot
<1> DEFINE Goal == \/ RequestsGauge!Ask(c) \/ RequestsGauge!Set(c) \/ RequestsGauge!Drop(c)
                   \/ RequestsGauge!Read(c) \/ RequestsGauge!Answer(c)
                   \/ UNCHANGED <<state.requests, pending, got>>
<1>8. Goal
  <2>1. CASE UNCHANGED <<state.requests, RequestsAsks(c), RequestsGot(c)>>
    BY <1>2, <2>1
  <2>2. CASE /\ RequestsAsks(c) = Absent /\ RequestsGot(c) = Absent
             /\ RequestsAsks(c)' \in Numbers \cup {Reading} /\ UNCHANGED <<state.requests, RequestsGot(c)>>
    BY <1>1, <1>2, <1>3, <2>2
  <2>3. CASE /\ RequestsAsks(c) \notin {Absent, Reading} /\ RequestsAsks(c)' = Absent
             /\ state'.requests \in {RequestsAsks(c), state.requests} /\ UNCHANGED RequestsGot(c)
    <3>1. /\ pending[c] # Absent /\ pending[c] # Reading /\ got' = got
          /\ pending' = [pending EXCEPT ![c] = Absent]
      BY <1>1, <1>2, <2>3
    <3> QED BY <1>1, <1>4, <1>5, <2>3, <3>1
  <2>4. CASE /\ RequestsAsks(c) = Reading /\ RequestsAsks(c)' = Absent
             /\ RequestsGot(c)' = state.requests /\ UNCHANGED state.requests
    <3>1. Reading # Absent
      BY MetricsStubAssumption
    <3> QED BY <1>1, <1>6, <2>4, <3>1
  <2>5. CASE /\ RequestsAsks(c) = Absent /\ RequestsGot(c)' = Absent
             /\ UNCHANGED <<state.requests, RequestsAsks(c)>>
    BY <1>1, <1>2, <1>7, <2>5
  <2> QED BY <2>1, <2>2, <2>3, <2>4, <2>5 DEF RequestsMoves
<1>9. UNCHANGED <<state.requests, pending, got>> => UNCHANGED RequestsGauge!vars
  BY DEF RequestsGauge!vars, pending, got, RequestsAsks, RequestsGot
<1> QED BY <1>8, <1>9 DEF RequestsGauge!Next

LEMMA RequestsRefines == GInv /\ [Next]_vars => [RequestsGauge!Next]_(RequestsGauge!vars)
<1> SUFFICES ASSUME GInv, [Next]_vars PROVE [RequestsGauge!Next]_(RequestsGauge!vars)
  OBVIOUS
<1>1. call \in [Clients -> Call] /\ state \in Pair
  BY DEF GInv, TypeOK, Call, Pair
<1>2. CASE UNCHANGED vars
  <2>1. UNCHANGED <<state, call>>
    BY <1>2 DEF vars
  <2> QED BY <2>1 DEF RequestsGauge!vars
<1>3. CASE Restart
  <2>1. RequestsGauge!Restart
    BY <1>3 DEF Restart, NoCall, Hardcoded, RequestsGauge!Restart, RequestsGauge!Idle
  <2> QED BY <2>1 DEF RequestsGauge!Next
<1>4. ASSUME NEW c \in Clients,
             \/ BeginMetrics(c) \/ ReadKv(c) \/ ReadRequests(c) \/ ReplyMetrics(c)
             \/ StoreKv(c) \/ StoreRequests(c) \/ BadValue(c) \/ ReplySet(c)
      PROVE  \A d \in Clients \ {c} : call'[d] = call[d]
  BY <1>1, <1>4 DEF BeginMetrics, ReadKv, ReadRequests, ReplyMetrics, StoreKv, StoreRequests,
                    BadValue, ReplySet, Step
<1>5. ASSUME NEW c \in Clients,
             \/ BeginMetrics(c) \/ ReadKv(c) \/ ReadRequests(c) \/ ReplyMetrics(c)
             \/ StoreKv(c) \/ StoreRequests(c) \/ BadValue(c) \/ ReplySet(c)
      PROVE  RequestsMoves(c)
  <2>1. call[c] \in Call /\ Clean(c) /\ state.kv \in Usages /\ state.requests \in Numbers
    BY <1>1 DEF GInv, Pair
  <2> USE <1>1, <2>1, MetricsStubAssumption DEF RequestsMoves, RequestsAsks, RequestsGot, Call, Clean, At
  <2>2. CASE BeginMetrics(c)
    BY <2>2 DEF BeginMetrics, NoCall
  <2>3. CASE ReadKv(c)
    BY <2>3 DEF ReadKv, Step
  <2>4. CASE ReadRequests(c)
    BY <2>4 DEF ReadRequests, Step
  <2>5. CASE ReplyMetrics(c)
    BY <2>5 DEF ReplyMetrics, NoCall
  <2>6. CASE StoreKv(c)
    BY <2>6 DEF StoreKv, Step, Pair
  <2>7. CASE StoreRequests(c)
    BY <2>7 DEF StoreRequests, Step, Pair
  <2>8. CASE BadValue(c)
    BY <2>8 DEF BadValue, NoCall
  <2>9. CASE ReplySet(c)
    BY <2>9 DEF ReplySet, NoCall
  <2> QED BY <1>5, <2>2, <2>3, <2>4, <2>5, <2>6, <2>7, <2>8, <2>9
<1>6. ASSUME NEW c \in Clients, BeginSet(c)
      PROVE  /\ RequestsMoves(c)
             /\ \A d \in Clients \ {c} : RequestsAsks(d)' = RequestsAsks(d) /\ RequestsGot(d)' = RequestsGot(d)
  <2>1. \A d \in Clients \ {c} : call'[d] = [call[d] EXCEPT !.settled = NotShown]
    BY <1>6 DEF BeginSet
  <2>2. \A d \in Clients \ {c} : RequestsAsks(d)' = RequestsAsks(d) /\ RequestsGot(d)' = RequestsGot(d)
    <3> SUFFICES ASSUME NEW d \in Clients \ {c}
                 PROVE  RequestsAsks(d)' = RequestsAsks(d) /\ RequestsGot(d)' = RequestsGot(d)
      OBVIOUS
    <3>1. /\ call'[d].pc = call[d].pc /\ call'[d].op = call[d].op
          /\ call'[d].requests = call[d].requests
      BY <1>1, <2>1 DEF Call
    <3> QED BY <3>1 DEF RequestsAsks, RequestsGot
  <2>3. call[c] = NoCall /\ state' = state
    BY <1>6 DEF BeginSet, GInv, Clean
  <2>4. PICK kv \in Usages \cup {Garbage, Absent}, requests \in Numbers \cup {Garbage, Absent} :
          call'[c] = [NoCall EXCEPT !.pc = "kv", !.op = "set", !.kv = kv, !.requests = requests]
    BY <1>6 DEF BeginSet
  <2>5. RequestsMoves(c)
    BY <2>3, <2>4 DEF RequestsMoves, RequestsAsks, RequestsGot, NoCall
  <2> QED BY <2>2, <2>5
<1>7. ASSUME NEW c \in Clients,
             \/ BeginMetrics(c) \/ ReadKv(c) \/ ReadRequests(c) \/ ReplyMetrics(c)
             \/ StoreKv(c) \/ StoreRequests(c) \/ BadValue(c) \/ ReplySet(c)
      PROVE  [RequestsGauge!Next]_(RequestsGauge!vars)
  <2>1. \A d \in Clients \ {c} : RequestsAsks(d)' = RequestsAsks(d) /\ RequestsGot(d)' = RequestsGot(d)
    BY <1>4, <1>7 DEF RequestsAsks, RequestsGot
  <2> QED BY <1>5, <1>7, <2>1, RequestsSimulates
<1>8. ASSUME NEW c \in Clients, BeginSet(c) PROVE [RequestsGauge!Next]_(RequestsGauge!vars)
  BY <1>6, <1>8, RequestsSimulates
<1> QED BY <1>2, <1>3, <1>7, <1>8 DEF Next

LEMMA RequestsStarts == Init => RequestsGauge!Init
  BY DEF Init, NoCall, Hardcoded, RequestsGauge!Init, RequestsGauge!Idle

\* Threads that share a dictionary without a lock implement atomic gauges.
THEOREM StubRefinement == Spec => ImplementsGauges
<1>1. Init => GInv
  BY InitTypes DEF Init, GInv, Clean, At, NoCall
<1> QED BY <1>1, CleanStep, KvStarts, KvRefines, RequestsStarts, RequestsRefines, PTL
        DEF Spec, ImplementsGauges, KvGauge!Spec, RequestsGauge!Spec

=============================================================================
