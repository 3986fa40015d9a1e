--------------------------- MODULE LoadTestProofs ---------------------------
(***************************************************************************)
(* Proofs about the load generator, by itself and as the child of a ramp,  *)
(* for any concurrencies, stages, turns and responses: no future is lost   *)
(* or collected twice, the generator implements module SessionPool and the *)
(* ramp module LoadPlan.                                                   *)
(***************************************************************************)
EXTENDS RampTest, FiniteSetTheorems, TLAPS

USE DEF options, mainVars, Looping, Exited

-----------------------------------------------------------------------------
(* What becomes of the generator in one step.                              *)

Stop == main \in Looping /\ Interrupted
Killed ==
    /\ main \notin Exited
    /\ main' = "killed"
    /\ UNCHANGED <<options, how, active, done, session_counter, session, injector, stop_event,
                   all_results, printed>>

\* A step of it, a signal from outside, the start of another one.
Step == Next \/ Stop \/ Killed \/ Init' \/ UNCHANGED vars

LEMMA InterruptStops == Interrupt => Stop
  BY DEF Interrupt, Stop

LEMMA RampStarts == RampInit => Init /\ stage \in Nat
  BY DEF RampInit

LEMMA RampSteps == stage \in Nat /\ [RampNext]_rampVars => Step /\ stage' \in Nat
<1> SUFFICES ASSUME stage \in Nat, [RampNext]_rampVars PROVE Step /\ stage' \in Nat
  OBVIOUS
<1>1. CASE UNCHANGED rampVars
  BY <1>1 DEF rampVars, Step
<1>2. CASE NextStage
  <2>1. stage' \in 1 .. Len(Stages)
    BY <1>2, RampTestAssumption DEF NextStage
  <2>2. Stages[stage'] \in Concurrencies
    BY <2>1, RampTestAssumption
  <2>3. Init'
    BY <1>2, <2>2 DEF NextStage, Popen, Init
  <2> QED BY <2>1, <2>3 DEF Step
<1>3. CASE RampComplete \/ ChildEnded
  BY <1>3 DEF RampComplete, ChildEnded, Step
<1>4. CASE DurationOver
  BY <1>4 DEF DurationOver, Stop, Step
<1>5. CASE Kill
  BY <1>5 DEF Kill, Killed, Step
<1>6. CASE Generator
  BY <1>6 DEF Generator, Next, Step
<1> QED BY <1>1, <1>2, <1>3, <1>4, <1>5, <1>6 DEF RampNext, Parent

-----------------------------------------------------------------------------
(* TypeOK, with what a session and the injector have got to.               *)

Progress == [pc : {"none", "pending", "asking", "hung", "thinking", "done", "failed"},
             turns : 0 .. Turns]
Injecting == [pc : {"none", "sleeping", "asking"}, id : 0 .. MaxInjects]

\* A session that has more to do has had fewer turns than it will.
Underway(s) == session[s].pc \in {"pending", "asking", "hung", "thinking"}
Sound(s) ==
    /\ Underway(s) => session[s].turns < Turns
    /\ session[s].pc = "done" => session[s].turns > 0
    /\ session[s].pc = "done" /\ ~stop_event => session[s].turns = Turns
TInv ==
    /\ TypeOK
    /\ \A s \in Sessions : Sound(s)
    /\ main \in Looping => ~stop_event /\ how = "running"
    /\ injector.pc = "asking" => injector.id > 0

\* The step of a session.
LEMMA SessionStep ==
    ASSUME TInv, NEW s \in Sessions, Session(s)
    PROVE  /\ main \notin Exited
           /\ UNCHANGED <<mainVars, injector, stop_event, all_results>>
           /\ \A t \in Sessions \ {s} : session'[t] = session[t]
           /\ session' \in [Sessions -> Progress]
           /\ Underway(s) /\ session'[s].pc # "none" /\ Sound(s)'
<1> DEFINE n == session[s].turns + 1
           Others == \A t \in Sessions \ {s} : session'[t] = session[t]
           Same == UNCHANGED <<mainVars, injector, stop_event, all_results>>
<1>1. session \in [Sessions -> Progress] /\ session[s].turns \in 0 .. Turns /\ Turns \in Nat \ {0}
  BY LoadTestAssumption DEF TInv, TypeOK, Progress
<1>2. PICK state : /\ main \notin Exited /\ session' = [session EXCEPT ![s] = state] /\ Same
                   /\ Underway(s)
                   /\ \/ state = [session[s] EXCEPT !.pc = "asking"]
                      \/ state = [session[s] EXCEPT !.pc = "failed"]
                      \/ state = [session[s] EXCEPT !.pc = "hung"]
                      \/ state = [pc |-> IF stop_event \/ n = Turns THEN "done" ELSE "thinking",
                                  turns |-> n]
  BY DEF Session, StartSession, Answered, RequestFailed, RequestHangs, NextTurn, Worker, Underway
<1>3. session[s].turns < Turns
  BY <1>2 DEF TInv, Sound
<1>4. /\ state \in Progress /\ state.pc # "none"
      /\ state.pc \in {"pending", "asking", "hung", "thinking"} => state.turns < Turns
      /\ state.pc = "done" => state.turns > 0
      /\ state.pc = "done" /\ ~stop_event => state.turns = Turns
  <2>1. session[s] \in Progress
    BY <1>1
  <2>2. CASE \/ state = [session[s] EXCEPT !.pc = "asking"]
             \/ state = [session[s] EXCEPT !.pc = "failed"]
             \/ state = [session[s] EXCEPT !.pc = "hung"]
    BY <2>1, <2>2, <1>1, <1>3 DEF Progress
  <2>3. CASE state = [pc |-> IF stop_event \/ n = Turns THEN "done" ELSE "thinking", turns |-> n]
    BY <2>3, <1>1, <1>3 DEF Progress
  <2> QED BY <1>2, <2>2, <2>3
<1>5. session'[s] = state /\ Others /\ session' \in [Sessions -> Progress]
  BY <1>1, <1>2, <1>4
<1> QED BY <1>2, <1>4, <1>5 DEF Sound, Underway

LEMMA InitTInv == Init => TInv
<1> SUFFICES ASSUME Init PROVE TInv
  OBVIOUS
<1>1. concurrency \in Nat \ {0} /\ MaxSessions \in Nat /\ concurrency <= MaxSessions
      /\ Turns \in Nat \ {0} /\ MaxInjects \in Nat
  BY LoadTestAssumption DEF Init
<1>2. session \in [Sessions -> Progress]
  BY <1>1 DEF Init, FirstSessions, Submitted, NotCreated, Progress
<1>3. injector \in Injecting /\ injector.pc # "asking"
  BY <1>1 DEF Init, NoInjector, Injecting
<1>4. \A s \in Sessions : Sound(s)
  BY <1>1 DEF Init, FirstSessions, Submitted, NotCreated, Sound, Underway
<1>5. active \subseteq Sessions /\ session_counter \in concurrency .. MaxSessions
  BY <1>1 DEF Init, Sessions
<1> QED BY <1>2, <1>3, <1>4, <1>5 DEF TInv, TypeOK, Init, Progress, Injecting, NoReport

LEMMA NextTInv == TInv /\ Step => TInv'
<1> SUFFICES ASSUME TInv, Step PROVE TInv'
  OBVIOUS
<1>1. session \in [Sessions -> Progress] /\ injector \in Injecting /\ MaxSessions \in Nat
      /\ Turns \in Nat \ {0} /\ MaxInjects \in Nat /\ session_counter \in Nat
      /\ concurrency \in Nat
  BY LoadTestAssumption DEF TInv, TypeOK, Progress, Injecting
<1>2. CASE UNCHANGED vars
  BY <1>2 DEF vars, TInv, TypeOK, Sound, Underway
<1>3. CASE Init'
  BY <1>3, InitTInv, PTL
<1>4. CASE Killed
  BY <1>4 DEF Killed, TInv, TypeOK, Sound, Underway
<1>5. CASE Stop
  BY <1>5 DEF Stop, Interrupted, TInv, TypeOK, Sound, Underway
<1>6. ASSUME NEW s \in Sessions, Session(s) PROVE TInv'
  <2>1. \A t \in Sessions \ {s} : Sound(t)'
    BY <1>6, SessionStep DEF TInv, Sound, Underway
  <2> QED BY <1>6, <2>1, SessionStep DEF TInv, TypeOK, Progress
<1>7. CASE InjectorThread
  <2>1. injector' \in Injecting /\ (injector'.pc = "asking" => injector'.id > 0)
    <3>1. CASE Inject
      BY <1>1, <3>1 DEF Inject, Injector, Injecting
    <3>2. CASE InjectAnswered \/ InjectFailed
      BY <1>1, <3>2 DEF InjectAnswered, InjectFailed, Injector, Injecting
    <3> QED BY <1>7, <3>1, <3>2 DEF InjectorThread
  <2>2. all_results' \subseteq Rows
    <3>1. CASE InjectAnswered
      BY <1>1, <3>1 DEF InjectAnswered, Injected, Injecting, TInv, TypeOK, Rows
    <3> QED BY <1>7, <3>1 DEF InjectorThread, Inject, InjectFailed, TInv, TypeOK
  <2>3. UNCHANGED <<mainVars, session, stop_event>>
    BY <1>7 DEF InjectorThread, Inject, InjectAnswered, InjectFailed, Injector
  <2> QED BY <2>1, <2>2, <2>3 DEF TInv, TypeOK, Sound, Underway, Injecting
<1>8. CASE Wait \/ Complete \/ Leave
  BY <1>8 DEF Wait, Complete, OutOfFutures, Leave, TInv, TypeOK, Sound, Underway
<1>9. CASE PrintTable \/ PrintSummary
  <2>1. ChatRows \subseteq Rows /\ InjectRows \subseteq Rows /\ all_results \subseteq Rows
    BY DEF ChatRows, InjectRows, TInv, TypeOK
  <2>2. printed' \in [rows : SUBSET Rows, chat : SUBSET Rows, inject : SUBSET Rows]
    BY <1>9, <2>1 DEF PrintTable, PrintSummary, TInv, TypeOK
  <2> QED BY <1>9, <2>2 DEF PrintTable, PrintSummary, TInv, TypeOK, Sound, Underway
<1>10. ASSUME NEW s \in Sessions, Collect(s) \/ CollectRaises(s) PROVE TInv'
  <2>1. Returned(s) \subseteq Rows
    BY <1>1 DEF Returned, Progress, Sessions, Rows
  <2> QED BY <1>10, <2>1 DEF Collect, CollectRaises, TInv, TypeOK, Sound, Underway
<1>11. CASE Replace
  <2>1. session_counter' \in Sessions /\ session_counter' \in concurrency' .. MaxSessions
    BY <1>1, <1>11 DEF Replace, TInv, TypeOK, Sessions
  <2>2. session' \in [Sessions -> Progress] /\ \A s \in Sessions : Sound(s)'
    BY <1>1, <1>11, <2>1 DEF Replace, Submitted, Progress, TInv, Sound, Underway
  <2> QED BY <1>11, <2>1, <2>2 DEF Replace, TInv, TypeOK, Progress
<1> QED BY <1>2, <1>3, <1>4, <1>5, <1>6, <1>7, <1>8, <1>9, <1>10, <1>11,
        InterruptStops DEF Step, Next, Main

\* The types hold of every generator, for any concurrency and responses.
THEOREM GeneratorTypes == Spec \/ RampSpec => []TypeOK
<1>1. TInv => TypeOK
  BY DEF TInv
<1>2. [Next]_vars => Step
  BY DEF Step
<1> DEFINE Indexed == stage \in Nat
<1>3. TInv /\ Indexed /\ [RampNext]_rampVars => TInv' /\ Indexed'
  BY RampSteps, NextTInv
<1>7. RampInit => TInv /\ Indexed
  BY InitTInv, RampStarts
<1> HIDE DEF Indexed
<1>4. TInv /\ [Next]_vars => TInv'
  BY <1>2, NextTInv
<1>5. Spec => []TypeOK
  BY <1>1, <1>4, InitTInv, PTL DEF Spec
<1>6. RampSpec => []TypeOK
  BY <1>1, <1>3, <1>7, PTL DEF RampSpec
<1> QED BY <1>5, <1>6

-----------------------------------------------------------------------------
(* Where each future is.  While the main thread loops, a session that has   *)
(* been created is waited for, finished and not collected, or collected;    *)
(* rows of the report are those of the collected ones.                      *)

Created == 1 .. session_counter
Placed ==
    /\ active \cap done = {} /\ active \cup done \subseteq Created
    /\ main = "wait" => done = {}
    /\ main = "replace" => continuous
    /\ main = "collect" /\ ~continuous => \A s, t \in done : s = t
    /\ \A s \in Sessions :
          /\ s \in done => Finished(s)
          /\ s \notin Created => session[s].pc = "none"
          /\ s \in Created => s \in active \/ Finished(s)
Uncollected ==
    /\ \A row \in all_results : row[1] <= session_counter
    /\ \A s \in active \cup done : \A row \in all_results : row[1] # s
Loaded == continuous => IsFiniteSet(Live) /\ Cardinality(Live) = concurrency
PInv ==
    /\ TInv
    /\ main \in Looping => Placed /\ Uncollected /\ Loaded

LEMMA InitPInv == Init => PInv
<1> SUFFICES ASSUME Init PROVE PInv
  OBVIOUS
<1>1. concurrency \in Nat \ {0} /\ Live = 1 .. concurrency
  BY LoadTestAssumption DEF Init, Live
<1>2. Loaded
  BY <1>1, FS_Interval DEF Loaded
<1>3. Placed
  BY <1>1 DEF Init, Placed, Created, Finished, FirstSessions, NotCreated, Submitted, Sessions
<1>4. Uncollected
  BY DEF Init, Uncollected
<1> QED BY <1>2, <1>3, <1>4, InitTInv DEF PInv

\* A new session joins the pool in the same step in which one leaves it.
LEMMA LiveTurnsOver ==
    ASSUME PInv, NEW s \in Sessions, Collect(s)
    PROVE  /\ s \in Live /\ s \in Created
           /\ Live' = (Live \ {s}) \cup (IF continuous THEN {session_counter + 1} ELSE {})
           /\ Live \subseteq Created
<1>1. /\ main = "collect" /\ s \in done /\ done' = done \ {s} /\ UNCHANGED <<active, session_counter>>
      /\ main' = (IF continuous THEN "replace" ELSE "wait")
  BY DEF Collect
<1>2. Live = active \cup done /\ Live \subseteq Created
  BY <1>1 DEF PInv, Live, Placed
<1>3. s \notin active
  BY <1>1 DEF PInv, Placed
<1>4. Live' = active \cup (done \ {s}) \cup (IF continuous THEN {session_counter + 1} ELSE {})
  BY <1>1 DEF Live
<1> QED BY <1>1, <1>2, <1>3, <1>4

\* Every other step leaves the pool as it is, or closes it, or is a start.
LEMMA LiveStays ==
    ASSUME PInv, Step, ~Init', \A s \in Sessions : ~Collect(s)
    PROVE  Live' = Live \/ (main' \notin Looping /\ Live' = {})
<1>1. CASE UNCHANGED vars
  BY <1>1 DEF vars, Live
<1>2. CASE Killed \/ Stop \/ Complete \/ Leave \/ PrintTable \/ PrintSummary
  BY <1>2 DEF Killed, Stop, Interrupted, Complete, Leave, PrintTable, PrintSummary, Live
<1>3. CASE InjectorThread
  BY <1>3 DEF InjectorThread, Inject, InjectAnswered, InjectFailed, Injector, Live
<1>4. ASSUME NEW s \in Sessions, Session(s) PROVE Live' = Live
  BY <1>4, SessionStep DEF PInv, Live
<1>5. ASSUME NEW s \in Sessions, CollectRaises(s) PROVE main' \notin Looping /\ Live' = {}
  BY <1>5 DEF CollectRaises, Live
<1>6. CASE Wait
  <2>1. /\ main = "wait" /\ main' = "collect" /\ done' \subseteq active
        /\ active' = active \ done' /\ done = {}
    <3>1. done' \in (IF continuous THEN {{s \in active : Finished(s)}}
                     ELSE {{s} : s \in {t \in active : Finished(t)}})
      BY <1>6 DEF Wait
    <3>2. done' \subseteq active
      BY <3>1
    <3> QED BY <1>6, <3>2 DEF Wait, PInv, Placed
  <2> QED BY <2>1 DEF Live
<1>7. CASE Replace
  <2>1. /\ main = "replace" /\ main' \in {"wait", "collect"} /\ done' = done
        /\ active' = active \cup {session_counter + 1}
    BY <1>7 DEF Replace
  <2> QED BY <2>1 DEF Live
<1> QED BY <1>1, <1>2, <1>3, <1>4, <1>5, <1>6, <1>7, InterruptStops DEF Step, Next, Main

LEMMA LoadedStep == PInv /\ Step /\ main' \in Looping => Loaded'
<1> SUFFICES ASSUME PInv, Step, main' \in Looping, continuous' PROVE IsFiniteSet(Live)' /\ (Cardinality(Live) = concurrency)'
  BY DEF Loaded
<1>1. CASE Init'
  <2>1. PInv'
    BY <1>1, InitPInv, PTL
  <2> QED BY <2>1 DEF PInv, Loaded
<1>2. ASSUME ~Init' PROVE UNCHANGED options /\ main \in Looping
  BY <1>2, SessionStep, InterruptStops
  DEF Step, Next, Main, Wait, Collect, CollectRaises, Replace, Stop, Interrupted, Complete, Leave,
      PrintTable, PrintSummary, InjectorThread, Inject, InjectAnswered, InjectFailed, Injector,
      Killed, vars, PInv
<1>3. ASSUME ~Init' PROVE IsFiniteSet(Live) /\ Cardinality(Live) = concurrency /\ concurrency \in Nat \ {0}
  BY <1>2, <1>3, LoadTestAssumption DEF PInv, Loaded, TInv, TypeOK
<1>4. ASSUME NEW s \in Sessions, Collect(s), ~Init' PROVE IsFiniteSet(Live') /\ Cardinality(Live') = concurrency'
  <2>1. /\ s \in Live /\ Live \subseteq Created
        /\ Live' = (Live \ {s}) \cup {session_counter + 1}
    BY <1>2, <1>4, LiveTurnsOver
  <2>2. session_counter \in Nat
    BY LoadTestAssumption DEF PInv, TInv, TypeOK
  <2>3. session_counter + 1 \notin Live \ {s}
    BY <2>1, <2>2 DEF Created
  <2>4. IsFiniteSet(Live \ {s}) /\ Cardinality(Live \ {s}) = concurrency - 1
    <3>1. IsFiniteSet(Live) /\ Cardinality(Live) = concurrency
      BY <1>3, <1>4
    <3> QED BY <2>1, <3>1, FS_RemoveElement
  <2>5. IsFiniteSet((Live \ {s}) \cup {session_counter + 1})
        /\ Cardinality((Live \ {s}) \cup {session_counter + 1}) = concurrency
    <3>1. concurrency - 1 + 1 = concurrency
      BY <1>3, <1>4
    <3> QED BY <2>3, <2>4, <3>1, FS_AddElement
  <2> QED BY <1>2, <1>4, <2>1, <2>5
<1>5. ASSUME ~Init', \A s \in Sessions : ~Collect(s) PROVE Live' = Live
  BY <1>5, LiveStays
<1> QED BY <1>1, <1>2, <1>3, <1>4, <1>5

LEMMA PlacedStep == PInv /\ Step /\ main' \in Looping => Placed'
<1> SUFFICES ASSUME PInv, Step, main' \in Looping PROVE Placed'
  OBVIOUS
<1>1. /\ session_counter \in Nat /\ session_counter <= MaxSessions /\ MaxSessions \in Nat
      /\ session \in [Sessions -> Progress] /\ concurrency \in Nat
  BY LoadTestAssumption DEF PInv, TInv, TypeOK, Progress
<1>2. CASE Init'
  <2>1. PInv'
    BY <1>2, InitPInv, PTL
  <2> QED BY <2>1 DEF PInv
<1>3. CASE UNCHANGED vars
  BY <1>3 DEF vars, PInv, Placed, Created, Finished
<1>4. CASE Killed \/ Stop \/ Complete \/ Leave \/ PrintTable \/ PrintSummary
  BY <1>4 DEF Killed, Stop, Interrupted, Complete, Leave, PrintTable, PrintSummary
<1>5. CASE InjectorThread
  BY <1>5 DEF InjectorThread, Inject, InjectAnswered, InjectFailed, Injector, PInv, Placed, Created,
              Finished
<1>6. ASSUME NEW s \in Sessions, Session(s) PROVE Placed'
  <2>1. /\ UNCHANGED <<continuous, main, active, done, session_counter>> /\ Placed
        /\ \A t \in Sessions \ {s} : session'[t] = session[t]
    BY <1>6, SessionStep DEF PInv
  <2>2. Underway(s)
    BY <1>6, SessionStep DEF PInv
  <2>3. session[s].pc # "none" /\ ~Finished(s)
    BY <2>2 DEF Underway, Finished
  <2> QED BY <2>1, <2>3 DEF Placed, Created, Finished
<1>7. ASSUME NEW s \in Sessions, CollectRaises(s) PROVE FALSE
  BY <1>7 DEF CollectRaises
<1>8. ASSUME NEW s \in Sessions, Collect(s) PROVE Placed'
  <2>1. /\ done' = done \ {s} /\ UNCHANGED <<continuous, active, session, session_counter>>
        /\ main = "collect" /\ s \in done
        /\ main' = (IF continuous THEN "replace" ELSE "wait")
    BY <1>8 DEF Collect
  <2>2. Placed /\ Finished(s)
    BY <2>1, <1>8 DEF PInv, Placed
  <2>3. main' = "wait" => done' = {}
    BY <2>1, <1>8 DEF PInv, Placed
  <2> QED BY <2>1, <2>2, <2>3 DEF Placed, Created, Finished
<1>9. CASE Wait
  <2>1. /\ main = "wait" /\ main' = "collect" /\ UNCHANGED <<continuous, session, session_counter>>
        /\ active' = active \ done'
        /\ done' \in (IF continuous THEN {{s \in active : Finished(s)}}
                     ELSE {{s} : s \in {t \in active : Finished(t)}})
    BY <1>9 DEF Wait
  <2>2. done' \subseteq active /\ \A s \in done' : Finished(s)
    BY <2>1
  <2>3. ~continuous => \A s, t \in done' : s = t
    BY <2>1
  <2> QED BY <2>1, <2>2, <2>3 DEF PInv, Placed, Created, Finished
<1>10. CASE Replace
  <2>1. /\ main = "replace" /\ session_counter < MaxSessions /\ done' = done
        /\ session_counter' = session_counter + 1
        /\ active' = active \cup {session_counter + 1}
        /\ session' = [session EXCEPT ![session_counter + 1] = Submitted]
        /\ main' \in {"wait", "collect"} /\ (main' = "wait" => done = {})
        /\ UNCHANGED continuous
    BY <1>10 DEF Replace
  <2>2. Created' = Created \cup {session_counter + 1} /\ session_counter + 1 \notin Created
    BY <1>1, <2>1 DEF Created
  <2>3. Placed
    BY <2>1 DEF PInv
  <2>4. session_counter + 1 \in Sessions
    BY <1>1, <2>1 DEF Sessions
  <2>5. \A s \in Sessions \ {session_counter + 1} : session'[s] = session[s]
    BY <1>1, <2>1
  <2>6. active' \cap done' = {} /\ (active \cup done)' \subseteq Created'
    BY <2>1, <2>2, <2>3 DEF Placed
  <2>7. \A s \in Sessions : s \in done' => Finished(s)'
    BY <2>1, <2>2, <2>3, <2>5 DEF Placed, Finished
  <2>8. \A s \in Sessions : s \notin Created' => session'[s].pc = "none"
    BY <2>2, <2>3, <2>5 DEF Placed
  <2>9. \A s \in Sessions : s \in Created' => s \in active' \/ Finished(s)'
    BY <2>1, <2>2, <2>3, <2>5 DEF Placed, Finished
  <2>10. continuous
    BY <2>1, <2>3 DEF Placed
  <2> QED BY <2>1, <2>6, <2>7, <2>8, <2>9, <2>10 DEF Placed
<1> QED BY <1>2, <1>3, <1>4, <1>5, <1>6, <1>7, <1>8, <1>9, <1>10, InterruptStops DEF Step, Next, Main

LEMMA UncollectedStep == PInv /\ Step /\ main' \in Looping => Uncollected'
<1> SUFFICES ASSUME PInv, Step, main' \in Looping PROVE Uncollected'
  OBVIOUS
<1>1. session_counter \in Nat /\ \A row \in all_results : row[1] \in Int
  BY LoadTestAssumption DEF PInv, TInv, TypeOK, Rows
<1>2. CASE Init'
  <2>1. PInv'
    BY <1>2, InitPInv, PTL
  <2> QED BY <2>1 DEF PInv
<1>3. ASSUME ~Init' PROVE main \in Looping
  BY <1>3, SessionStep, InterruptStops
  DEF Step, Next, Main, Wait, Collect, CollectRaises, Replace, Stop, Interrupted, Complete, Leave,
      PrintTable, PrintSummary, InjectorThread, Inject, InjectAnswered, InjectFailed, Injector,
      Killed, vars, PInv
<1>4. ASSUME ~Init' PROVE Placed /\ Uncollected
  BY <1>3, <1>4 DEF PInv
<1>5. ASSUME ~Init', UNCHANGED <<all_results, session_counter>>,
             active' \cup done' \subseteq active \cup done
      PROVE  Uncollected'
  BY <1>4, <1>5 DEF Uncollected
<1>6. CASE \/ UNCHANGED vars \/ Killed \/ Stop \/ Complete \/ Leave \/ PrintTable \/ PrintSummary
  BY <1>2, <1>5, <1>6 DEF vars, Killed, Stop, Interrupted, Complete, Leave, PrintTable, PrintSummary
<1>7. ASSUME NEW s \in Sessions, Session(s) PROVE Uncollected'
  BY <1>2, <1>5, <1>7, SessionStep DEF PInv
<1>8. CASE Inject \/ InjectFailed
  BY <1>2, <1>5, <1>8 DEF Inject, InjectFailed, Injector
<1>9. ASSUME InjectAnswered, ~Init' PROVE Uncollected'
  <2>1. /\ UNCHANGED <<active, done, session_counter>> /\ injector.id \in Nat /\ injector.id > 0
        /\ all_results' = all_results \cup {<<-injector.id, 1>>}
    BY <1>9 DEF InjectAnswered, Injector, Injected, PInv, TInv, TypeOK
  <2>2. \A s \in active \cup done : s \in Nat
    BY <1>1, <1>4, <1>9 DEF Placed, Created
  <2> QED BY <1>1, <1>4, <1>9, <2>1, <2>2 DEF Uncollected
<1>10. ASSUME NEW s \in Sessions, Collect(s) \/ CollectRaises(s), ~Init' PROVE Uncollected'
  <2>1. /\ done' = done \ {s} /\ UNCHANGED <<active, session_counter>> /\ s \in done
        /\ all_results' = all_results \cup Returned(s)
    BY <1>10 DEF Collect, CollectRaises
  <2>2. \A row \in Returned(s) : row[1] = s
    BY DEF Returned
  <2>3. s \in Created /\ s \notin active
    BY <1>4, <1>10, <2>1 DEF Placed
  <2> QED BY <1>1, <1>4, <1>10, <2>1, <2>2, <2>3 DEF Uncollected, Created
<1>11. ASSUME Wait, ~Init' PROVE Uncollected'
  <2>1. /\ active' = active \ done' /\ UNCHANGED <<all_results, session_counter>>
        /\ done' \in (IF continuous THEN {{s \in active : Finished(s)}}
                     ELSE {{s} : s \in {t \in active : Finished(t)}})
    BY <1>11 DEF Wait
  <2>2. done' \subseteq active
    BY <2>1
  <2> QED BY <1>5, <1>11, <2>1, <2>2
<1>12. ASSUME Replace, ~Init' PROVE Uncollected'
  <2>1. /\ UNCHANGED <<all_results, done>> /\ session_counter' = session_counter + 1
        /\ active' = active \cup {session_counter + 1}
    BY <1>12 DEF Replace
  <2> QED BY <1>1, <1>4, <1>12, <2>1 DEF Uncollected
<1> QED BY <1>2, <1>6, <1>7, <1>8, <1>9, <1>10, <1>11, <1>12, InterruptStops
        DEF Step, Next, Main, InjectorThread

LEMMA NextPInv == PInv /\ Step => PInv'
  BY NextTInv, PlacedStep, UncollectedStep, LoadedStep DEF PInv

LEMMA PInvHolds == Spec \/ RampSpec => []PInv /\ [][Step]_vars
<1> DEFINE Indexed == stage \in Nat
<1>1. PInv /\ Indexed /\ [RampNext]_rampVars => PInv' /\ Indexed' /\ [Step]_vars
  BY RampSteps, NextPInv
<1>2. RampInit => PInv /\ Indexed
  BY InitPInv, RampStarts
<1>3. PInv /\ [Next]_vars => PInv' /\ [Step]_vars
  BY NextPInv DEF Step
<1> HIDE DEF Indexed
<1>4. Spec => []PInv /\ [][Step]_vars
  BY <1>3, InitPInv, PTL DEF Spec
<1>5. RampSpec => []PInv /\ [][Step]_vars
  BY <1>1, <1>2, PTL DEF RampSpec
<1> QED BY <1>4, <1>5

\* In continuous mode the main thread always waits for as many sessions as
\* were asked for, and no session is running that it would not collect.
THEOREM LoadIsSteady == Spec \/ RampSpec => []SteadyLoad
<1>1. PInv => SteadyLoad
  <2> SUFFICES ASSUME PInv, main \in Looping PROVE SteadyLoad
    BY DEF SteadyLoad
  <2>1. ASSUME main = "wait" PROVE Live = active
    BY <2>1 DEF PInv, Placed, Live
  <2>2. ASSUME NEW s \in Sessions, ~(session[s].pc = "none" \/ Finished(s)) PROVE s \in active
    BY <2>2 DEF PInv, Placed
  <2> QED BY <2>1, <2>2 DEF PInv, Loaded, SteadyLoad
<1> QED BY <1>1, PInvHolds, PTL

\* No result is counted twice, although the sets of futures change while the
\* main thread goes through them.
THEOREM ResultsOnce == Spec \/ RampSpec => EachResultOnce
<1>1. PInv => \A s \in Sessions : Collect(s) => Returned(s) \cap all_results = {}
  BY DEF PInv, Collect, Uncollected, Returned
<1> QED BY <1>1, PInvHolds, PTL DEF EachResultOnce

-----------------------------------------------------------------------------
(* WindsDown.  The stop event is only ever set outside of the loop.          *)

\* The step of a session after the stop event has been set.
LEMMA SessionWindsDown ==
  ASSUME TInv, stop_event, NEW s \in Sessions, Session(s)
  PROVE  /\ SessionLeft(s)' < SessionLeft(s)
         /\ \A t \in Sessions : SessionLeft(t)' <= SessionLeft(t)
<1>1. session \in [Sessions -> Progress]
  BY DEF TInv, TypeOK, Progress
<1>2. SessionLeft(s)' < SessionLeft(s)
  <2>1. CASE StartSession(s) \/ NextTurn(s)
    <3>1. session[s].pc \in {"pending", "thinking"} /\ session'[s].pc = "asking"
      BY <1>1, <2>1 DEF StartSession, NextTurn, Worker, Progress
    <3> QED BY <3>1 DEF SessionLeft
  <2>2. CASE Answered(s) \/ RequestFailed(s) \/ RequestHangs(s)
    <3>1. session[s].pc = "asking" /\ session'[s].pc \in {"done", "failed", "hung"}
      <4>1. CASE Answered(s)
        <5>1. session' = [session EXCEPT ![s] = [pc |-> "done", turns |-> session[s].turns + 1]]
          BY <4>1 DEF Answered, Worker
        <5> QED BY <1>1, <4>1, <5>1 DEF Answered
      <4>2. CASE RequestFailed(s) \/ RequestHangs(s)
        BY <1>1, <4>2 DEF RequestFailed, RequestHangs, Worker, Progress
      <4> QED BY <2>2, <4>1, <4>2
    <3> QED BY <3>1 DEF SessionLeft
  <2> QED BY <2>1, <2>2 DEF Session
<1>3. ASSUME NEW t \in Sessions \ {s} PROVE SessionLeft(t)' = SessionLeft(t)
  BY <1>3, SessionStep DEF SessionLeft
<1>4. \A t \in Sessions : SessionLeft(t) \in 0 .. 2 /\ SessionLeft(t)' \in 0 .. 2
  BY DEF SessionLeft
<1>5. ASSUME NEW t \in Sessions PROVE SessionLeft(t)' <= SessionLeft(t)
  <2>1. CASE t = s
    BY <1>2, <1>4, <2>1
  <2>2. CASE t # s
    BY <1>3, <1>4, <2>2
  <2> QED BY <2>1, <2>2
<1> QED BY <1>2, <1>5

LEMMA WindingStep ==
  ASSUME TInv, Step, stop_event, stop_event', vars' # vars
  PROVE  /\ \A s \in Sessions : SessionLeft(s)' <= SessionLeft(s)
         /\ InjectorLeft' <= InjectorLeft /\ MainLeft' <= MainLeft
         /\ \/ \E s \in Sessions : SessionLeft(s)' < SessionLeft(s)
            \/ InjectorLeft' < InjectorLeft \/ MainLeft' < MainLeft
<1>1. main \notin Looping
  BY DEF TInv
<1>2. /\ \A s \in Sessions : SessionLeft(s) \in 0 .. 2
      /\ InjectorLeft \in 0 .. 2 /\ MainLeft \in 0 .. 4 /\ MainLeft' \in 0 .. 4
  BY DEF SessionLeft, InjectorLeft, MainLeft
<1>3. ASSUME session' = session, injector' = injector, MainLeft' < MainLeft
      PROVE  /\ \A s \in Sessions : SessionLeft(s)' <= SessionLeft(s)
             /\ InjectorLeft' <= InjectorLeft /\ MainLeft' <= MainLeft
             /\ MainLeft' < MainLeft
  <2>1. InjectorLeft' = InjectorLeft /\ \A s \in Sessions : SessionLeft(s)' = SessionLeft(s)
    BY <1>3 DEF SessionLeft, InjectorLeft
  <2> QED BY <1>2, <1>3, <2>1
<1>4. CASE Leave \/ PrintTable \/ PrintSummary
  <2>1. MainLeft' < MainLeft
    BY <1>4 DEF Leave, PrintTable, PrintSummary, MainLeft
  <2> QED BY <1>3, <1>4, <2>1 DEF Leave, PrintTable, PrintSummary
<1>5. CASE Killed
  <2>1. MainLeft' < MainLeft
    BY <1>1, <1>5 DEF Killed, MainLeft, TInv, TypeOK
  <2> QED BY <1>3, <1>5, <2>1 DEF Killed
<1>6. CASE InjectorThread
  <2>1. InjectorLeft' < InjectorLeft
    BY <1>6 DEF InjectorThread, Inject, InjectAnswered, InjectFailed, Injector, InjectorLeft, TInv,
       TypeOK
  <2>2. session' = session /\ main' = main
    BY <1>6 DEF InjectorThread, Inject, InjectAnswered, InjectFailed, Injector
  <2>3. MainLeft' = MainLeft /\ \A s \in Sessions : SessionLeft(s)' = SessionLeft(s)
    BY <2>2 DEF SessionLeft, MainLeft
  <2>4. InjectorLeft' \in 0 .. 2
    BY DEF InjectorLeft
  <2> QED BY <1>2, <2>1, <2>3, <2>4
<1>7. ASSUME NEW s \in Sessions, Session(s)
      PROVE  /\ \A t \in Sessions : SessionLeft(t)' <= SessionLeft(t)
             /\ InjectorLeft' <= InjectorLeft /\ MainLeft' <= MainLeft
             /\ SessionLeft(s)' < SessionLeft(s)
  <2>1. injector' = injector /\ main' = main
    BY <1>7, SessionStep
  <2> QED BY <1>2, <1>7, <2>1, SessionWindsDown DEF InjectorLeft, MainLeft
<1>8. ~Init'
  BY DEF Init
<1>9. ~Stop /\ ~Wait /\ ~Replace /\ ~Complete
      /\ \A s \in Sessions : ~Collect(s) /\ ~CollectRaises(s)
  BY <1>1 DEF Stop, Wait, Replace, Complete, OutOfFutures, Collect, CollectRaises
<1> QED BY <1>4, <1>5, <1>6, <1>7, <1>8, <1>9, InterruptStops DEF Step, Next, Main

\* After ctrl-C every step of any thread brings the run closer to its end.
THEOREM WindingDown == Spec \/ RampSpec => WindsDown
<1> DEFINE A == stop_event /\ stop_event' =>
                  /\ \A s \in Sessions : SessionLeft(s)' <= SessionLeft(s)
                  /\ InjectorLeft' <= InjectorLeft /\ MainLeft' <= MainLeft
                  /\ \/ \E s \in Sessions : SessionLeft(s)' < SessionLeft(s)
                     \/ InjectorLeft' < InjectorLeft \/ MainLeft' < MainLeft
<1>1. PInv /\ [Step]_vars => [A]_vars
  BY WindingStep DEF PInv
<1> QED BY <1>1, PInvHolds, PTL DEF WindsDown

-----------------------------------------------------------------------------
(* CompleteReport.  Every session of a run that was not continuous is at    *)
(* work, or all of its turns are in all_results, and once printed stay so.  *)

Full(s) == \A t \in 1 .. Turns : <<s, t>> \in all_results
CInv ==
    /\ PInv
    /\ main \in Looping => /\ concurrency <= session_counter
                          /\ \A s \in 1 .. concurrency : s \in active \cup done \/ Full(s)
    /\ how = "completed" => \A s \in 1 .. concurrency : Full(s)
    /\ CompleteReport

LEMMA InitCInv == Init => CInv
<1> SUFFICES ASSUME Init PROVE CInv
  OBVIOUS
<1>1. concurrency \in Nat \ {0}
  BY LoadTestAssumption DEF Init
<1> QED BY <1>1, InitPInv DEF Init, CInv, CompleteReport

LEMMA NextCInv == CInv /\ Step => CInv'
<1> SUFFICES ASSUME CInv, Step PROVE CInv'
  OBVIOUS
<1> DEFINE Working == main \in Looping => /\ concurrency <= session_counter
                                         /\ \A s \in 1 .. concurrency : s \in active \cup done \/ Full(s)
           Counted == how = "completed" => \A s \in 1 .. concurrency : Full(s)
           Goal == Working' /\ Counted' /\ CompleteReport'
<1>1. PInv'
  BY NextPInv DEF CInv
<1>2. concurrency \in Nat \ {0} /\ session_counter \in Nat /\ Turns \in Nat \ {0}
  BY LoadTestAssumption DEF CInv, PInv, TInv, TypeOK
<1>3. main \in Looping => how = "running"
  BY DEF CInv, PInv, TInv
<1>4. ASSUME UNCHANGED <<concurrency, main, how, active, done, session_counter, printed>>,
             all_results \subseteq all_results'
      PROVE  Goal
  BY <1>4 DEF CInv, Full, CompleteReport
<1>5. ASSUME Init' PROVE Goal
  <2>1. CInv'
    BY <1>5, InitCInv, PTL
  <2> QED BY <2>1 DEF CInv
<1>6. ASSUME UNCHANGED vars PROVE Goal
  BY <1>4, <1>6 DEF vars
<1>7. ASSUME NEW s \in Sessions, Session(s) PROVE Goal
  BY <1>4, <1>7, SessionStep DEF CInv, PInv
<1>8. ASSUME InjectorThread PROVE Goal
  BY <1>4, <1>8 DEF InjectorThread, Inject, InjectAnswered, InjectFailed, Injector
<1>9. ASSUME Killed \/ Leave PROVE Goal
  BY <1>9 DEF Killed, Leave, CInv, Full, CompleteReport
<1>10. ASSUME Stop PROVE Goal
  BY <1>10 DEF Stop, Interrupted, CInv, CompleteReport
<1>11. ASSUME NEW s \in Sessions, CollectRaises(s) PROVE Goal
  BY <1>11 DEF CollectRaises, CInv, CompleteReport
<1>12. ASSUME NEW s \in Sessions, Collect(s) PROVE Goal
  <2>1. session[s].turns = Turns
    BY <1>12 DEF Collect, CInv, PInv, TInv, Sound
  <2>2. /\ main \in Looping /\ main' \in Looping /\ done' = done \ {s} /\ how' = "running"
        /\ UNCHANGED <<concurrency, active, session_counter>>
        /\ all_results' = all_results \cup {<<s, t>> : t \in 1 .. Turns}
    BY <1>3, <1>12, <2>1 DEF Collect, Returned
  <2>3. Full(s)' /\ \A t \in Sessions : Full(t) => Full(t)'
    BY <2>2 DEF Full
  <2>4. \A t \in 1 .. concurrency : Full(t) => Full(t)'
    BY <2>2 DEF Full
  <2> QED BY <2>2, <2>3, <2>4 DEF CInv, CompleteReport
<1>13. ASSUME Wait PROVE Goal
  <2>1. /\ active' = active \ done' /\ main' = "collect" /\ main = "wait"
        /\ UNCHANGED <<concurrency, how, session_counter, all_results>>
    BY <1>13 DEF Wait
  <2>2. done = {}
    BY <2>1 DEF CInv, PInv, Placed
  <2> QED BY <1>3, <2>1, <2>2 DEF CInv, Full, CompleteReport
<1>14. ASSUME Replace PROVE Goal
  <2>1. /\ active \subseteq active' /\ main' \in Looping /\ main = "replace"
        /\ session_counter' = session_counter + 1
        /\ UNCHANGED <<concurrency, how, done, all_results>>
    BY <1>14 DEF Replace
  <2> QED BY <1>2, <1>3, <2>1 DEF CInv, Full, CompleteReport
<1>15. ASSUME Complete PROVE Goal
  <2>1. /\ active = {} /\ main = "wait" /\ main' = "leave"
        /\ UNCHANGED <<concurrency, all_results>>
    BY <1>15 DEF Complete, OutOfFutures
  <2>2. done = {}
    BY <2>1 DEF CInv, PInv, Placed
  <2> QED BY <2>1, <2>2 DEF CInv, Full, CompleteReport
<1>16. ASSUME PrintTable PROVE Goal
  <2>1. /\ main' = (IF all_results = {} THEN "ended" ELSE "summary")
        /\ UNCHANGED <<concurrency, how, all_results>>
    BY <1>16 DEF PrintTable
  <2>2. ASSUME how = "completed" PROVE all_results # {}
    <3>1. Full(1)
      BY <1>2, <2>2 DEF CInv
    <3>2. <<1, 1>> \in all_results
      BY <1>2, <3>1 DEF Full
    <3> QED BY <3>2
  <2> QED BY <2>1, <2>2 DEF CInv, Full, CompleteReport
<1>17. ASSUME PrintSummary PROVE Goal
  <2>1. /\ UNCHANGED <<concurrency, how, all_results>> /\ main' \in {"crashed", "ended"}
        /\ main' = "ended" => printed'.chat = ChatRows
    BY <1>17 DEF PrintSummary, CInv, PInv, TInv, TypeOK
  <2>2. how = "completed" => \A s \in 1 .. concurrency : \A t \in 1 .. Turns : <<s, t>> \in ChatRows
    <3> SUFFICES ASSUME how = "completed", NEW s \in 1 .. concurrency, NEW t \in 1 .. Turns
                 PROVE  <<s, t>> \in ChatRows
      OBVIOUS
    <3>1. <<s, t>> \in all_results
      BY DEF CInv, Full
    <3>2. s > 0
      BY <1>2
    <3> QED BY <3>1, <3>2 DEF ChatRows
  <2> QED BY <2>1, <2>2 DEF CInv, Full, CompleteReport
<1>18. Goal
  BY <1>5, <1>6, <1>7, <1>8, <1>9, <1>10, <1>11, <1>12, <1>13, <1>14, <1>15, <1>16, <1>17,
     InterruptStops DEF Step, Next, Main
<1> QED BY <1>1, <1>18 DEF CInv

\* A run that ends by itself reports every turn of every session.
THEOREM ReportsComplete == Spec \/ RampSpec => []CompleteReport
<1> DEFINE Indexed == stage \in Nat
<1>1. CInv /\ Indexed /\ [RampNext]_rampVars => CInv' /\ Indexed'
  BY RampSteps, NextCInv
<1>2. RampInit => CInv /\ Indexed
  BY InitCInv, RampStarts
<1>3. CInv /\ [Next]_vars => CInv'
  BY NextCInv DEF Step
<1>4. CInv => CompleteReport
  BY DEF CInv
<1> HIDE DEF Indexed
<1>5. Spec => []CompleteReport
  BY <1>3, <1>4, InitCInv, PTL DEF Spec
<1>6. RampSpec => []CompleteReport
  BY <1>1, <1>2, <1>4, PTL DEF RampSpec
<1> QED BY <1>5, <1>6

-----------------------------------------------------------------------------
(* ImplementsPool.  Live is the pool; what is missing is that every         *)
(* injection makes a row of its own.                                        *)

Numbered ==
    \A row \in all_results : row[1] < 0 => /\ -row[1] <= injector.id
                                           /\ injector.pc = "asking" => -row[1] < injector.id
JInv == PInv /\ Numbered

LEMMA InitJInv == Init => JInv
  BY InitPInv DEF JInv, Numbered, Init

LEMMA NextJInv == JInv /\ Step => JInv'
<1> SUFFICES ASSUME JInv, Step PROVE JInv'
  OBVIOUS
<1>1. PInv'
  BY NextPInv DEF JInv
<1>2. injector \in Injecting /\ MaxInjects \in Nat /\ \A row \in all_results : row[1] \in Int
  BY LoadTestAssumption DEF JInv, PInv, TInv, TypeOK, Injecting, Rows
<1>3. ASSUME Init' PROVE Numbered'
  <2>1. JInv'
    BY <1>3, InitJInv, PTL
  <2> QED BY <2>1 DEF JInv
<1>4. ASSUME UNCHANGED <<injector, all_results>> PROVE Numbered'
  BY <1>4 DEF JInv, Numbered
<1>5. ASSUME \/ UNCHANGED vars \/ Killed \/ Stop \/ Wait \/ Replace \/ Complete \/ Leave
             \/ PrintTable \/ PrintSummary \/ \E s \in Sessions : CollectRaises(s) \/ Session(s)
      PROVE  Numbered'
  BY <1>4, <1>5, SessionStep
  DEF vars, Killed, Stop, Interrupted, Wait, Replace, Complete, Leave, PrintTable, PrintSummary,
      CollectRaises, JInv, PInv
<1>6. ASSUME NEW s \in Sessions, Collect(s) PROVE Numbered'
  <2>1. all_results' = all_results \cup Returned(s) /\ UNCHANGED injector
    BY <1>6 DEF Collect
  <2>2. s \in Nat /\ s > 0
    BY LoadTestAssumption DEF Sessions
  <2>3. \A row \in all_results' : row[1] < 0 => row \in all_results
    <3>1. ASSUME NEW row \in Returned(s) PROVE ~(row[1] < 0)
      BY <2>2 DEF Returned, Sessions
    <3> QED BY <2>1, <3>1
  <2> QED BY <2>1, <2>3 DEF JInv, Numbered
<1>7. ASSUME Inject PROVE Numbered'
  <2>1. all_results' = all_results
        /\ \/ injector' = [injector EXCEPT !.pc = "none"]
           \/ injector' = [pc |-> "asking", id |-> injector.id + 1]
    BY <1>7 DEF Inject, Injector
  <2> QED BY <1>2, <2>1 DEF JInv, Numbered, Injecting
<1>8. ASSUME InjectAnswered \/ InjectFailed PROVE Numbered'
  <2>1. /\ injector' = [injector EXCEPT !.pc = "sleeping"]
        /\ all_results' \subseteq all_results \cup {<<-injector.id, 1>>}
    BY <1>8 DEF InjectAnswered, InjectFailed, Injector, Injected
  <2>2. injector'.pc = "sleeping" /\ injector'.id = injector.id /\ injector.id \in Int
    BY <1>2, <2>1 DEF Injecting
  <2>3. ASSUME NEW row \in all_results', row[1] < 0 PROVE -row[1] <= injector.id
    <3>1. CASE row \in all_results
      BY <2>3, <3>1 DEF JInv, Numbered
    <3>2. CASE row[1] = -injector.id
      BY <2>2, <3>2
    <3> QED BY <2>1, <3>1, <3>2
  <2> QED BY <2>2, <2>3 DEF Numbered
<1>9. Numbered'
  BY <1>3, <1>5, <1>6, <1>7, <1>8, InterruptStops DEF Step, Next, Main, InjectorThread
<1> QED BY <1>1, <1>9 DEF JInv

LEMMA InitPool == Init => Pool!Init
  BY DEF Init, Live, Pool!Init

LEMMA CollectTurnsOver ==
    ASSUME JInv, NEW s \in Sessions, Collect(s)
    PROVE  Pool!TurnOver(s) /\ s \in Live
<1>1. /\ s \in Live /\ s \in Created /\ Live \subseteq Created
      /\ Live' = (Live \ {s}) \cup (IF continuous THEN {session_counter + 1} ELSE {})
  BY LiveTurnsOver DEF JInv
<1>2. /\ all_results' = all_results \cup Returned(s) /\ UNCHANGED continuous
      /\ s \in done /\ session[s].pc = "done" /\ main = "collect"
  BY <1>1 DEF Collect
<1>3. Returned(s) \cap all_results = {}
  BY <1>2 DEF JInv, PInv, Uncollected, Returned
<1>4. session[s].turns \in 1 .. Turns
  <2>1. session[s] \in Progress /\ Turns \in Nat
    BY LoadTestAssumption DEF JInv, PInv, TInv, TypeOK, Progress
  <2>2. session[s].turns > 0
    BY <1>2 DEF JInv, PInv, TInv, Sound
  <2> QED BY <2>1, <2>2 DEF Progress
<1>5. Pool!Transcripts(s) = {{<<s, t>> : t \in 1 .. n} : n \in 1 .. Turns}
  BY DEF Pool!Transcripts
<1>6. Returned(s) \in Pool!Transcripts(s)
  BY <1>4, <1>5 DEF Returned
<1>7. Pool!Report(Returned(s))
  BY <1>2, <1>3 DEF Pool!Report
<1>8. ASSUME continuous PROVE Pool!IsNew(session_counter + 1)
  <2>1. session_counter \in Nat /\ \A row \in all_results : row[1] \in Int /\ row[1] <= session_counter
    BY <1>2, LoadTestAssumption DEF JInv, PInv, TInv, TypeOK, Uncollected, Rows
  <2>2. \A t \in Live : t \in Int /\ t < session_counter + 1
    BY <1>1, <2>1 DEF Created
  <2>3. \A t \in {row[1] : row \in all_results} : t < session_counter + 1
    BY <2>1
  <2>4. \A t \in Live \cup {row[1] : row \in all_results} : t < session_counter + 1
    BY <2>2, <2>3
  <2> QED BY <2>4 DEF Pool!IsNew
<1>9. CASE continuous
  <2>1. /\ session_counter + 1 \in Live'
        /\ Live' = (Live \ {s}) \cup {session_counter + 1}
    BY <1>1, <1>9
  <2> QED BY <1>1, <1>2, <1>6, <1>7, <1>8, <1>9, <2>1 DEF Pool!TurnOver
<1>10. CASE ~continuous
  <2>1. Live' = Live \ {s}
    BY <1>1, <1>10
  <2> QED BY <1>1, <1>2, <1>6, <1>7, <1>10, <2>1 DEF Pool!TurnOver
<1> QED BY <1>9, <1>10

LEMMA StepRefines == JInv /\ Step => [Pool!Next \/ Pool!Anew]_(Pool!vars)
<1> SUFFICES ASSUME JInv, Step PROVE [Pool!Next \/ Pool!Anew]_(Pool!vars)
  OBVIOUS
<1>1. CASE Init'
  <2>1. Pool!Init'
    BY <1>1, InitPool, PTL
  <2>2. Pool!Anew
    BY <2>1 DEF Pool!Anew, Pool!Init
  <2> QED BY <2>2
<1>2. ASSUME NEW s \in Sessions, Collect(s) PROVE Pool!Next
  BY <1>2, CollectTurnsOver DEF Pool!Next
<1>3. ASSUME ~Init', \A s \in Sessions : ~Collect(s) PROVE Live' = Live \/ Live' = {}
  BY <1>3, LiveStays DEF JInv
<1>4. ASSUME InjectAnswered PROVE Pool!Next
  <2>1. /\ main' = main /\ UNCHANGED <<continuous, active, done, session_counter>>
        /\ all_results' = all_results \cup {<<-injector.id, 1>>}
    BY <1>4 DEF InjectAnswered, Injector, Injected
  <2>2. injector.id \in Nat /\ injector.id > 0
    BY <1>4 DEF InjectAnswered, JInv, PInv, TInv, TypeOK
  <2>3. <<-injector.id, 1>> \notin all_results
    BY <1>4, <2>2 DEF InjectAnswered, JInv, Numbered
  <2>4. Live' = Live
    BY <2>1 DEF Live
  <2> DEFINE row == <<-injector.id, 1>>
  <2>5. row \in all_results' /\ row[1] < 0
    BY <2>1, <2>2
  <2>6. Pool!Report({row})
    BY <2>1, <2>3 DEF Pool!Report
  <2>7. Pool!Inject
    BY <2>1, <2>4, <2>5, <2>6 DEF Pool!Inject
  <2> QED BY <2>7 DEF Pool!Next
<1>5. ASSUME ~Init', ~InjectAnswered, \A s \in Sessions : ~Collect(s)
      PROVE  UNCHANGED <<continuous, all_results>>
  BY <1>5, SessionStep, InterruptStops
  DEF Step, Next, Main, Wait, CollectRaises, Replace, Stop, Interrupted, Complete, Leave,
      PrintTable, PrintSummary, InjectorThread, Inject, InjectFailed, Injector, Killed, vars,
      JInv, PInv
<1>6. ASSUME ~Init', ~InjectAnswered, \A s \in Sessions : ~Collect(s)
      PROVE  [Pool!Next \/ Pool!Anew]_(Pool!vars)
  <2>1. CASE Live' = {}
    BY <1>5, <1>6, <2>1 DEF Pool!Close, Pool!Next
  <2>2. CASE Live' = Live
    BY <1>5, <1>6, <2>2 DEF Pool!vars
  <2> QED BY <1>3, <1>6, <2>1, <2>2
<1> QED BY <1>1, <1>2, <1>4, <1>6

\* The generator is a pool of sessions that are turned over in one step.
THEOREM GeneratorRefinement == Spec \/ RampSpec => ImplementsPool
<1> DEFINE Indexed == stage \in Nat
<1>1. JInv /\ Indexed /\ [RampNext]_rampVars =>
        JInv' /\ Indexed' /\ [Pool!Next \/ Pool!Anew]_(Pool!vars)
  BY RampSteps, NextJInv, StepRefines
<1>2. RampInit => JInv /\ Indexed /\ Pool!Init
  BY InitJInv, RampStarts, InitPool
<1>3. JInv /\ [Next]_vars => JInv' /\ [Pool!Next \/ Pool!Anew]_(Pool!vars)
  BY NextJInv, StepRefines DEF Step
<1> HIDE DEF Indexed
<1>4. Spec => ImplementsPool
  BY <1>3, InitJInv, InitPool, PTL DEF Spec, ImplementsPool, Pool!Spec
<1>5. RampSpec => ImplementsPool
  BY <1>1, <1>2, PTL DEF RampSpec, ImplementsPool, Pool!Spec
<1> QED BY <1>4, <1>5

-----------------------------------------------------------------------------
(* The ramp.  A pool of n workers has at most n sessions at work, and the   *)
(* parent is past a stage only when the child of that stage is gone.        *)

Bounded == IsFiniteSet(Busy) /\ Cardinality(Busy) <= concurrency

LEMMA InitBounded == Init => Bounded /\ Busy = {}
<1> SUFFICES ASSUME Init PROVE Bounded /\ Busy = {}
  OBVIOUS
<1>1. \A s \in Sessions : session[s].pc \in {"none", "pending"}
  BY DEF Init, FirstSessions, NotCreated, Submitted
<1>2. Busy = {}
  BY <1>1 DEF Busy
<1>3. concurrency \in Nat
  BY LoadTestAssumption DEF Init
<1> QED BY <1>2, <1>3, FS_EmptySet DEF Bounded

\* Fewer at work are no more than before.
LEMMA FewerBusy ==
  ASSUME PInv, Bounded, Busy' \subseteq Busy, concurrency' = concurrency
  PROVE  Bounded'
<1>1. IsFiniteSet(Busy') /\ Cardinality(Busy') <= Cardinality(Busy)
  BY FS_Subset DEF Bounded
<1>2. Cardinality(Busy) \in Nat /\ Cardinality(Busy') \in Nat /\ concurrency \in Nat
  BY <1>1, FS_CardinalityType, LoadTestAssumption DEF Bounded, PInv, TInv, TypeOK
<1> QED BY <1>1, <1>2 DEF Bounded

LEMMA BoundedStep == PInv /\ Bounded /\ Step => Bounded'
<1> SUFFICES ASSUME PInv, Bounded, Step PROVE Bounded'
  OBVIOUS
<1>t. session \in [Sessions -> Progress]
  BY DEF PInv, TInv, TypeOK, Progress
<1>1. CASE Init'
  BY <1>1, InitBounded, PTL
<1>2. ASSUME session' = session, concurrency' = concurrency PROVE Bounded'
  <2>1. Busy' = Busy
    BY <1>2 DEF Busy
  <2> QED BY <1>2, <2>1, FewerBusy
<1>3. ASSUME NEW s \in Sessions, StartSession(s) PROVE Bounded'
  <2>1. /\ concurrency' = concurrency /\ Cardinality(Busy) < concurrency
        /\ session' = [session EXCEPT ![s] = [session[s] EXCEPT !.pc = "asking"]]
        /\ session[s].pc = "pending"
    BY <1>3 DEF StartSession, Worker
  <2>2. Busy' = Busy \cup {s} /\ s \notin Busy
    BY <1>t, <2>1 DEF Busy, Progress
  <2>3. IsFiniteSet(Busy') /\ Cardinality(Busy') = Cardinality(Busy) + 1
    BY <2>2, FS_AddElement DEF Bounded
  <2>4. Cardinality(Busy) \in Nat /\ concurrency \in Nat
    BY FS_CardinalityType, LoadTestAssumption DEF Bounded, PInv, TInv, TypeOK
  <2> QED BY <2>1, <2>3, <2>4 DEF Bounded
<1>4. ASSUME NEW s \in Sessions, Session(s), ~StartSession(s) PROVE Bounded'
  <2>1. /\ concurrency' = concurrency
        /\ \E state : session' = [session EXCEPT ![s] = state]
        /\ s \in Busy
    BY <1>4 DEF Session, Answered, RequestFailed, RequestHangs, NextTurn, Worker, Busy
  <2>2. Busy' \subseteq Busy
    BY <1>t, <2>1 DEF Busy
  <2> QED BY <2>1, <2>2, FewerBusy
<1>5. CASE Replace
  <2>1. /\ concurrency' = concurrency /\ session_counter' \in Sessions
        /\ session' = [session EXCEPT ![session_counter'] = Submitted]
    BY <1>5, LoadTestAssumption DEF Replace, Sessions, PInv, TInv, TypeOK
  <2>2. Busy' \subseteq Busy
    BY <1>t, <2>1 DEF Busy, Submitted
  <2> QED BY <2>1, <2>2, FewerBusy
<1>6. (session' = session /\ concurrency' = concurrency) \/ Init' \/ Replace
      \/ \E s \in Sessions : Session(s)
  BY InterruptStops
  DEF Step, Next, Main, Wait, Collect, CollectRaises, Stop, Interrupted, Complete, Leave,
      PrintTable, PrintSummary, InjectorThread, Inject, InjectAnswered, InjectFailed, Injector,
      Killed, vars
<1> QED BY <1>1, <1>2, <1>3, <1>4, <1>5, <1>6

\* The child of a stage runs at the concurrency of that stage, and is gone
\* when the parent goes on.
Staged ==
    /\ stage \in 0 .. Len(Stages)
    /\ parent = "none" <=> stage = 0
    /\ stage > 0 => continuous /\ concurrency = Stages[stage]
    /\ parent \in {"next", "complete"} => main \in Exited
RInv == PInv /\ Bounded /\ Staged

LEMMA StagesAreSizes == \A i \in 1 .. Len(Stages) : Stages[i] \in Nat \ {0}
<1>1. \A i \in 1 .. Len(Stages) : Stages[i] \in Concurrencies
  BY RampTestAssumption
<1> QED BY <1>1, LoadTestAssumption

\* A step of the child, whoever causes it: it does not come back to its loop,
\* nor to life.
LEMMA ChildStep ==
  ASSUME PInv, Generator \/ Stop \/ Killed \/ UNCHANGED vars
  PROVE  /\ UNCHANGED options
         /\ main' \in Looping => main \in Looping
         /\ main \in Exited => main' \in Exited
<1>1. CASE Main
  <2>1. CASE Wait \/ Replace
    BY <2>1 DEF Wait, Replace
  <2>2. CASE Complete \/ Leave \/ PrintTable \/ PrintSummary
    BY <2>2 DEF Complete, Leave, PrintTable, PrintSummary, OutOfFutures
  <2>3. ASSUME NEW s \in Sessions, Collect(s) \/ CollectRaises(s)
        PROVE  UNCHANGED options /\ main = "collect"
    BY <2>3 DEF Collect, CollectRaises
  <2> QED BY <1>1, <2>1, <2>2, <2>3 DEF Main
<1>2. CASE InjectorThread
  BY <1>2 DEF InjectorThread, Inject, InjectAnswered, InjectFailed, Injector
<1>3. ASSUME NEW s \in Sessions, Session(s) PROVE UNCHANGED <<options, main>>
  BY <1>3, SessionStep DEF PInv
<1>4. CASE Stop \/ Killed \/ UNCHANGED vars
  BY <1>4 DEF Stop, Interrupted, Killed, vars
<1> QED BY <1>1, <1>2, <1>3, <1>4, InterruptStops DEF Generator

\* What the parent does besides, in terms of the child.
LEMMA ParentStep ==
  ASSUME RampNext, ~NextStage
  PROVE  /\ Generator \/ Stop \/ Killed \/ UNCHANGED vars
         /\ stage' = stage
         /\ \/ parent' = parent
            \/ parent = "duration" /\ parent' = "sigint"
            \/ parent \in {"duration", "sigint"} /\ parent' = "next" /\ main' \in Exited
            \/ parent = "next" /\ parent' = "complete"
<1>1. CASE RampComplete
  BY <1>1 DEF RampComplete
<1>2. CASE ChildEnded
  BY <1>2 DEF ChildEnded, vars
<1>3. CASE DurationOver
  BY <1>3 DEF DurationOver, Stop
<1>4. CASE Kill
  BY <1>4 DEF Kill, Killed
<1>5. CASE Generator
  BY <1>5 DEF Generator
<1> QED BY <1>1, <1>2, <1>3, <1>4, <1>5 DEF RampNext, Parent

LEMMA InitRInv == RampInit => RInv /\ Ramp!Init
<1> SUFFICES ASSUME RampInit PROVE RInv /\ Ramp!Init
  OBVIOUS
<1>1. Init /\ PInv /\ Bounded /\ Busy = {}
  BY InitPInv, InitBounded DEF RampInit
<1>2. Len(Stages) \in Nat /\ Len(Stages) > 0
  BY RampTestAssumption
<1>3. Staged
  BY <1>1, <1>2 DEF RampInit, Staged
<1>4. Ramp!Init
  <2>1. CASE stage = 0
    BY <2>1 DEF Ramp!Init
  <2>2. CASE stage = 1 /\ continuous /\ concurrency = Stages[1]
    <3>1. Cardinality(Live) = Stages[1]
      BY <1>1, <2>2 DEF PInv, Loaded, Init
    <3>2. AtWork = {}
      BY <1>1 DEF AtWork
    <3> QED BY <2>2, <3>1, <3>2, FS_EmptySet DEF Ramp!Init
  <2> QED BY <2>1, <2>2 DEF RampInit
<1> QED BY <1>1, <1>3, <1>4 DEF RInv

\* The mapped state, while a ramp is under way.
LEMMA MappedLoad ==
  ASSUME RInv, stage > 0
  PROVE  /\ Cardinality(Live) = IF main \in Looping THEN Stages[stage] ELSE 0
         /\ Cardinality(AtWork) \in 0 .. Stages[stage]
         /\ main \in Exited => Cardinality(AtWork) = 0
<1>1. Cardinality({}) = 0
  BY FS_EmptySet
<1>2. Stages[stage] \in Nat /\ continuous /\ concurrency = Stages[stage]
  BY StagesAreSizes DEF RInv, Staged
<1>3. main \notin Looping => Live = {}
  BY DEF Live
<1>4. main \in Looping => Cardinality(Live) = Stages[stage]
  BY <1>2 DEF RInv, PInv, Loaded
<1>5. Cardinality(Busy) \in Nat /\ Cardinality(Busy) <= Stages[stage]
  BY <1>2, FS_CardinalityType DEF RInv, Bounded
<1> QED BY <1>1, <1>2, <1>3, <1>4, <1>5 DEF AtWork

LEMMA RampStep == RInv /\ [RampNext]_rampVars => RInv' /\ [Ramp!Next]_(Ramp!vars)
<1> SUFFICES ASSUME RInv, [RampNext]_rampVars PROVE RInv' /\ [Ramp!Next]_(Ramp!vars)
  OBVIOUS
<1>1. stage \in Nat /\ Step /\ PInv' /\ Bounded'
  <2>1. stage \in Nat
    BY RampTestAssumption DEF RInv, Staged
  <2> QED BY <2>1, RampSteps, NextPInv, BoundedStep DEF RInv
<1>2. ASSUME Staged' PROVE RInv'
  BY <1>1, <1>2 DEF RInv
<1>3. CASE UNCHANGED rampVars
  <2>1. Staged'
    BY <1>3 DEF rampVars, vars, RInv, Staged
  <2>2. UNCHANGED <<stage, Live, AtWork>>
    BY <1>3 DEF rampVars, vars, Live, AtWork, Busy
  <2> QED BY <1>2, <2>1, <2>2 DEF Ramp!vars
<1>4. CASE NextStage
  <2>1. /\ stage < Len(Stages) /\ stage' = stage + 1 /\ parent = "next" /\ parent' = "duration"
        /\ continuous' = TRUE /\ concurrency' = Stages[stage + 1] /\ main' = "wait"
        /\ session' = FirstSessions(Stages[stage + 1])
    BY <1>4 DEF NextStage, Popen
  <2>2. stage \in 1 .. Len(Stages) - 1 /\ Len(Stages) \in Nat /\ main \in Exited
    BY <1>1, <2>1, RampTestAssumption DEF RInv, Staged
  <2>3. Staged'
    BY <2>1, <2>2 DEF Staged
  <2>4. RInv'
    BY <1>2, <2>3
  <2>5. Cardinality(Live) = 0 /\ Cardinality(AtWork) = 0
    BY <2>2, MappedLoad
  <2>6. Cardinality(Live)' = Stages[stage + 1]
    BY <1>1, <2>1 DEF PInv, Loaded
  <2>7. Cardinality(AtWork)' = 0
    <3>1. \A s \in Sessions : session'[s].pc \in {"none", "pending"}
      BY <2>1 DEF FirstSessions, NotCreated, Submitted
    <3>2. AtWork' = {}
      BY <2>1, <3>1 DEF AtWork, Busy
    <3> QED BY <3>2, FS_EmptySet
  <2>8. Ramp!Advance
    BY <2>1, <2>2, <2>5, <2>6, <2>7 DEF Ramp!Advance, Ramp!Following
  <2> QED BY <2>4, <2>8 DEF Ramp!Next
<1>5. CASE RampNext /\ ~NextStage
  <2>1. /\ UNCHANGED options /\ stage' = stage
        /\ main' \in Looping => main \in Looping
        /\ main \in Exited => main' \in Exited
    BY <1>5, ParentStep, ChildStep DEF RInv
  <2>2. Staged'
    BY <1>5, <2>1, ParentStep DEF RInv, Staged
  <2>3. RInv'
    BY <1>2, <2>2
  <2>4. CASE stage = 0
    BY <2>1, <2>3, <2>4 DEF Ramp!Unplanned, Ramp!Next
  <2>5. CASE stage > 0
    <3>1. Cardinality(Live) = IF main \in Looping THEN Stages[stage] ELSE 0
      BY <2>5, MappedLoad
    <3>2. /\ Cardinality(Live)' = IF main' \in Looping THEN Stages[stage] ELSE 0
          /\ Cardinality(AtWork)' \in 0 .. Stages[stage]
      <4>1. (stage > 0)'
        BY <2>1, <2>5
      <4>2. /\ (Cardinality(Live) = IF main \in Looping THEN Stages[stage] ELSE 0)'
            /\ (Cardinality(AtWork) \in 0 .. Stages[stage])'
        BY <2>3, <4>1, MappedLoad, PTL
      <4> QED BY <2>1, <4>2
    <3>3. Ramp!Work
      BY <2>1, <2>5, <3>1, <3>2 DEF Ramp!Work
    <3> QED BY <2>3, <3>3 DEF Ramp!Next
  <2> QED BY <1>1, <2>4, <2>5
<1> QED BY <1>3, <1>4, <1>5

\* The ramp runs the stages of its plan one after the other, each by itself.
THEOREM RampRefinement == RampSpec => ImplementsPlan
<1> QED BY InitRInv, RampStep, PTL DEF RampSpec, ImplementsPlan, Ramp!Spec

=============================================================================
