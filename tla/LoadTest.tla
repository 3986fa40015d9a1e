------------------------------ MODULE LoadTest ------------------------------
(***************************************************************************)
(* The load generator load_test_chunked_prefill.py: a pool of chat         *)
(* sessions, the main thread that collects their results and, in           *)
(* continuous mode, replaces them, a daemon thread that injects cold       *)
(* prompts (mode mixed), and the report.  load_test_multi_session.py is    *)
(* the same program without the injector, local/load_test_chunked_prefill  *)
(* the same with another cold prompt.                                      *)
(*                                                                         *)
(* A result is the pair of its session and its turn.  all_results is only  *)
(* touched under results_lock or by one interpreter instruction, so each   *)
(* extend and append is one step.  A request yields one of Responses, or   *)
(* is in flight; the timings are not modelled.                             *)
(***************************************************************************)
EXTENDS Integers, Sequences, FiniteSets

CONSTANTS
    Concurrencies,  \* --concurrency, the max_workers of the pool
    Turns,          \* --turns
    Responses,      \* what the server may answer to a chat request
    Refused,        \* no connection, or an HTTP error
    Hung,           \* a response that never ends; urlopen has no timeout
    Faults,         \* what may go wrong besides: an injection fails ("inject"),
                    \* the user presses ctrl-C ("interrupt", once)
    MaxSessions,    \* bound: sessions created in a run
    MaxInjects      \* bound: prompts injected in a run

ASSUME LoadTestAssumption ==
    /\ Concurrencies \subseteq Nat \ {0} /\ Turns \in Nat \ {0}
    /\ Faults \subseteq {"inject", "interrupt"}
    /\ MaxSessions \in Nat /\ \A n \in Concurrencies : MaxSessions >= n
    /\ MaxInjects \in Nat

VARIABLES
    continuous,     \* --continuous
    concurrency,    \* --concurrency
    main,           \* where the main thread is
    how,            \* how it left the loop: "completed", "interrupted" or "error"
    active,         \* sessions whose futures the main thread waits for
    done,           \* finished sessions of this round, not collected yet
    session_counter,
    session,        \* session[s]: the worker's progress and its result list
    injector,       \* the injector thread
    stop_event,
    all_results,
    printed         \* the rows of the table and of the two summaries

options == <<continuous, concurrency>>
vars == <<continuous, concurrency, main, how, active, done, session_counter, session,
          injector, stop_event, all_results, printed>>
mainVars == <<options, main, how, active, done, session_counter, printed>>

Sessions == 1 .. MaxSessions
Looping == {"wait", "collect", "replace"}
Exited == {"ended", "crashed", "killed"}

NotCreated == [pc |-> "none", turns |-> 0]
Submitted == [pc |-> "pending", turns |-> 0]
Busy == {s \in Sessions : session[s].pc \in {"asking", "hung", "thinking"}}
Finished(s) == session[s].pc \in {"done", "failed"}

\* The list a session returns, as all_results.extend receives it.
Returned(s) == {<<s, t>> : t \in 1 .. session[s].turns}
Injected(i) == <<-i, 1>>
ChatRows == {r \in all_results : r[1] > 0}
InjectRows == all_results \ ChatRows

\* The sessions the pool is started with.
FirstSessions(n) == [s \in Sessions |-> IF s <= n THEN Submitted ELSE NotCreated]
NoInjector == [pc |-> "none", id |-> 0]
NoReport == [rows |-> {}, chat |-> {}, inject |-> {}]

Init ==
    /\ continuous \in BOOLEAN
    /\ concurrency \in Concurrencies
    /\ main = "wait"
    /\ how = "running"
    /\ active = 1 .. concurrency
    /\ done = {}
    /\ session_counter = concurrency
    /\ session = FirstSessions(concurrency)
    /\ injector \in {NoInjector, [NoInjector EXCEPT !.pc = "sleeping"]}   \* --mode mixed
    /\ stop_event = FALSE
    /\ all_results = {}
    /\ printed = NoReport

-----------------------------------------------------------------------------
(* run_inference: the lines of the response up to [DONE] are read.  A line *)
(* is "token", "empty" (a chunk without text), "other" (not a data line),  *)
(* "garbled" (not the JSON expected), or "done".                           *)

LinesRead(r) == {i \in DOMAIN r : \A j \in 1 .. i : r[j] # "done"}

Raises(r) ==
    \/ r = Refused
    \/ r \notin {Refused, Hung} /\ \E i \in LinesRead(r) : r[i] = "garbled"

\* A response without a token, or one that ends before [DONE], will do.
Answers(r) == r # Hung /\ ~Raises(r)

-----------------------------------------------------------------------------
(* run_chat_session, in a worker of the pool.                              *)

\* Progress of session s while the process lives.
Worker(s, state) ==
    /\ main \notin Exited
    /\ session' = [session EXCEPT ![s] = state]
    /\ UNCHANGED <<mainVars, injector, stop_event, all_results>>

StartSession(s) ==
    /\ session[s].pc = "pending"
    /\ Cardinality(Busy) < concurrency
    /\ Worker(s, [session[s] EXCEPT !.pc = "asking"])

\* Mutant: the last turn is missed.
AnsweredPastEnd(s) ==
    /\ session[s].pc = "asking"
    /\ LET n == session[s].turns + 1
       IN Worker(s, [pc |-> IF stop_event \/ n > Turns THEN "done" ELSE "thinking",
                     turns |-> n])

\* The stop event is looked at after every answer, and only there.
Answered(s) ==
    /\ session[s].pc = "asking"
    /\ \E r \in Responses : Answers(r)
    /\ LET n == session[s].turns + 1
       IN Worker(s, [pc |-> IF stop_event \/ n = Turns THEN "done" ELSE "thinking",
                     turns |-> n])

RequestFailed(s) ==
    /\ session[s].pc = "asking"
    /\ \E r \in Responses : Raises(r)
    /\ Worker(s, [session[s] EXCEPT !.pc = "failed"])

RequestHangs(s) ==
    /\ session[s].pc = "asking"
    /\ Hung \in Responses
    /\ Worker(s, [session[s] EXCEPT !.pc = "hung"])

\* stop_event.wait(think_time): the time is over or the event is set.
NextTurn(s) ==
    /\ session[s].pc = "thinking"
    /\ Worker(s, [session[s] EXCEPT !.pc = "asking"])

-----------------------------------------------------------------------------
(* run_injector, a daemon thread.                                          *)

Injector(state) ==
    /\ main \notin Exited
    /\ injector' = state
    /\ UNCHANGED <<mainVars, session, stop_event>>

\* time.sleep is over: it is not cut short by the event.
Inject ==
    /\ injector.pc = "sleeping"
    /\ IF stop_event THEN Injector([injector EXCEPT !.pc = "none"])
       ELSE /\ injector.id < MaxInjects
            /\ Injector([pc |-> "asking", id |-> injector.id + 1])
    /\ UNCHANGED all_results

InjectAnswered ==
    /\ injector.pc = "asking"
    /\ all_results' = all_results \cup {Injected(injector.id)}
    /\ Injector([injector EXCEPT !.pc = "sleeping"])

\* The exception is caught and printed.
InjectFailed ==
    /\ "inject" \in Faults
    /\ injector.pc = "asking"
    /\ Injector([injector EXCEPT !.pc = "sleeping"])
    /\ UNCHANGED all_results

-----------------------------------------------------------------------------
(* The main thread: the loop inside the with statement of the pool.        *)

\* Mutant: the finished futures stay in the set that is waited for.
WaitKeepingDone ==
    /\ main = "wait"
    /\ \E finished \in SUBSET {s \in active : Finished(s)} :
          /\ finished # {}
          /\ done' = finished
    /\ main' = "collect"
    /\ UNCHANGED <<options, how, active, session_counter, session, injector, stop_event,
                   all_results, printed>>

\* wait(FIRST_COMPLETED) returns all that have finished, as_completed one.
Wait ==
    /\ main = "wait"
    /\ LET finished == {s \in active : Finished(s)}
       IN /\ finished # {}
          /\ done' \in IF continuous THEN {finished} ELSE {{s} : s \in finished}
    /\ active' = active \ done'
    /\ main' = "collect"
    /\ UNCHANGED <<options, how, session_counter, session, injector, stop_event,
                   all_results, printed>>

\* Mutant: of the futures that have finished only the first is looked at.
CollectFirst(s) ==
    /\ main = "collect"
    /\ s \in done
    /\ session[s].pc = "done"
    /\ all_results' = all_results \cup Returned(s)
    /\ done' = {}
    /\ main' = IF continuous THEN "replace" ELSE "wait"
    /\ UNCHANGED <<options, how, active, session_counter, session, injector,
                   stop_event, printed>>

\* all_results.extend(f.result()) for the next of the finished futures.
Collect(s) ==
    /\ main = "collect"
    /\ s \in done
    /\ session[s].pc = "done"
    /\ all_results' = all_results \cup Returned(s)
    /\ done' = done \ {s}
    /\ main' = IF continuous THEN "replace" ELSE "wait"
    /\ UNCHANGED <<options, how, active, session_counter, session, injector,
                   stop_event, printed>>

\* f.result() raises what the session raised, and nothing here catches it.
CollectRaises(s) ==
    /\ main = "collect"
    /\ s \in done
    /\ session[s].pc = "failed"
    /\ main' = "leave"
    /\ how' = "error"
    /\ UNCHANGED <<options, active, done, session_counter, session, injector, stop_event,
                   all_results, printed>>

\* Mutant: the round goes on without the new session.
ReplaceForgotten ==
    /\ main = "replace"
    /\ main' = IF done = {} THEN "wait" ELSE "collect"
    /\ UNCHANGED <<options, how, active, done, session_counter, session, injector, stop_event,
                   all_results, printed>>

\* active.add(new_session(pool)), and on to the rest of the round.
Replace ==
    /\ main = "replace"
    /\ session_counter < MaxSessions
    /\ session_counter' = session_counter + 1
    /\ session' = [session EXCEPT ![session_counter'] = Submitted]
    /\ active' = active \cup {session_counter'}
    /\ main' = IF done = {} THEN "wait" ELSE "collect"
    /\ UNCHANGED <<options, how, done, injector, stop_event,
                   all_results, printed>>

\* The handler of KeyboardInterrupt, outside the loop.
Interrupted ==
    /\ stop_event' = TRUE
    /\ main' = "leave"
    /\ how' = "interrupted"
    /\ UNCHANGED <<options, active, done, session_counter, session, injector,
                   all_results, printed>>

\* Mutant: a handler inside the loop.
InterruptInLoop ==
    /\ "interrupt" \in Faults
    /\ main \in Looping
    /\ ~stop_event
    /\ stop_event' = TRUE
    /\ UNCHANGED <<options, main, how, active, done, session_counter, session, injector,
                   all_results, printed>>

\* Bound: one ctrl-C, in the try statement.
Interrupt ==
    /\ "interrupt" \in Faults
    /\ main \in Looping
    /\ Interrupted

\* Mutant: as_completed gives up with the first session.
OutOfFuturesEarly == main = "wait" /\ ~continuous /\ active # 1 .. concurrency

OutOfFutures == main = "wait" /\ ~continuous /\ active = {}

Complete ==
    /\ OutOfFutures
    /\ main' = "leave"
    /\ how' = "completed"
    /\ UNCHANGED <<options, active, done, session_counter, session, injector, stop_event,
                   all_results, printed>>

\* The end of the with statement waits for every session that was submitted,
\* then an exception that is pending ends the program.
Leave ==
    /\ main = "leave"
    /\ \A s \in Sessions : session[s].pc = "none" \/ Finished(s)
    /\ main' = IF how = "error" THEN "crashed" ELSE "table"
    /\ UNCHANGED <<options, how, active, done, session_counter, session, injector, stop_event,
                   all_results, printed>>

(* The report; the injector still runs while it is printed.                *)

PrintTable ==
    /\ main = "table"
    /\ printed' = [printed EXCEPT !.rows = all_results]
    /\ main' = IF all_results = {} THEN "ended" ELSE "summary"
    /\ UNCHANGED <<options, how, active, done, session_counter, session, injector, stop_event,
                   all_results>>

\* statistics.median raises on an empty list; the injects are guarded.
PrintSummary ==
    /\ main = "summary"
    /\ IF ChatRows = {}
       THEN main' = "crashed" /\ UNCHANGED printed
       ELSE /\ main' = "ended"
            /\ printed' = [printed EXCEPT !.chat = ChatRows, !.inject = InjectRows]
    /\ UNCHANGED <<options, how, active, done, session_counter, session, injector, stop_event,
                   all_results>>

-----------------------------------------------------------------------------
Session(s) == StartSession(s) \/ Answered(s) \/ RequestFailed(s) \/ RequestHangs(s) \/ NextTurn(s)
InjectorThread == Inject \/ InjectAnswered \/ InjectFailed
Main ==
    \/ Wait \/ Replace \/ Complete \/ Leave \/ PrintTable \/ PrintSummary
    \/ \E s \in Sessions : Collect(s) \/ CollectRaises(s)

Next == Main \/ Interrupt \/ InjectorThread \/ \E s \in Sessions : Session(s)

Spec == Init /\ [][Next]_vars

\* Every thread that can go on does, and every request is answered, fails or hangs.
\* Nothing makes the user press ctrl-C, and a request may hang.
Fairness ==
    /\ WF_vars(Main)
    /\ \A s \in Sessions : WF_vars(Session(s))
    /\ WF_vars(InjectorThread)

FairSpec == Spec /\ Fairness

-----------------------------------------------------------------------------
(* What the program promises.                                              *)

Rows == (-MaxInjects .. MaxSessions) \X (1 .. Turns)

\* The types of the state.
TypeOK ==
    /\ continuous \in BOOLEAN /\ concurrency \in Concurrencies
    /\ main \in Looping \cup {"leave", "table", "summary"} \cup Exited
    /\ how \in {"running", "completed", "interrupted", "error"}
    /\ active \subseteq Sessions /\ done \subseteq Sessions
    /\ session_counter \in concurrency .. MaxSessions
    /\ session \in [Sessions -> [pc : {"none", "pending", "asking", "hung", "thinking",
                                       "done", "failed"},
                                 turns : 0 .. Turns]]
    /\ injector \in [pc : {"none", "sleeping", "asking"}, id : 0 .. MaxInjects]
    /\ stop_event \in BOOLEAN
    /\ all_results \subseteq Rows
    /\ printed \in [rows : SUBSET Rows, chat : SUBSET Rows, inject : SUBSET Rows]

\* The load is the one asked for: whenever the main thread waits in continuous
\* mode it waits for concurrency sessions, and as long as it loops no session
\* is running that it would not collect.
SteadyLoad ==
    main \in Looping =>
      /\ main = "wait" /\ continuous => Cardinality(active) = concurrency
      /\ \A s \in Sessions : ~(session[s].pc = "none" \/ Finished(s)) => s \in active

\* No result is counted twice in the percentiles: a future is collected once,
\* although the set of futures shrinks and grows while it is iterated over.
EachResultOnce ==
    [][\A s \in Sessions : Collect(s) => Returned(s) \cap all_results = {}]_vars

\* A run that is neither interrupted nor hit by an error reports every turn of
\* every session.
CompleteReport ==
    main = "ended" /\ how = "completed" =>
      \A s \in 1 .. concurrency : \A t \in 1 .. Turns : <<s, t>> \in printed.chat

\* To its user the generator is a pool that turns a session over in one step,
\* although the futures leave one set, are collected one by one, and join
\* another, with sessions ending and prompts injected in between.
Live == IF main \notin Looping THEN {}
        ELSE active \cup done \cup (IF main = "replace" THEN {session_counter + 1} ELSE {})
Pool == INSTANCE SessionPool WITH
    Sizes <- Concurrencies, replacing <- continuous, live <- Live, reported <- all_results
ImplementsPool == Pool!Spec

\* Ctrl-C ends the program, whatever is in flight, unless a request never ends.
InterruptEndsRun == stop_event ~> main \in Exited \/ \E s \in Sessions : session[s].pc = "hung"

\* Ctrl-C winds the run down: from then on every step of any thread leaves
\* less for it to do and no step more for another, so that each session sends
\* one request more at the most, whether it was thinking or had not begun, no
\* prompt is injected, and no session takes the place of one that ends.
SessionLeft(s) == CASE session[s].pc \in {"pending", "thinking"} -> 2
                    [] session[s].pc = "asking" -> 1
                    [] OTHER -> 0
InjectorLeft == CASE injector.pc = "asking" -> 2
                  [] injector.pc = "sleeping" -> 1
                  [] OTHER -> 0
MainLeft == CASE main \in Looping -> 4
              [] main = "leave" -> 3
              [] main = "table" -> 2
              [] main = "summary" -> 1
              [] OTHER -> 0
WindsDown ==
    [][stop_event /\ stop_event' =>
         /\ \A s \in Sessions : SessionLeft(s)' <= SessionLeft(s)
         /\ InjectorLeft' <= InjectorLeft /\ MainLeft' <= MainLeft
         /\ \/ \E s \in Sessions : SessionLeft(s)' < SessionLeft(s)
            \/ InjectorLeft' < InjectorLeft \/ MainLeft' < MainLeft]_vars

-----------------------------------------------------------------------------
(* A statement of the program that it does not keep.                       *)

\* Line 212: --continuous runs until ctrl-C, and the results are printed then.
InterruptedRunReports == how = "interrupted" => main # "crashed"

=============================================================================
