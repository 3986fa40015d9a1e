----------------------------- MODULE LoadSweep -----------------------------
(***************************************************************************)
(* The scripts that send requests in rounds and report each round:         *)
(* load_test_vllm.py and load_test_ollama.py, whose rounds are the levels  *)
(* of concurrency and run in a thread pool, measure_chat_session.py, whose *)
(* rounds are the turns of one session, and measure_inference_*.py with a  *)
(* single request.  They differ in the format of the stream they read, in  *)
(* what they count, and in whether a pool or the main thread reads it.     *)
(*                                                                         *)
(* A line of a response is read some time after it has arrived: threads    *)
(* share one interpreter.  The texts are left out, and so is rounding.     *)
(***************************************************************************)
EXTENDS Integers, Sequences, Functions, FiniteSets

CONSTANTS
    Programs,       \* the scripts, with their options
    Faults,         \* which of "garbled", "silent", "interrupt" occur
    MaxChunks,      \* bound: chunks of a response before its end
    MaxUnread,      \* bound: lines that have arrived and are not read yet
    MaxTime         \* bound: how far the clock goes in a round

ASSUME LoadSweepAssumption ==
    /\ \A p \in Programs :
          /\ p.rounds \in Seq(Nat \ {0}) /\ p.rounds # <<>>
          /\ p.format \in {"sse", "ndjson"} /\ p.counts \subseteq {"token", "empty"}
          /\ p.pool \in BOOLEAN /\ p.continuous \in BOOLEAN
    /\ Faults \subseteq {"garbled", "silent", "interrupt"}
    /\ {MaxChunks, MaxUnread, MaxTime} \subseteq Nat \ {0}

VARIABLES
    program,
    main,           \* where the main thread is
    round,          \* the current round: an index of program.rounds
    request,        \* request[i]: the i-th request of the round, see Fresh
    results,        \* the list of the results received so far
    elapsed,        \* the wall time of the round
    clock           \* time.perf_counter(), since t_start of the round

vars == <<program, main, round, request, results, elapsed, clock>>

Never == -1
Exited == {"ended", "crashed"}
LastRound == round = Len(program.rounds)

\* The local variables of single_request and run_inference (t0, t_first,
\* t_done, tokens), the lines that have arrived, and what the server sent.
Fresh == [pc |-> "pending", t0 |-> Never, t_first |-> Never, t_done |-> Never, tokens |-> 0,
          unread |-> <<>>,
          sent |-> [chunks |-> 0, tokens |-> 0, first |-> Never, last |-> Never]]
Requests(p, n) == [i \in 1 .. p.rounds[n] |-> Fresh]

InFlight(i) == request[i].pc \in {"reading", "silent"}

Init ==
    /\ program \in Programs
    /\ main = "collect"
    /\ round = 1
    /\ request = Requests(program, 1)
    /\ results = <<>>
    /\ elapsed = Never
    /\ clock = 0

-----------------------------------------------------------------------------
(* The server.  A chunk has a text ("token") or none ("empty"; an error in *)
(* the stream reads as one), "done" is [DONE] or the chunk that says done, *)
(* "end" the end of the response; "garbled" is whatever makes the reader   *)
(* raise: a line that is not the JSON expected, a connection that is lost, *)
(* and as the first line one that was refused.  No chunk follows "done".   *)

Arrives(i, line, sent) ==
    /\ request[i].pc = "reading"
    /\ Len(request[i].unread) < MaxUnread
    /\ \A j \in DOMAIN request[i].unread : request[i].unread[j] \notin {"end", "garbled"}
    /\ request' = [request EXCEPT ![i].unread = Append(@, line), ![i].sent = sent]
    /\ UNCHANGED <<program, main, round, results, elapsed, clock>>

SendChunk(i, line) ==
    LET s == request[i].sent
    IN /\ s.last = Never
       /\ s.chunks < MaxChunks
       /\ Arrives(i, line,
            [s EXCEPT !.chunks = @ + 1,
                      !.tokens = IF line \in program.counts THEN @ + 1 ELSE @,
                      !.first = IF line = "token" /\ @ = Never THEN clock ELSE @])

SendDone(i) ==
    /\ request[i].sent.last = Never
    /\ Arrives(i, "done", [request[i].sent EXCEPT !.last = clock])

\* With or without a "done" before it.
SendEnd(i, line) ==
    /\ line = "end" \/ line \in Faults
    /\ Arrives(i, line, [request[i].sent EXCEPT !.last = IF @ = Never THEN clock ELSE @])

\* The server never sends another line; urlopen has no timeout.
FallSilent(i) ==
    /\ "silent" \in Faults
    /\ request[i].pc = "reading" /\ request[i].unread = <<>>
    /\ request' = [request EXCEPT ![i].pc = "silent"]
    /\ UNCHANGED <<program, main, round, results, elapsed, clock>>

-----------------------------------------------------------------------------
(* single_request, run_inference.                                          *)

Reader(i, state) ==
    /\ request' = [request EXCEPT ![i] = state]
    /\ UNCHANGED <<program, main, round, results, elapsed, clock>>

StartRequest(i) ==
    /\ main \notin Exited
    /\ request[i].pc = "pending"
    /\ Reader(i, [request[i] EXCEPT !.pc = "reading", !.t0 = clock])

\* The next line is taken from the response of request i.
Reads(i, lines) ==
    /\ request[i].pc = "reading"
    /\ request[i].unread # <<>>
    /\ Head(request[i].unread) \in lines
Rest(i) == [request[i] EXCEPT !.unread = Tail(@)]

\* Mutant: the first chunk counts as the first token, the role of a reply too.
ReadAnyChunk(i) ==
    /\ Reads(i, {"token", "empty"})
    /\ LET line == Head(request[i].unread)
       IN Reader(i, [Rest(i) EXCEPT !.t_first = IF @ = Never THEN clock ELSE @,
                                    !.tokens = IF line \in program.counts THEN @ + 1 ELSE @])

ReadChunk(i) ==
    /\ Reads(i, {"token", "empty"})
    /\ LET line == Head(request[i].unread)
       IN Reader(i, [Rest(i) EXCEPT !.t_first = IF line = "token" /\ @ = Never THEN clock ELSE @,
                                    !.tokens = IF line \in program.counts THEN @ + 1 ELSE @])

\* The loop over an event stream ends here, the one over Ollama's goes on.
ReadDone(i) ==
    /\ Reads(i, {"done"})
    /\ Reader(i, [Rest(i) EXCEPT !.t_done = clock,
                                 !.pc = IF program.format = "sse" THEN "done" ELSE @])

\* A response without [DONE] is over with its last line; t_done of a response
\* of Ollama that never said done is an unbound variable.
ReadEnd(i) ==
    /\ Reads(i, {"end"})
    /\ Reader(i, IF program.format = "sse" THEN [Rest(i) EXCEPT !.t_done = clock, !.pc = "done"]
                 ELSE [Rest(i) EXCEPT !.pc = IF request[i].t_done = Never THEN "failed" ELSE "done"])

Raise(i) ==
    /\ Reads(i, {"garbled"})
    /\ Reader(i, [Rest(i) EXCEPT !.pc = "failed"])

\* What is returned: ttft_ms, total_s and tokens.  Without a token the first
\* token counts as late as the end.
Result(r) == [ttft |-> (IF r.t_first = Never THEN r.t_done ELSE r.t_first) - r.t0,
              total |-> r.t_done - r.t0,
              tokens |-> r.tokens]

-----------------------------------------------------------------------------
(* The main thread: run_load_test and the loop over the levels, or over    *)
(* the turns.                                                              *)

\* Mutant: a result is taken as soon as there is one.
CollectAny ==
    /\ main = "collect"
    /\ \E i \in DOMAIN request : /\ request[i].pc = "done"
                                 /\ results' = Append(results, Result(request[i]))
    /\ UNCHANGED <<program, main, round, request, elapsed, clock>>

\* pool.map yields the results in the order of the prompts.
Collect ==
    /\ main = "collect"
    /\ LET i == Len(results) + 1
       IN /\ i \in DOMAIN request
          /\ request[i].pc = "done"
          /\ results' = Append(results, Result(request[i]))
    /\ UNCHANGED <<program, main, round, request, elapsed, clock>>

\* Mutant: the pool goes on with the requests that no thread has begun.
AbandonWaiting ==
    /\ main' = "unwind"
    /\ request' = [i \in DOMAIN request |->
                     IF ~program.pool /\ InFlight(i)
                     THEN [request[i] EXCEPT !.pc = "cancelled"] ELSE request[i]]
    /\ UNCHANGED <<program, round, results, elapsed, clock>>

\* An exception leaves the with statement of the pool: requests that no thread
\* has begun are cancelled.  In the main thread it ends the request itself.
Abandon ==
    /\ main' = "unwind"
    /\ request' = [i \in DOMAIN request |->
                     IF request[i].pc = "pending" \/ (~program.pool /\ InFlight(i))
                     THEN [request[i] EXCEPT !.pc = "cancelled"] ELSE request[i]]
    /\ UNCHANGED <<program, round, results, elapsed, clock>>

CollectRaises ==
    /\ main = "collect"
    /\ Len(results) < Len(request)
    /\ request[Len(results) + 1].pc = "failed"
    /\ Abandon

\* Bound: one ctrl-C, in a round or between two of them.
Interrupt ==
    /\ "interrupt" \in Faults
    /\ main \in {"collect", "print", "sleep"}
    /\ Abandon

\* Mutant: the pool is shut down without waiting.
CrashAtOnce ==
    /\ main = "unwind"
    /\ main' = "crashed"
    /\ UNCHANGED <<program, round, request, results, elapsed, clock>>

\* The end of the with statement waits for the requests that are running.
Crash ==
    /\ main = "unwind"
    /\ \A i \in DOMAIN request : ~InFlight(i)
    /\ main' = "crashed"
    /\ UNCHANGED <<program, round, request, results, elapsed, clock>>

RoundOver ==
    /\ main = "collect"
    /\ Len(results) = Len(request)
    /\ elapsed' = clock
    /\ main' = "print"
    /\ UNCHANGED <<program, round, request, results, clock>>

Begin(n) ==
    /\ round' = n
    /\ request' = Requests(program, n)
    /\ results' = <<>>
    /\ elapsed' = Never
    /\ main' = "collect"
    /\ clock' = 0
    /\ UNCHANGED program

\* Mutant: the level is not the next one.
SameRound == main = "print" /\ ~LastRound /\ Begin(round)

NextRound == main = "print" /\ ~LastRound /\ Begin(round + 1)

AfterLast ==
    /\ main = "print"
    /\ LastRound
    /\ main' = IF program.continuous THEN "sleep" ELSE "ended"
    /\ UNCHANGED <<program, round, request, results, elapsed, clock>>

\* time.sleep(5) is over.
StartOver == main = "sleep" /\ Begin(1)

Tick ==
    /\ clock < MaxTime
    /\ main = "collect"
    /\ clock' = clock + 1
    /\ UNCHANGED <<program, main, round, request, results, elapsed>>

-----------------------------------------------------------------------------
Server(i) ==
    \/ \E line \in {"token", "empty"} : SendChunk(i, line)
    \/ SendDone(i) \/ FallSilent(i)
    \/ \E line \in {"end", "garbled"} : SendEnd(i, line)
Request(i) == StartRequest(i) \/ ReadChunk(i) \/ ReadDone(i) \/ ReadEnd(i) \/ Raise(i)
Main == Collect \/ CollectRaises \/ Crash \/ RoundOver \/ NextRound \/ AfterLast \/ StartOver

AllRequests == UNION {1 .. n : n \in UNION {Range(p.rounds) : p \in Programs}}

Next == Main \/ Interrupt \/ Tick \/ \E i \in DOMAIN request : Server(i) \/ Request(i)

\* Threads go on when they can, and a server ends its response or falls
\* silent for good.  Nothing makes the user press ctrl-C.
Fairness ==
    /\ WF_vars(Main)
    /\ \A i \in AllRequests : /\ WF_vars(i \in DOMAIN request /\ Request(i))
                              /\ WF_vars(i \in DOMAIN request /\ Server(i))

Spec == Init /\ [][Next]_vars /\ Fairness

-----------------------------------------------------------------------------
(* What the scripts promise.                                               *)

\* The types of the state.
TypeOK ==
    /\ program \in Programs /\ round \in DOMAIN program.rounds
    /\ main \in {"collect", "unwind", "print", "sleep"} \cup Exited
    /\ Len(request) = program.rounds[round] /\ Len(results) <= Len(request)
    /\ \A i \in DOMAIN request :
          /\ request[i].pc \in {"pending", "reading", "silent", "done", "failed", "cancelled"}
          /\ request[i].tokens \in 0 .. MaxChunks
    /\ elapsed \in Never .. MaxTime /\ clock \in 0 .. MaxTime

\* What is printed of a round is true: there is a result of each of its
\* requests, in order; it has the tokens the server sent, no thread was quicker
\* than the server, whichever of the others kept it from reading, and no
\* request lasted longer than the round.
TrueReport ==
    main = "print" =>
      /\ Len(results) = Len(request)
      /\ \A i \in DOMAIN request :
            LET r == results[i]
                q == request[i]
                first == IF q.sent.first = Never THEN q.sent.last ELSE q.sent.first
            IN /\ r.tokens = q.sent.tokens
               /\ first - q.t0 <= r.ttft /\ r.ttft <= r.total
               /\ q.sent.last - q.t0 <= r.total /\ r.total <= elapsed

\* Between rounds and after the program, however it ends, the server has no
\* request of it at work: what a round, or the next run, measures is its own.
QuietBetween ==
    main \notin {"collect", "unwind"} => \A i \in DOMAIN request : ~InFlight(i)

\* Once pool.map has come to the result of a request that failed, or ctrl-C has
\* come, the server gets no request any more and nothing is reported: what no
\* thread had begun by then is not begun while the others run to their end.
Over == main \in {"unwind"} \cup Exited
Begun == {i \in DOMAIN request : request[i].t0 # Never}
NoFurtherRequest == [][Over => Over' /\ Begun' = Begun]_vars

\* The rounds are the ones the program says: the server meets the levels, or
\* the turns, in their order, none skipped or measured twice, each with as many
\* requests as it has, and none before the one before it is over, whichever of
\* its requests break off, fail or are given up.
Plan == INSTANCE LoadPlan WITH
    plan <- program.rounds, repeats <- program.continuous, stage <- round,
    pool <- IF main = "collect" THEN Len(request) ELSE 0,
    busy <- Cardinality({i \in DOMAIN request : InFlight(i)})
ImplementsPlan == Plan!Spec

\* A run that is not continuous, or in which a request fails, comes to its end
\* unless the server falls silent: no order of failures and answers leaves
\* the main thread waiting for a request that is over.
EndsUnlessSilent ==
    (~program.continuous \/ \E i \in DOMAIN request : request[i].pc = "failed")
      ~> (main \in Exited \/ \E i \in DOMAIN request : request[i].pc = "silent")

=============================================================================
