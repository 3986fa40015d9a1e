------------------------------ MODULE RampTest ------------------------------
(***************************************************************************)
(* ramp_load_test.py: one load generator after the other, each at its own  *)
(* concurrency, as a child process that runs for a while and is then told  *)
(* to stop and, if it takes too long, killed.  The child is module         *)
(* LoadTest, which may also have been started by a user, without a ramp.   *)
(*                                                                         *)
(* wait(timeout=...) returns when the child has ended or at an arbitrary   *)
(* later moment.  A killed child is gone at once.                          *)
(***************************************************************************)
EXTENDS LoadTest

CONSTANT Stages     \* --stages: the concurrency of each stage

ASSUME RampTestAssumption == Stages \in Seq(Concurrencies) /\ Stages # <<>>

VARIABLES
    parent,     \* where the ramp test is, or "none"
    stage       \* the stage its child runs

rampVars == <<vars, parent, stage>>

RampInit ==
    /\ Init
    /\ \/ parent = "none" /\ stage = 0
       \/ /\ parent = "duration" /\ stage = 1
          /\ continuous /\ injector = NoInjector /\ concurrency = Stages[1]

-----------------------------------------------------------------------------
(* The loop over the stages and run_stage.                                 *)

\* load_test_multi_session.py at concurrency n: a new process, continuous.
Popen(n) ==
    /\ continuous' = TRUE /\ concurrency' = n
    /\ main' = "wait" /\ how' = "running"
    /\ active' = 1 .. n /\ done' = {}
    /\ session_counter' = n /\ session' = FirstSessions(n)
    /\ injector' = NoInjector
    /\ stop_event' = FALSE
    /\ all_results' = {} /\ printed' = NoReport

NextStage ==
    /\ parent = "next"
    /\ stage < Len(Stages)
    /\ stage' = stage + 1
    /\ parent' = "duration"
    /\ Popen(Stages[stage'])

RampComplete ==
    /\ parent = "next"
    /\ stage = Len(Stages)
    /\ parent' = "complete"
    /\ UNCHANGED <<vars, stage>>

\* proc.wait returns: a child that crashed is taken like one that ended.
ChildEnded ==
    /\ parent \in {"duration", "sigint"}
    /\ main \in Exited
    /\ parent' = "next"
    /\ UNCHANGED <<vars, stage>>

\* Mutant: the child is not waited for once it has been told to stop.
SignalAndGoOn ==
    /\ parent = "duration"
    /\ main \notin Exited
    /\ parent' = "next"
    /\ IF main \in Looping THEN Interrupted ELSE UNCHANGED vars
    /\ UNCHANGED stage

\* SIGINT raises KeyboardInterrupt in the main thread of the child.  Outside
\* of its try statement the child is already leaving with an error.
DurationOver ==
    /\ parent = "duration"
    /\ main \notin Exited
    /\ parent' = "sigint"
    /\ IF main \in Looping THEN Interrupted ELSE UNCHANGED vars
    /\ UNCHANGED stage

\* Mutant: the child is waited for without a limit.
KillNever ==
    /\ parent = "sigint"
    /\ main \in Exited
    /\ parent' = "next"
    /\ UNCHANGED <<vars, stage>>

\* The 15 seconds are over.
Kill ==
    /\ parent = "sigint"
    /\ main \notin Exited
    /\ main' = "killed"
    /\ parent' = "next"
    /\ UNCHANGED <<options, how, active, done, session_counter, session, injector, stop_event,
                   all_results, printed, stage>>

-----------------------------------------------------------------------------
Parent == NextStage \/ RampComplete \/ ChildEnded \/ DurationOver \/ Kill

\* The user presses ctrl-C where there is no ramp only.
Generator ==
    /\ \/ Main \/ InjectorThread \/ \E s \in Sessions : Session(s)
       \/ Interrupt /\ parent = "none"
    /\ UNCHANGED <<parent, stage>>

RampNext == Parent \/ Generator

\* The timers of the parent expire.  Of the child what module LoadTest says.
RampSpec == RampInit /\ [][RampNext]_rampVars /\ Fairness /\ WF_rampVars(Parent)

-----------------------------------------------------------------------------
\* A ramp comes to its end whatever becomes of its children: one that crashes,
\* whose requests hang, or that is stopped at any point of its loop does not
\* keep the stages after it from being run.
RampEnds == parent # "none" ~> parent = "complete"

\* The measurement of a stage is of that stage's load alone: the server meets
\* the stages in the order of the plan, none skipped or run twice, each at the
\* concurrency the plan says, and no request of one is in flight when the next
\* begins, although the child may crash, leave its loop while sessions still
\* start, or be killed with requests that never end.
AtWork == IF main \in Exited THEN {} ELSE Busy
Ramp == INSTANCE LoadPlan WITH
    plan <- Stages, repeats <- FALSE, pool <- Cardinality(Live), busy <- Cardinality(AtWork)
ImplementsPlan == Ramp!Spec

=============================================================================
