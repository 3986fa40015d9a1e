--------------------------- MODULE OutageHistory ---------------------------
(***************************************************************************)
(* The operator of module Reconciler with one history variable, for the    *)
(* statement of the README that relates consecutive Reconciles.            *)
(***************************************************************************)
EXTENDS ReconcilerProperties

VARIABLE last   \* last[w]: what the latest Reconcile of w concluded, or NoReason

\* A Reconcile reaches one of its exits in this step.
Concluding(o) == rec[o].pc # "status" /\ rec'[o].pc = "status"

Remember ==
    last' = [w \in Workloads |->
               IF \E o \in Operators : Concluding(o) /\ rec[o].w = w
               THEN rec'[CHOOSE o \in Operators : Concluding(o) /\ rec[o].w = w].outcome
               ELSE last[w]]

HistoryInit == Init /\ last = [w \in Workloads |-> NoReason]
HistorySpec == HistoryInit /\ [][Next /\ Remember]_<<vars, last>>

\* go-operator/README.md, 82: a sustained failure produces exactly one
\* Warning event, not one per tick.
OneWarningPerOutage ==
    [][\A o \in Operators :
          LET reason == rec'[o].outcome
          IN Concluding(o) /\ reason \in FailureReasons /\ last[rec[o].w] = reason =>
               reason \notin rec'[o].emitted]_<<vars, last>>

=============================================================================
