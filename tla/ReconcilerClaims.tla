-------------------------- MODULE ReconcilerClaims --------------------------
(***************************************************************************)
(* A statement the README makes about the operator and the code does not   *)
(* keep: TLC shows a behaviour that breaks it.                             *)
(***************************************************************************)
EXTENDS ReconcilerProperties

\* go-operator/README.md, 35: multiple workloads, each targeting a different
\* deployment, work without shared mutable state.  Here one of them may have
\* an endpoint that never answers.
EachWorkloadIsServed ==
    EventuallyUndisturbed =>
      <>[](\A w \in Workloads :
             Reportable(w) => wl[w].status.reason = Diagnosis(w))

=============================================================================
