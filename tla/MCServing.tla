----------------------------- MODULE MCServing -----------------------------
(***************************************************************************)
(* The three views the server keeps of its jobs.  They share the jobs and  *)
(* nothing else, and none acts on another: a behaviour follows one.  One   *)
(* provider has no summary to begin with.                                  *)
(***************************************************************************)
EXTENDS SummaryCaches, OverviewCache, JobProgress

VARIABLE view

allVars == <<view, vars, world, overview, progressVars>>

Init ==
  /\ view \in {"providers", "overview", "progress"}
  /\ CachesInit /\ OverviewInit /\ ProgressInit
  /\ Cardinality({d \in Domains : files[d] = None}) = IF view = "providers" THEN 1 ELSE 0

Providers(A) == view = "providers" /\ A /\ UNCHANGED <<view, world, overview, progressVars>>

Next ==
  \/ Providers(CachesNext)
  \/ view = "overview" /\ OverviewNext /\ UNCHANGED <<view, store, work, caches, progressVars>>
  \/ view = "progress" /\ ProgressNext /\ UNCHANGED <<view, vars, world, overview>>

\* The hook's task and whoever loads the index run on.
Fairness ==
  /\ WF_allVars(Providers(Received))
  /\ WF_allVars(Providers(Handle))
  /\ WF_allVars(Providers((\E d \in Domains : LoadFile(d)) \/ EndLoad))

Spec == Init /\ [][Next]_allVars /\ Fairness

TypeOK == CachesTypeOK /\ OverviewTypeOK /\ ProgressTypeOK

=============================================================================
