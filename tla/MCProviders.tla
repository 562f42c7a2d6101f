---------------------------- MODULE MCProviders ----------------------------
(***************************************************************************)
(* A provider's jobs, the sources they come from and the database they     *)
(* write to.  What each hands to the other (the set of sources changes at  *)
(* any time; a job gets the database or an error) is left open where it is *)
(* received, so a behaviour follows one of the three.                      *)
(***************************************************************************)
EXTENDS ProviderJobs, ConfigSync, Databases

CONSTANTS f1, f2, v1

\* One of the sources stands in the server's configuration file.
OneInline == [f \in Files |-> IF f = f1 THEN v1 ELSE Missing]

VARIABLE part

allVars == <<part, vars, configVars, databaseVars>>

JobsPart(A)    == part = "jobs" /\ A /\ UNCHANGED <<part, configVars, databaseVars>>
SourcesPart(A) == part = "sources" /\ A /\ UNCHANGED <<part, vars, databaseVars>>

AllInit ==
  /\ part \in {"jobs", "sources", "database"}
  /\ Init /\ ConfigInit /\ DatabasesInit
  /\ part # "jobs" => source = "absent" /\ saved = None /\ refresh = "done"
  /\ part # "sources" => remote = NoFiles

AllNext ==
  \/ JobsPart(Next)
  \/ SourcesPart(ConfigNext)
  \/ part = "database" /\ DatabasesNext /\ UNCHANGED <<part, vars, configVars>>

\* As in FairSpec; and the scheduler polls the configuration repository, and a
\* sync that has begun runs on.
Fairness ==
  /\ \A t \in Jobs : WF_allVars(JobsPart(JobStep(t)))
  /\ WF_allVars(JobsPart(LoopStep))
  /\ WF_allVars(JobsPart(RefreshStep))
  /\ WF_allVars(JobsPart(DeletionStep))
  /\ WF_allVars(SourcesPart(BeginPoll))
  /\ \A s \in Syncers : WF_allVars(SourcesPart(Runs(s)))

AllSpec == AllInit /\ [][AllNext]_allVars /\ Fairness

=============================================================================
