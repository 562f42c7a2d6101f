---------------------------- MODULE JobProgress ----------------------------
(***************************************************************************)
(* What is shown of a provider's job: its entry in AppState.jobs, written  *)
(* by the pipeline, by tasks it spawns, by a deletion and at startup       *)
(* (main.rs, scheduler/runner.rs, startup.rs), and a page that follows it  *)
(* through the WebSocket of api/sync.rs.                                   *)
(*                                                                         *)
(* Every write takes the lock of jobs; the notification is sent after the  *)
(* lock was released.  Counters are left out.                              *)
(***************************************************************************)
EXTENDS Integers, Sequences, SequencesExt

CONSTANTS
  Nothing,  \* no entry, no phase, no run yet
  MaxRuns   \* bound: jobs that are run

ASSUME ProgressAssumption == MaxRuns \in Nat /\ Nothing \notin Int

\* PipelinePhase, "phases that a sync job progresses through in order".
Phases == <<"maintenance", "checkout", "discover", "sync", "commit",
            "clean_selection", "select_inputs", "scan_history", "resolve_changes",
            "check_recovered_downloads", "clean_validation_files",
            "count_validation_files", "extract_validation_files", "clean_results",
            "validate", "version_counts", "summary", "report">>

Phase == ToSet(Phases)
Rank  == [p \in Phase |-> CHOOSE i \in DOMAIN Phases : Phases[i] = p]

VARIABLES
  startup,  \* task of startup::run, then "ready"
  entry,    \* the provider's JobStatus
  runs,     \* jobs ended so far, which serves as the time
  task,     \* the job: its step, the phase it is in, phases it reported
  spawned,  \* tasks of start_distribution that are still to run
  removal   \* a deletion that found no job running

VARIABLES
  samples,  \* BlockingProgress: phases reported by blocking work
  drained   \* samples being published

VARIABLES
  writers,  \* who has written the entry and is about to notify
  changed,  \* the page's receiver has not seen the last notification
  page      \* the WebSocket of a page; is the entry it shows the current one?

bridge == <<samples, drained>>
viewer == <<changed, page>>
progressVars == <<startup, entry, runs, task, spawned, removal, bridge, writers, viewer>>

Times  == {Nothing} \cup Nat
Status == [status : {"running", "completed", "failed"}, phase : Phase \cup {Nothing},
           passed : Seq(Phase), completed_at : Times, last_completed_at : Times]

\* No entry and no phase are None, which is neither.
ASSUME NothingAssumption == Nothing \notin Phase \cup Status

Fresh(p, last) == [status |-> "running", phase |-> p, passed |-> <<>>,
                   completed_at |-> Nothing, last_completed_at |-> last]

\* last, copy: what the job read of the entry and is about to write back.
Task == [at : {"idle", "starting", "working", "blocking", "published", "ending", "ended"},
         kind : {"sync", "revalidate"}, phase : Phase \cup {Nothing}, last : Times,
         copy : Status \cup {Nothing}, seen : SUBSET Phase]

NoTask == [at |-> "idle", kind |-> "sync", phase |-> Nothing, last |-> Nothing,
           copy |-> Nothing, seen |-> {}]

ProgressTypeOK ==
  /\ startup \in {"sources", "jobs", "points", "ready"}
  /\ entry \in Status \cup {Nothing}
  /\ runs \in Nat
  /\ task \in Task
  /\ spawned \in BOOLEAN /\ removal \in BOOLEAN
  /\ samples \in Seq(Phase) /\ drained \in Seq(Phase)
  /\ writers \subseteq {"job", "spawned"}
  /\ changed \in BOOLEAN
  /\ page \in [at : {"closed", "sending", "waiting"}, current : BOOLEAN]

ProgressInit ==
  /\ startup = "sources"
  /\ entry = Nothing /\ runs = 0 /\ task = NoTask
  /\ spawned = FALSE /\ removal = FALSE
  /\ samples = <<>> /\ drained = <<>>
  /\ writers = {} /\ changed = FALSE
  /\ page = [at |-> "closed", current |-> FALSE]

\* A write under the lock, of which w is about to notify.
Wrote(w, status) ==
  /\ entry' = status
  /\ writers' = writers \cup {w}
  /\ page' = [page EXCEPT !.current = @ /\ status = entry]

Quiet(w) == w \notin writers

Notify(w) ==
  /\ w \in writers
  /\ writers' = writers \ {w}
  /\ changed' = (page.at # "closed")
  /\ UNCHANGED <<startup, entry, runs, task, spawned, removal, bridge, page>>

-----------------------------------------------------------------------------
(* startup::run: sources, restored jobs, sync points, then requests are served *)

\* A provider that was synced before has a completed job; nobody is notified.
RestoreJobs ==
  /\ startup = "jobs"
  /\ startup' = "points"
  /\ \/ UNCHANGED entry
     \/ entry' = [status |-> "completed", phase |-> Nothing, passed |-> <<>>,
                  completed_at |-> 0, last_completed_at |-> 0]
  /\ page' = [page EXCEPT !.current = @ /\ entry' = entry]
  /\ UNCHANGED <<runs, task, spawned, removal, bridge, writers, changed>>

StartupStep(from, to) ==
  /\ startup = from
  /\ startup' = to
  /\ UNCHANGED <<entry, runs, task, spawned, removal, bridge, writers, viewer>>

Startup == StartupStep("sources", "jobs") \/ RestoreJobs \/ StartupStep("points", "ready")

\* The data endpoints answer 503 until then; the scheduler starts after it.
Ready == startup = "ready"

-----------------------------------------------------------------------------
(* run_job *)

\* The time of the last run is read from the entry that will be replaced.
RunJob(kind) ==
  /\ Ready /\ task.at = "idle" /\ Quiet("job") /\ runs < MaxRuns
  /\ task' = [NoTask EXCEPT !.at = "starting", !.kind = kind,
                !.last = IF entry = Nothing THEN Nothing ELSE entry.completed_at]
  /\ UNCHANGED <<startup, entry, runs, spawned, removal, bridge, writers, viewer>>

Begin ==
  /\ task.at = "starting"
  /\ LET first == IF task.kind = "sync" THEN "maintenance" ELSE "checkout" IN
     /\ Wrote("job", Fresh(first, task.last))
     /\ task' = [task EXCEPT !.at = "working", !.phase = first, !.seen = {first}]
  /\ UNCHANGED <<startup, runs, spawned, removal, bridge, changed>>

\* set_phase_work: the phase that is left is appended to those passed.
InPhase(status, p) ==
  IF status = Nothing \/ status.phase = p THEN status
  ELSE [status EXCEPT !.phase = p,
          !.passed = IF status.phase = Nothing THEN @ ELSE Append(@, status.phase)]

\* Phases the pipeline never enters itself, and those it may pass over.
Foreign  == {"sync", "scan_history", "resolve_changes", "extract_validation_files"}
Optional == {"validate", "version_counts", "summary"}

\* The phases that may be next.  A revalidation fetches and commits nothing.
NextPhases ==
  LET omitted == IF task.kind = "sync" THEN Foreign ELSE Foreign \cup {"discover", "commit"}
      later   == {p \in Phase \ omitted : Rank[p] > Rank[task.phase]} IN
  {p \in later : \A q \in later : Rank[q] < Rank[p] => q \in Optional}

\* What was entered is remembered for as long as the entry exists.
Seen(p) == IF entry = Nothing THEN task.seen ELSE task.seen \cup {p}

Blocking == {"select_inputs", "count_validation_files"}

Enter(p) ==
  /\ task.at = "working" /\ Quiet("job")
  /\ task.phase \notin {"select_inputs", "scan_history"}
  /\ p \in NextPhases
  /\ Wrote("job", InPhase(entry, p))
  /\ task' = [task EXCEPT !.at = IF p \in Blocking THEN "blocking" ELSE "working",
                !.phase = p, !.seen = Seen(p)]
  /\ UNCHANGED <<startup, runs, spawned, removal, bridge, changed>>

-----------------------------------------------------------------------------
(* JobProgress::start, start_distribution: a task of its own for each distribution *)

\* bound: one task waits to run.
Spawn ==
  /\ task.at = "working" /\ task.phase = "discover" /\ Quiet("job")
  /\ spawned' = TRUE
  /\ UNCHANGED <<startup, entry, runs, task, removal, bridge, writers, viewer>>

\* Mutant: whoever is late moves the job to the phase "sync".
StartDistributionLate ==
  /\ spawned /\ Quiet("spawned")
  /\ spawned' = FALSE
  /\ Wrote("spawned", InPhase(entry, "sync"))
  /\ UNCHANGED <<startup, runs, task, removal, bridge, changed>>

StartDistribution ==
  /\ spawned /\ Quiet("spawned")
  /\ spawned' = FALSE
  /\ Wrote("spawned", IF entry # Nothing /\ entry.phase = "discover"
                        THEN InPhase(entry, "sync") ELSE entry)
  /\ UNCHANGED <<startup, runs, task, removal, bridge, changed>>

-----------------------------------------------------------------------------
(* BlockingProgress: blocking work reports, the job publishes now and then *)

Reports(p) == CASE p = "select_inputs" -> {"scan_history"}
                [] p = "scan_history" -> {"scan_history", "resolve_changes"}
                [] p = "count_validation_files" -> {p, "extract_validation_files"}
                [] OTHER -> {p}

\* Mutant: only the last sample is kept.
RecordLast(p) == samples' = IF samples = <<>> THEN <<p>> ELSE Append(Front(samples), p)

Record(p) == samples' = IF samples # <<>> /\ Last(samples) = p THEN samples ELSE Append(samples, p)

Report(p) ==
  /\ task.at = "blocking" /\ p \in Reports(task.phase)
  /\ Record(p)
  /\ task' = [task EXCEPT !.phase = p, !.seen = Seen(p)]
  /\ UNCHANGED <<startup, entry, runs, spawned, removal, drained, writers, viewer>>

Drain ==
  /\ task.at \in {"blocking", "published"} /\ drained = <<>> /\ samples # <<>>
  /\ drained' = samples
  /\ samples' = <<>>
  /\ UNCHANGED <<startup, entry, runs, task, spawned, removal, writers, viewer>>

Publish ==
  /\ drained # <<>> /\ Quiet("job")
  /\ Wrote("job", InPhase(entry, Head(drained)))
  /\ drained' = Tail(drained)
  /\ UNCHANGED <<startup, runs, task, spawned, removal, samples, changed>>

\* The work is done, or failed: what is left is published.
WorkDone ==
  /\ task.at = "blocking"
  /\ task' = [task EXCEPT !.at = "published"]
  /\ UNCHANGED <<startup, entry, runs, spawned, removal, bridge, writers, viewer>>

Published ==
  /\ task.at = "published" /\ samples = <<>> /\ drained = <<>> /\ Quiet("job")
  /\ task' = [task EXCEPT !.at = "working"]
  /\ UNCHANGED <<startup, entry, runs, spawned, removal, bridge, writers, viewer>>

-----------------------------------------------------------------------------
(* run_job, its end: the entry is read, changed and written back *)

\* Of an entry that was removed nothing is left to carry over.
Ending(status) ==
  LET found == IF entry = Nothing THEN [Fresh(Nothing, Nothing) EXCEPT !.status = status]
               ELSE [entry EXCEPT !.status = status]
      ended == [found EXCEPT !.completed_at = runs + 1] IN
  IF status = "failed" \/ ended.phase = Nothing THEN ended
  ELSE [ended EXCEPT !.phase = Nothing, !.passed = Append(@, found.phase)]

GetJob ==
  /\ task.at = "working" /\ Quiet("job")
  /\ \E status \in IF task.phase = "report" THEN {"completed", "failed"} ELSE {"failed"} :
       task' = [task EXCEPT !.at = "ending", !.copy = Ending(status)]
  /\ runs' = runs + 1
  /\ UNCHANGED <<startup, entry, spawned, removal, bridge, writers, viewer>>

UpdateJob ==
  /\ task.at = "ending"
  /\ Wrote("job", task.copy)
  /\ task' = [task EXCEPT !.at = "ended", !.copy = Nothing]
  /\ UNCHANGED <<startup, runs, spawned, removal, bridge, changed>>

JobEnds ==
  /\ task.at = "ended" /\ Quiet("job")
  /\ task' = NoTask
  /\ UNCHANGED <<startup, entry, runs, spawned, removal, bridge, writers, viewer>>

\* delete: the job's status is looked at once, the entry is removed much
\* later and without a notification.
BeginRemoval ==
  /\ Ready /\ ~removal
  /\ (IF entry = Nothing THEN TRUE ELSE entry.status # "running")
  /\ removal' = TRUE
  /\ UNCHANGED <<startup, entry, runs, task, spawned, bridge, writers, viewer>>

RemoveJob ==
  /\ removal
  /\ removal' = FALSE
  /\ entry' = Nothing
  /\ page' = [page EXCEPT !.current = @ /\ entry = Nothing]
  /\ task' = [task EXCEPT !.seen = {}]
  /\ UNCHANGED <<startup, runs, spawned, bridge, writers, changed>>

-----------------------------------------------------------------------------
(* ws: a page subscribes, is sent everything, then again for notifications and heartbeats *)

\* Mutant: the WebSocket is open before the server is ready.
OpenEarly ==
  /\ page.at = "closed"
  /\ page' = [page EXCEPT !.at = "sending"]
  /\ changed' = FALSE
  /\ UNCHANGED <<startup, entry, runs, task, spawned, removal, bridge, writers>>

\* A page that lost its connection opens one again.
Open ==
  /\ Ready /\ page.at = "closed"
  /\ page' = [page EXCEPT !.at = "sending"]
  /\ changed' = FALSE
  /\ UNCHANGED <<startup, entry, runs, task, spawned, removal, bridge, writers>>

SendState ==
  /\ page.at = "sending"
  /\ page' = [at |-> "waiting", current |-> TRUE]
  /\ UNCHANGED <<startup, entry, runs, task, spawned, removal, bridge, writers, changed>>

Changed ==
  /\ page.at = "waiting" /\ changed
  /\ changed' = FALSE
  /\ page' = [page EXCEPT !.at = "sending"]
  /\ UNCHANGED <<startup, entry, runs, task, spawned, removal, bridge, writers>>

Heartbeat ==
  /\ page.at = "waiting"
  /\ page' = [page EXCEPT !.at = "sending"]
  /\ UNCHANGED <<startup, entry, runs, task, spawned, removal, bridge, writers, changed>>

Close ==
  /\ page.at = "waiting"
  /\ page' = [page EXCEPT !.at = "closed", !.current = FALSE]
  /\ changed' = FALSE
  /\ UNCHANGED <<startup, entry, runs, task, spawned, removal, bridge, writers>>

-----------------------------------------------------------------------------

Run    == (\E kind \in {"sync", "revalidate"} : RunJob(kind)) \/ Begin
          \/ (\E p \in Phase : Enter(p)) \/ Spawn \/ StartDistribution
          \/ GetJob \/ UpdateJob \/ JobEnds
Bridge == (\E p \in Phase : Report(p)) \/ Drain \/ Publish \/ WorkDone \/ Published
Page   == Open \/ SendState \/ Changed \/ Heartbeat \/ Close

ProgressNext ==
  \/ Startup \/ Run \/ Bridge \/ Page
  \/ BeginRemoval \/ RemoveJob
  \/ \E w \in {"job", "spawned"} : Notify(w)

ProgressSpec == ProgressInit /\ [][ProgressNext]_progressVars

-----------------------------------------------------------------------------

\* The phases of a job are shown in the order of the pipeline, and none twice,
\* however late the task of a distribution runs and even if it was spawned by
\* an earlier job.
PhasesInOrder ==
  entry # Nothing =>
    LET all == IF entry.phase = Nothing THEN entry.passed ELSE Append(entry.passed, entry.phase) IN
    \A i, j \in DOMAIN all : i < j => Rank[all[i]] < Rank[all[j]]

\* No phase that a job entered, or that its blocking work reported, is lost on
\* its way to the entry.
PhasesKept ==
  entry # Nothing /\ task.at \notin {"idle", "starting"} =>
    task.seen \subseteq ToSet(entry.passed) \cup {entry.phase}
                          \cup ToSet(samples) \cup ToSet(drained)

\* The phases shown are those the job went through, in their order.
PhasesTrue == PhasesInOrder /\ PhasesKept

\* A page that waits for a notification, with none on its way, shows the job
\* as it is.  (The deletion of a provider is only seen at the next heartbeat.)
PageCurrent ==
  page.at = "waiting" /\ ~changed /\ writers = {} /\ entry # Nothing => page.current

=============================================================================
