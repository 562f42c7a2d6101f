---------------------------- MODULE ProviderJobs ----------------------------
(***************************************************************************)
(* The jobs of one provider: who starts them, what keeps them apart, what  *)
(* is shown of them and what they leave in sync.json (scheduler/mod.rs,    *)
(* run_job and run_pipeline of scheduler/runner.rs, api/sync.rs, delete of *)
(* api/providers.rs, startup.rs, reload_sources of main.rs).               *)
(*                                                                         *)
(* The scheduler's round, requests of the API, a deletion and the refresh  *)
(* of old summaries run concurrently.  Only jobs and the refresh take the  *)
(* provider's lock; the rest reads and writes the same state without it.   *)
(* A restart may come between any two steps.                               *)
(*                                                                         *)
(* What a job does to repository and documents is in Processing and        *)
(* Retrieval; here it is a walk or a revalidation that ends or fails.      *)
(***************************************************************************)
CONSTANTS
  Requests,   \* tasks that requests of the API are served by
  Scheduled,  \* the task of the scheduler's round for this provider
  Refresh,    \* the refresh of summaries, as a holder of the lock
  Free,       \* nobody holds the lock
  None,       \* no sync.json, no copy of it
  Torn        \* a sync.json that cannot be parsed

Presence  == {"absent", "disabled", "enabled"}
SyncState == [since : BOOLEAN, synced : BOOLEAN]
Jobs      == Requests \cup {Scheduled}

ASSUME HoldersAssumption ==
  /\ Scheduled \notin Requests
  /\ Refresh \notin Jobs
  /\ Free \notin Jobs \cup {Refresh}

ASSUME FilesAssumption ==
  /\ None \notin SyncState
  /\ Torn \notin SyncState
  /\ None # Torn

VARIABLES
  source,    \* this provider in AppState.sources
  loop,      \* the scheduler's loop
  known,     \* was the provider a source when the last round began?
  wake,      \* the permit of sources_changed
  task,      \* step, kind and loaded sync.json of each job task
  lock,      \* holder of the pipeline lock
  job,       \* the provider's entry in AppState.jobs
  saved,     \* sync.json
  deletion,  \* step of the delete handler
  refresh    \* step of the refresh of an old summary

scheduler == <<loop, known, wake>>
vars == <<source, loop, known, wake, task, lock, job, saved, deletion,
          refresh>>

Idle  == [at |-> "idle", kind |-> "sync", copy |-> None]
Steps == {"idle", "clear", "clear_save", "clear_write", "spawned", "locked",
          "begin", "walk", "revalidate", "advance_save", "advance_write",
          "finished", "counts", "counts_save", "counts_write", "ending"}
Task  == [at : Steps, kind : {"sync", "revalidate"}, copy : SyncState \cup {None}]

\* Steps at which a job is at work, and those at which it holds the lock.
Pipeline == {"begin", "walk", "revalidate", "advance_save", "advance_write",
             "finished"}
Locked   == Pipeline \cup {"locked", "counts", "counts_save", "counts_write",
                           "ending"}

At(t, step) == task[t].at = step
Go(t, step) == task' = [task EXCEPT ![t].at = step]

\* load_sync_state: a default if there is no file, an error if it is torn.
Readable == saved # Torn
Loaded   == IF saved = None THEN [since |-> FALSE, synced |-> FALSE] ELSE saved

\* restore_jobs: a provider that was synced has a completed job.
Restored == IF saved \notin {None, Torn} /\ Loaded.synced THEN "completed" ELSE "none"

NoTasks == [t \in Jobs |-> Idle]

\* The server may have run before.
Init ==
  /\ source \in Presence
  /\ loop = "round" /\ known = FALSE /\ wake = FALSE
  /\ task = NoTasks
  /\ lock = Free
  /\ saved \in SyncState \cup {None, Torn}
  /\ job = Restored
  /\ deletion = "idle"
  /\ refresh \in {"wanted", "done"}

-----------------------------------------------------------------------------
(* Sources and the scheduler's loop *)

\* Mutant: only a loop that is asleep is notified, no permit is kept.
ReloadUnheard ==
  /\ source' \in Presence
  /\ wake' = (wake \/ loop = "sleeping")
  /\ UNCHANGED <<loop, known, task, lock, job, saved, deletion, refresh>>

\* The sources are replaced by those of the sources directory, which holds
\* what was configured meanwhile.  The loop is woken if the set of domains
\* changed, here or for another provider.
Reload ==
  /\ source' \in Presence
  /\ wake' \in {wake \/ (source = "absent") # (source' = "absent"), TRUE}
  /\ UNCHANGED <<loop, known, task, lock, job, saved, deletion, refresh>>

Round ==
  /\ loop = "round"
  /\ loop' = "waiting"
  /\ known' = (source # "absent")
  /\ task' = IF source = "enabled"
               THEN [task EXCEPT ![Scheduled] = [Idle EXCEPT !.at = "spawned"]]
               ELSE task
  /\ UNCHANGED <<source, wake, lock, job, saved, deletion, refresh>>

RoundEnds ==
  /\ loop = "waiting"
  /\ At(Scheduled, "idle")
  /\ loop' = "sleeping"
  /\ UNCHANGED <<source, known, wake, task, lock, job, saved, deletion, refresh>>

Notified ==
  /\ loop = "sleeping"
  /\ wake
  /\ wake' = FALSE
  /\ loop' = "round"
  /\ UNCHANGED <<source, known, task, lock, job, saved, deletion, refresh>>

IntervalElapsed ==
  /\ loop = "sleeping"
  /\ loop' = "round"
  /\ UNCHANGED <<source, known, wake, task, lock, job, saved, deletion, refresh>>

-----------------------------------------------------------------------------
(* Requests: each handler runs without the lock and may spawn a job *)

Trigger(t) ==
  /\ t \in Requests /\ At(t, "idle")
  /\ source # "absent"
  /\ \E full \in BOOLEAN :
       task' = [task EXCEPT ![t] =
                  [Idle EXCEPT !.at = IF full THEN "clear" ELSE "spawned"]]
  /\ UNCHANGED <<source, scheduler, lock, job, saved, deletion, refresh>>

RequestRevalidation(t) ==
  /\ t \in Requests /\ At(t, "idle")
  /\ source # "absent"
  /\ task' = [task EXCEPT ![t] = [Idle EXCEPT !.at = "spawned", !.kind = "revalidate"]]
  /\ UNCHANGED <<source, scheduler, lock, job, saved, deletion, refresh>>

\* A full sync loads sync.json and saves it without the token.
ClearLoad(t) ==
  /\ At(t, "clear")
  /\ Readable
  /\ task' = [task EXCEPT ![t].at = "clear_save",
                          ![t].copy = [Loaded EXCEPT !.since = FALSE]]
  /\ UNCHANGED <<source, scheduler, lock, job, saved, deletion, refresh>>

\* The request ends with an error, nothing is spawned.
ClearFails(t) ==
  /\ task[t].at \in {"clear", "clear_save", "clear_write"}
  /\ task' = [task EXCEPT ![t] = Idle]
  /\ UNCHANGED <<source, scheduler, lock, job, saved, deletion, refresh>>

-----------------------------------------------------------------------------
(* Writing sync.json: the file is emptied, then written *)

WriteStep == [clear_save   |-> "clear_write",
              advance_save |-> "advance_write",
              counts_save  |-> "counts_write"]
NextStep  == [clear_write   |-> "spawned",
              advance_write |-> "finished",
              counts_write  |-> "ending"]

Truncate(t) ==
  /\ task[t].at \in DOMAIN WriteStep
  /\ Go(t, WriteStep[task[t].at])
  /\ saved' = Torn
  /\ UNCHANGED <<source, scheduler, lock, job, deletion, refresh>>

\* If somebody else has written since, the longer text may stick out at the
\* end; if the file was deleted, what is written is deleted with it.
Outcomes(copy) ==
  CASE saved = Torn -> {copy}
    [] saved = None -> {None}
    [] OTHER        -> {copy, Torn, saved}

Write(t) ==
  /\ task[t].at \in DOMAIN NextStep
  /\ saved' \in Outcomes(task[t].copy)
  /\ task' = [task EXCEPT ![t].at = NextStep[task[t].at], ![t].copy = None]
  /\ UNCHANGED <<source, scheduler, lock, job, deletion, refresh>>

-----------------------------------------------------------------------------
(* Jobs: run_job, run_pipeline, run_revalidation *)

\* Mutant: the job is shown before the lock is tried.
TryLockShownFirst(t) ==
  /\ At(t, "spawned")
  /\ job' = "running"
  /\ IF lock = Free
       THEN lock' = t /\ Go(t, "locked")
       ELSE lock' = lock /\ Go(t, "idle")
  /\ UNCHANGED <<source, scheduler, saved, deletion, refresh>>

\* A job that finds the lock taken is skipped.
TryLock(t) ==
  /\ At(t, "spawned")
  /\ IF lock = Free
       THEN lock' = t /\ Go(t, "locked")
       ELSE lock' = lock /\ Go(t, "idle")
  /\ UNCHANGED <<source, scheduler, job, saved, deletion, refresh>>

ShowRunning(t) ==
  /\ At(t, "locked")
  /\ job' = "running"
  /\ Go(t, IF task[t].kind = "sync" THEN "begin" ELSE "revalidate")
  /\ UNCHANGED <<source, scheduler, lock, saved, deletion, refresh>>

\* The token is read here; the walk is full if there is none.
BeginWalk(t) ==
  /\ At(t, "begin")
  /\ Readable
  /\ Go(t, "walk")
  /\ UNCHANGED <<source, scheduler, lock, job, saved, deletion, refresh>>

\* Everything else has succeeded: the token moves to the start of the walk.
Advance(t) ==
  /\ At(t, "walk")
  /\ Readable
  /\ task' = [task EXCEPT ![t].at = "advance_save",
                          ![t].copy = [since |-> TRUE, synced |-> TRUE]]
  /\ UNCHANGED <<source, scheduler, lock, job, saved, deletion, refresh>>

Revalidated(t) ==
  /\ At(t, "revalidate")
  /\ Go(t, "finished")
  /\ UNCHANGED <<source, scheduler, lock, job, saved, deletion, refresh>>

\* Mutant: an error returns before the status is updated.
FailUnshown(t) ==
  /\ task[t].at \in Pipeline \ {"finished"}
  /\ task' = [task EXCEPT ![t].at = "ending", ![t].copy = None]
  /\ UNCHANGED <<source, scheduler, lock, job, saved, deletion, refresh>>

\* Mutant: an error leaves the lock taken.
FailLocked(t) ==
  /\ task[t].at \in Pipeline \ {"finished"}
  /\ job' = "failed"
  /\ task' = [task EXCEPT ![t] = Idle]
  /\ UNCHANGED <<source, scheduler, lock, saved, deletion, refresh>>

Fail(t) ==
  /\ task[t].at \in Pipeline \ {"finished"}
  /\ job' = "failed"
  /\ task' = [task EXCEPT ![t].at = "ending", ![t].copy = None]
  /\ UNCHANGED <<source, scheduler, lock, saved, deletion, refresh>>

Complete(t) ==
  /\ At(t, "finished")
  /\ job' = "completed"
  /\ Go(t, "counts")
  /\ UNCHANGED <<source, scheduler, lock, saved, deletion, refresh>>

\* Mutant: what cannot be parsed is written back.
LoadForCountsUnread(t) ==
  /\ At(t, "counts")
  /\ task' = [task EXCEPT ![t].at = "counts_save", ![t].copy = Loaded]
  /\ UNCHANGED <<source, scheduler, lock, job, saved, deletion, refresh>>

\* persist_job_counts: the counts go into a sync.json loaded once more.
LoadForCounts(t) ==
  /\ At(t, "counts")
  /\ Readable
  /\ task' = [task EXCEPT ![t].at = "counts_save", ![t].copy = Loaded]
  /\ UNCHANGED <<source, scheduler, lock, job, saved, deletion, refresh>>

CountsFail(t) ==
  /\ task[t].at \in {"counts", "counts_save", "counts_write"}
  /\ task' = [task EXCEPT ![t].at = "ending", ![t].copy = None]
  /\ UNCHANGED <<source, scheduler, lock, job, saved, deletion, refresh>>

\* job_finished is sent here.  A refresh that waits for the lock gets it.
End(t) ==
  /\ At(t, "ending")
  /\ task' = [task EXCEPT ![t] = Idle]
  /\ IF refresh = "queued"
       THEN lock' = Refresh /\ refresh' = "holding"
       ELSE lock' = Free /\ refresh' = refresh
  /\ UNCHANGED <<source, scheduler, job, saved, deletion>>

-----------------------------------------------------------------------------
(* Refresh of an old summary after start-up *)

RefreshLocks ==
  /\ refresh = "wanted"
  /\ IF lock = Free
       THEN lock' = Refresh /\ refresh' = "holding"
       ELSE lock' = lock /\ refresh' = "queued"
  /\ UNCHANGED <<source, scheduler, task, job, saved, deletion>>

RefreshEnds ==
  /\ refresh = "holding"
  /\ lock' = Free
  /\ refresh' = "done"
  /\ UNCHANGED <<source, scheduler, task, job, saved, deletion>>

-----------------------------------------------------------------------------
(* Deletion: refused while a job is shown, then step by step without the lock *)

\* The other directories of a provider are not modelled: there may always be
\* something left to delete.
DeleteBegins ==
  /\ deletion = "idle"
  /\ job # "running"
  /\ deletion' = "state"
  /\ UNCHANGED <<source, scheduler, task, lock, job, saved, refresh>>

DeleteState ==
  /\ deletion = "state"
  /\ saved' = None
  /\ deletion' = "source"
  /\ UNCHANGED <<source, scheduler, task, lock, job, refresh>>

DeleteFails ==
  /\ deletion \in {"state", "source"}
  /\ deletion' = "idle"
  /\ UNCHANGED <<source, scheduler, task, lock, job, saved, refresh>>

ForgetSource ==
  /\ deletion = "source"
  /\ source' = "absent"
  /\ deletion' = "job"
  /\ UNCHANGED <<scheduler, task, lock, job, saved, refresh>>

ForgetJob ==
  /\ deletion = "job"
  /\ job' = "none"
  /\ deletion' = "idle"
  /\ UNCHANGED <<source, scheduler, task, lock, saved, refresh>>

-----------------------------------------------------------------------------

\* Crash or shutdown, then start-up: only the files are left.
Restart ==
  /\ source' \in Presence
  /\ loop' = "round" /\ known' = FALSE /\ wake' = FALSE
  /\ task' = NoTasks
  /\ lock' = Free
  /\ job' = Restored
  /\ deletion' = "idle"
  /\ refresh' \in {"wanted", "done"}
  /\ UNCHANGED <<saved>>

JobStep(t) ==
  \/ ClearLoad(t) \/ ClearFails(t) \/ Truncate(t) \/ Write(t)
  \/ TryLock(t) \/ ShowRunning(t) \/ BeginWalk(t) \/ Advance(t)
  \/ Revalidated(t) \/ Fail(t) \/ Complete(t) \/ LoadForCounts(t)
  \/ CountsFail(t) \/ End(t)

LoopStep     == Round \/ RoundEnds \/ Notified \/ IntervalElapsed
DeletionStep == DeleteState \/ DeleteFails \/ ForgetSource \/ ForgetJob
RefreshStep  == RefreshLocks \/ RefreshEnds

Next ==
  \/ Reload
  \/ LoopStep
  \/ \E t \in Jobs : Trigger(t) \/ RequestRevalidation(t) \/ JobStep(t)
  \/ RefreshStep
  \/ DeleteBegins \/ DeletionStep
  \/ Restart

Spec == Init /\ [][Next]_vars

\* Every task is run by tokio and waits for nobody but the refresh, whose turn
\* comes; timeouts end a walk; the loop's interval passes.
FairSpec ==
  /\ Spec
  /\ \A t \in Jobs : WF_vars(JobStep(t))
  /\ WF_vars(LoopStep)
  /\ WF_vars(RefreshStep)
  /\ WF_vars(DeletionStep)

-----------------------------------------------------------------------------
(* Properties *)

TypeOK ==
  /\ source \in Presence
  /\ loop \in {"round", "waiting", "sleeping"}
  /\ known \in BOOLEAN
  /\ wake \in BOOLEAN
  /\ task \in [Jobs -> Task]
  /\ lock \in Jobs \cup {Refresh, Free}
  /\ job \in {"none", "running", "completed", "failed"}
  /\ saved \in SyncState \cup {None, Torn}
  /\ deletion \in {"idle", "state", "source", "job"}
  /\ refresh \in {"wanted", "queued", "holding", "done"}

\* What GET /api/sync shows is what is going on: a running job is a job that
\* holds the provider's lock, and a job at work is shown as running unless a
\* deletion has removed its entry (update_job, get_job, delete).
StatusTrue ==
  /\ job = "running" => \E t \in Jobs : lock = t /\ task[t].at \in Pipeline
  /\ \A t \in Jobs : task[t].at \in Pipeline => job \in {"running", "none"}

\* A source that was added is never slept on: the loop does not sleep while
\* there is a source it has not seen, unless a notification is pending
\* (reload_sources, sources_changed).
NothingSleptOn ==
  loop = "sleeping" /\ source # "absent" /\ ~known => wake

\* A job shown as running ends, whatever fails (run_job).
RunningEnds == job = "running" ~> job # "running"

Revalidating(t) == task[t].kind = "revalidate" /\ ~At(t, "idle")

\* An enabled provider is synced for ever, whatever fails and is deleted, once
\* there are no more restarts and nobody's revalidations take the lock.
SyncedForEver ==
  /\ <>[](source = "enabled")
  /\ <>[][~Restart]_vars
  /\ <>[](\A t \in Requests : ~Revalidating(t))
  => []<>(\E t \in Jobs : At(t, "begin"))

=============================================================================
