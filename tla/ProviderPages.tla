---------------------------- MODULE ProviderPages ----------------------------
(***************************************************************************)
(* What is shown of a provider (api/providers.rs list and detail, the      *)
(* provider_detail and distribution_health of storage/mod.rs) while its    *)
(* jobs run: the list holds a placeholder for a source before its first    *)
(* sync, and the health of its distributions is computed by its jobs, or   *)
(* by the first request that finds none, and kept in distributions.json.   *)
(*                                                                         *)
(* Of a job (scheduler/runner.rs) only what the health is computed from is *)
(* left: the metadata at HEAD, the failures of distributions, the rows.    *)
(* Rows and members (records) stand for the version of both written last. *)
(***************************************************************************)
EXTENDS Naturals

CONSTANTS
  Distributions,  \* a provider's metadata may name
  Gone,           \* no file, repository, database or request
  Partial,        \* a file that was truncated and not written again
  MaxChanges      \* bound: writes of rows and members

ASSUME PagesAssumption == MaxChanges \in Nat

VARIABLES
  listed,      \* the source: not listed, disabled or enabled
  summarised,  \* is there a summary?
  metadata,    \* distributions of provider-metadata.json at HEAD
  failures,    \* distribution-errors.json: those that failed
  records,     \* documents.db
  healthFile,  \* distributions.json
  active,      \* the job or the deletion: its step and what it has computed
  request      \* a request: its step, what it has read, and what it answers

VARIABLES
  completed,  \* has the last job completed?
  late        \* has a request written the file since?

pageVars == <<listed, summarised, metadata, failures, records, healthFile, active,
              request, completed, late>>

stored == <<summarised, metadata, failures, records, healthFile>>

Health  == [of : Distributions, failed : BOOLEAN, records : 0 .. MaxChanges]
Healths == SUBSET Health

Activity ==
  [step : {"idle", "commit", "errors", "failing", "process", "members", "health", "truncate",
           "write", "end", "delete repo", "delete state", "delete results", "delete source"},
   health : Healths]

RequestState ==
  [step : {"none", "source", "summary", "file", "health", "truncate", "write", "done"},
   page : {"list", "detail"}, health : Healths, known : BOOLEAN, summary : BOOLEAN,
   source : BOOLEAN, summed : BOOLEAN]

PagesTypeOK ==
  /\ listed \in {"absent", "disabled", "enabled"} /\ summarised \in BOOLEAN
  /\ metadata \in {Gone} \cup SUBSET Distributions
  /\ failures \in {Gone, Partial} \cup SUBSET Distributions
  /\ records \in {Gone} \cup 0 .. MaxChanges
  /\ healthFile \in {Gone, Partial} \cup Healths
  /\ active \in Activity /\ request \in RequestState
  /\ completed \in BOOLEAN /\ late \in BOOLEAN

Inactive == [step |-> "idle", health |-> {}]
NoRequest == [step |-> "none", page |-> "list", health |-> {}, known |-> FALSE,
              summary |-> FALSE, source |-> TRUE, summed |-> TRUE]

PagesInit ==
  /\ listed \in {"absent", "enabled"} /\ summarised = FALSE
  /\ metadata = Gone /\ failures = Gone /\ records = Gone /\ healthFile = Gone
  /\ active = Inactive /\ request = NoRequest
  /\ completed = FALSE /\ late = FALSE

-----------------------------------------------------------------------------
(* compute_distribution_health, for whoever runs it *)

\* What is read one after the other: the metadata (none without a repository),
\* the database if there is one, the failures (none if the file cannot be
\* read), the rows.  (Nothing of it changes while a job is at this step; what a
\* request reads beside a job may be of two moments, and is late.)
HealthNow ==
  IF metadata = Gone \/ records = Gone THEN {}
  ELSE {[of |-> d, records |-> records,
         failed |-> IF failures \in {Gone, Partial} THEN FALSE ELSE d \in failures] : d \in metadata}

-----------------------------------------------------------------------------
(* Jobs: run_sync and run_revalidation *)

At(step)   == active.step = step
Goto(step) == active' = [active EXCEPT !.step = step]

\* What requests must see follows the source and the summary.
Seen(knows, sums) ==
  request' = [request EXCEPT !.source = @ /\ knows, !.summed = @ /\ sums]

BeginJob ==
  /\ At("idle") /\ listed # "absent"
  /\ \/ Goto("commit")
     \/ metadata # Gone /\ Goto("process")
  /\ completed' = FALSE
  /\ UNCHANGED <<listed, stored, request, late>>

\* commit_snapshot and persist_provider_metadata.
Commit ==
  /\ At("commit") /\ Goto("errors")
  /\ metadata' \in SUBSET Distributions
  /\ UNCHANGED <<listed, summarised, failures, records, healthFile, request, completed, late>>

\* save_distribution_errors: the file is truncated, then written.
SaveErrors ==
  /\ \/ At("errors") /\ Goto("failing") /\ failures' = Partial
     \/ At("failing") /\ Goto("process") /\ failures' \in SUBSET Distributions
  /\ UNCHANGED <<listed, summarised, metadata, records, healthFile, request, completed, late>>

NextRows == records' = IF records = Gone THEN 0 ELSE records + 1

RowsLeft == IF records = Gone THEN TRUE ELSE records < MaxChanges

\* process_snapshot: rows and, as the last, the summary.
ProcessSnapshot ==
  /\ At("process") /\ Goto("members") /\ (RowsLeft /\ NextRows)
  /\ summarised' = TRUE
  /\ UNCHANGED <<listed, metadata, failures, healthFile, request, completed, late>>

\* Mutant: the health is computed before the members are saved.
SaveMembershipLast ==
  /\ At("members") /\ RowsLeft /\ NextRows
  /\ active' = [step |-> "truncate", health |-> HealthNow]
  /\ UNCHANGED <<listed, summarised, metadata, failures, healthFile, request, completed, late>>

\* save_distribution_membership; a revalidation has none to save.
SaveMembership ==
  /\ At("members") /\ Goto("health")
  /\ (RowsLeft /\ NextRows) \/ UNCHANGED records
  /\ UNCHANGED <<listed, summarised, metadata, failures, healthFile, request, completed, late>>

\* refresh_distribution_health.
RefreshHealth ==
  /\ At("health")
  /\ active' = [step |-> "truncate", health |-> HealthNow]
  /\ UNCHANGED <<listed, stored, request, completed, late>>

WriteHealth ==
  /\ \/ At("truncate") /\ Goto("write") /\ healthFile' = Partial /\ UNCHANGED late
     \/ At("write") /\ active' = [step |-> "end", health |-> {}] /\ healthFile' = active.health /\ late' = FALSE
  /\ UNCHANGED <<listed, summarised, metadata, failures, records, request, completed>>

EndJob ==
  /\ At("end")
  /\ active' = Inactive /\ completed' = TRUE
  /\ UNCHANGED <<listed, stored, request, late>>

JobSteps == {"commit", "errors", "failing", "process", "members", "health", "truncate", "write",
             "end"}

\* A step of a job fails: what it has written stays.
FailJob ==
  /\ active.step \in JobSteps
  /\ active' = Inactive
  /\ UNCHANGED <<listed, stored, request, completed, late>>

\* The process ends, for its jobs, deletions and requests.
RestartServer ==
  /\ active' = Inactive /\ request' = NoRequest
  /\ UNCHANGED <<listed, stored, completed, late>>

-----------------------------------------------------------------------------
(* DELETE of a provider, and reloads of the sources *)

\* (A job that begins meanwhile is left to ProviderJobs.)
Delete ==
  \/ /\ At("idle") /\ Goto("delete repo") /\ ~(listed = "absent" /\ metadata = Gone /\ healthFile = Gone)
     /\ completed' = FALSE
     /\ UNCHANGED <<listed, stored, request>>
  \/ /\ At("delete repo") /\ Goto("delete state") /\ metadata' = Gone
     /\ UNCHANGED <<listed, summarised, failures, records, healthFile, request, completed>>
  \/ /\ At("delete state") /\ Goto("delete results") /\ failures' = Gone /\ records' = Gone
     /\ UNCHANGED <<listed, summarised, metadata, healthFile, request, completed>>
  \/ /\ At("delete results") /\ Goto("delete source")
     /\ summarised' = FALSE /\ healthFile' = Gone /\ Seen(TRUE, FALSE)
     /\ UNCHANGED <<listed, metadata, failures, records, completed>>
  \/ /\ At("delete source") /\ active' = Inactive
     /\ listed' = "absent" /\ Seen(FALSE, TRUE)
     /\ UNCHANGED <<stored, completed>>

DeleteProvider == Delete /\ UNCHANGED late

ReloadSources ==
  /\ listed' \in {"absent", "disabled", "enabled"} \ {listed}
  /\ Seen((IF request.page = "list" THEN {listed, listed'} = {"enabled"}
           ELSE "absent" \notin {listed, listed'}), TRUE)
  /\ UNCHANGED <<stored, active, completed, late>>

-----------------------------------------------------------------------------
(* Requests *)

RequestAt(step) == request.step = step

Serve(r) ==
  /\ request' = r
  /\ UNCHANGED <<listed, summarised, metadata, failures, records, active, completed>>

Reads(r) == Serve(r) /\ UNCHANGED <<healthFile, late>>

\* What a request is promised: while the source is known, it is there; while
\* there is a summary, that is shown.
BeginRequest ==
  /\ request.step \in {"none", "done"}
  /\ \/ Reads([NoRequest EXCEPT !.page = "list", !.step = "summary",
                !.source = listed = "enabled", !.summed = summarised])
     \/ Reads([NoRequest EXCEPT !.page = "detail", !.step = "source",
                !.source = listed # "absent", !.summed = summarised])

\* list_summaries: the summaries, then the enabled sources without one.
List ==
  /\ request.page = "list"
  /\ \/ RequestAt("summary") /\ Reads([request EXCEPT !.step = "source", !.summary = summarised])
     \/ RequestAt("source") /\ Reads([request EXCEPT !.step = "done", !.known = listed = "enabled"])

\* load_detail: the source, then the summary; distributions only with one.
Detail ==
  /\ request.page = "detail"
  /\ \/ RequestAt("source") /\ Reads([request EXCEPT !.step = "summary", !.known = listed # "absent"])
     \/ RequestAt("summary")
          /\ Reads([request EXCEPT !.step = IF summarised THEN "file" ELSE "done",
                                   !.summary = summarised])

\* distribution_health: what the file says, nothing if it cannot be read.  (The
\* answer itself is not kept here.)
ReadHealth ==
  /\ RequestAt("file")
  /\ Reads([request EXCEPT !.step = IF healthFile = Gone THEN "health" ELSE "done"])

ComputeHealth ==
  RequestAt("health") /\ Reads([request EXCEPT !.step = "truncate", !.health = HealthNow])

\* write_json creates the directory, if the provider was deleted meanwhile too.
KeepHealth ==
  /\ \/ RequestAt("truncate") /\ Serve([request EXCEPT !.step = "write"]) /\ healthFile' = Partial
     \/ RequestAt("write") /\ Serve([request EXCEPT !.step = "done", !.health = {}])
          /\ healthFile' = request.health
  /\ late' = TRUE

PagesNext ==
  \/ BeginJob \/ Commit \/ SaveErrors \/ ProcessSnapshot \/ SaveMembership \/ RefreshHealth
  \/ WriteHealth \/ EndJob \/ FailJob
  \/ RestartServer \/ DeleteProvider \/ ReloadSources
  \/ BeginRequest \/ List \/ Detail \/ ReadHealth \/ ComputeHealth \/ KeepHealth

PagesSpec == PagesInit /\ [][PagesNext]_pageVars

-----------------------------------------------------------------------------

\* Once a job has completed, the health that is kept is that of the metadata,
\* the failures and the rows there are now, however often jobs failed or the
\* server went down before: unless a request that had found no file writes
\* what it computed before.
HealthCurrent ==
  completed /\ At("idle") /\ ~late => healthFile = HealthNow

\* A source that is known all along is in the list or has a page, and what
\* there is a summary of is not shown as a placeholder, while jobs, reloads of
\* the sources and deletions go on between the reads of a request.
NothingUnlisted ==
  RequestAt("done") =>
    /\ request.source => request.known \/ request.summary
    /\ request.summed => request.summary

PagesTrue == HealthCurrent /\ NothingUnlisted

=============================================================================
