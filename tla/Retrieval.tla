----------------------------- MODULE Retrieval -----------------------------
(***************************************************************************)
(* Incremental retrieval of one provider's advisories                      *)
(* (pipeline/sync.rs, pipeline/membership.rs, and run_pipeline and         *)
(* run_revalidation of scheduler/runner.rs).                               *)
(*                                                                         *)
(* A sync downloads only what changed since the persisted since token and  *)
(* what failed last time.  The token moves to the start of a run after     *)
(* everything else of that run has succeeded; the failures are kept in the *)
(* documents table, which the processing of the committed snapshot         *)
(* rewrites.  Token and failures together must never forget an advisory.   *)
(*                                                                         *)
(* Processing is taken here by the steps that touch the recorded failures; *)
(* module Processing has the rest of it.                                   *)
(***************************************************************************)
EXTENDS Naturals

CONSTANTS
  Docs,             \* advisories
  Distributions,    \* feeds and directories of the provider
  Clear,            \* those that are TLP:CLEAR feeds
  Listed,           \* the advisories each distribution lists
  None,             \* absence: no token, not published, not mirrored
  MaxClock,         \* bound on time
  MaxVersion,       \* bound on the versions of an advisory
  Skips,            \* may the index of a distribution outside Clear fail?
  FullInterrupted   \* may a full pass be interrupted?

ASSUME RetrievalAssumption ==
  /\ Clear \subseteq Distributions
  /\ Listed \in [Distributions -> SUBSET Docs]
  /\ MaxClock \in Nat
  /\ MaxVersion \in Nat \ {0}
  /\ Skips \in BOOLEAN
  /\ FullInterrupted \in BOOLEAN

Version     == 1 .. MaxVersion
Time        == 0 .. MaxClock
Publication == [version : Version, modified : Time]

ASSUME NoneAssumption == None \notin Nat /\ None \notin Publication

VARIABLES
  clock,       \* the time, the same for us and the provider
  remote,      \* what the provider publishes of each advisory
  token,       \* since_token of sync.json
  mirror,      \* the version of each advisory at HEAD
  checkpoint,  \* is there a checkpoint in HEAD's history?
  touched,     \* advisories committed differently since the checkpoint
  rows,        \* advisories with a row in the documents table
  failed,      \* those whose row records a retrieval failure
  pc,          \* next step of the running job
  job          \* that job's local variables

world == <<clock, remote>>
store == <<checkpoint, rows, failed>>
vars  == <<clock, remote, token, mirror, checkpoint, touched, rows, failed, pc, job>>

Published(d) == remote[d] # None
Mirrored(d)  == Published(d) => mirror[d] = remote[d].version

Steps == {"idle", "discover", "commit", "select", "validate", "failures",
          "publish", "token"}

Job == [sync : BOOLEAN, started : Time, since : Time \cup {None},
        retry : SUBSET Docs, open : SUBSET Distributions, pending : SUBSET Docs,
        fetched : [Docs -> Version \cup {None}], errors : SUBSET Docs,
        full : BOOLEAN, todo : SUBSET Docs]

Nothing == [d \in Docs |-> None]
NoJob   == [sync |-> FALSE, started |-> 0, since |-> None, retry |-> {},
            open |-> {}, pending |-> {}, fetched |-> Nothing, errors |-> {},
            full |-> FALSE, todo |-> {}]

Init ==
  /\ clock = 0
  /\ remote = Nothing
  /\ token = None
  /\ mirror = Nothing
  /\ checkpoint = FALSE
  /\ touched = {}
  /\ rows = {}
  /\ failed = {}
  /\ pc = "idle"
  /\ job = NoJob

-----------------------------------------------------------------------------
(* The provider *)

Tick ==
  /\ clock < MaxClock
  /\ clock' = clock + 1
  /\ UNCHANGED <<remote, token, mirror, store, touched, pc, job>>

\* A new advisory or a new version of one; its index entry carries the time.
Release(d) ==
  LET version == IF Published(d) THEN remote[d].version + 1 ELSE 1 IN
  /\ version <= MaxVersion
  /\ remote' = [remote EXCEPT ![d] = [version |-> version, modified |-> clock]]
  /\ UNCHANGED <<clock, token, mirror, store, touched, pc, job>>

-----------------------------------------------------------------------------
(* Discovery and download *)

\* A full re-sync is asked for at any time, also while a job runs.
TriggerFull ==
  /\ token' = None
  /\ UNCHANGED <<world, mirror, store, touched, pc, job>>

\* An empty database makes a sync a full one.
Since == IF rows = {} THEN None ELSE token

\* Mutant: recorded failures are not retried.
RetryNever == {}
Retry == IF Since = None THEN {} ELSE failed

StartSync ==
  /\ pc = "idle"
  /\ pc' = "discover"
  /\ job' = [NoJob EXCEPT !.sync = TRUE, !.started = clock, !.since = Since,
                          !.retry = Retry, !.open = Distributions]
  /\ UNCHANGED <<world, token, mirror, store, touched>>

\* load_index keeps what changed at or after the token, or failed last time.
IsSelected(d) ==
  job.since # None => remote[d].modified >= job.since \/ d \in job.retry

\* The walker takes one distribution after the other.
LoadIndex(distribution) ==
  /\ pc = "discover"
  /\ job.pending = {}
  /\ distribution \in job.open
  /\ job' = [job EXCEPT
              !.open = @ \ {distribution},
              !.pending = {d \in Listed[distribution] : Published(d) /\ IsSelected(d)}]
  /\ UNCHANGED <<world, token, mirror, store, touched, pc>>

\* The index of a distribution cannot be read.  A TLP:CLEAR feed ends the sync
\* with an error (see Interrupt); any other distribution is reported and skipped.
SkipDistribution(distribution) ==
  /\ Skips
  /\ pc = "discover"
  /\ job.pending = {}
  /\ distribution \in job.open \ Clear
  /\ job' = [job EXCEPT !.open = @ \ {distribution}]
  /\ UNCHANGED <<world, token, mirror, store, touched, pc>>

\* The version downloaded is the current one, not the one that was listed.
Download(d) ==
  /\ pc = "discover"
  /\ d \in job.pending
  /\ job' = [job EXCEPT !.pending = @ \ {d}, !.fetched[d] = remote[d].version]
  /\ UNCHANGED <<world, token, mirror, store, touched, pc>>

\* One failing download does not end the sync.
DownloadFails(d) ==
  /\ pc = "discover"
  /\ d \in job.pending
  /\ job' = [job EXCEPT !.pending = @ \ {d}, !.errors = @ \cup {d}]
  /\ UNCHANGED <<world, token, mirror, store, touched, pc>>

Discovered ==
  /\ pc = "discover"
  /\ job.open = {}
  /\ job.pending = {}
  /\ pc' = "commit"
  /\ UNCHANGED <<world, token, mirror, store, touched, job>>

Fetched == {d \in Docs : job.fetched[d] # None}

Commit ==
  /\ pc = "commit"
  /\ mirror' = [d \in Docs |-> IF d \in Fetched THEN job.fetched[d] ELSE mirror[d]]
  /\ touched' = touched \cup {d \in Fetched : job.fetched[d] # mirror[d]}
  /\ pc' = "select"
  /\ UNCHANGED <<world, token, store, job>>

-----------------------------------------------------------------------------
(* Processing *)

\* Nothing is fetched; the recorded failures are applied again afterwards.
Revalidate ==
  /\ pc = "idle"
  /\ pc' = "select"
  /\ job' = [NoJob EXCEPT !.errors = failed, !.full = TRUE]
  /\ UNCHANGED <<world, token, mirror, store, touched>>

\* Without a checkpoint all results are deleted and built again; a forced pass
\* drops the checkpoint; new keys or a new policy make any pass a full one.
Select ==
  LET baseline == ~checkpoint
      present  == {d \in Docs : mirror[d] # None} IN
  /\ pc = "select"
  /\ \E full \in {f \in BOOLEAN : baseline \/ job.full => f} :
       LET todo == IF full THEN present ELSE touched \cup (Fetched \cap failed) IN
       /\ job' = [job EXCEPT !.full = full, !.todo = todo]
       /\ pc' = IF todo = {} THEN "failures" ELSE "validate"
  /\ rows' = IF baseline THEN {} ELSE rows
  /\ failed' = IF baseline THEN {} ELSE failed
  /\ checkpoint' = (checkpoint /\ job.sync)
  /\ UNCHANGED <<world, token, mirror, touched>>

\* A validated advisory's row no longer records a failure.
ValidateOne(d) ==
  /\ pc = "validate"
  /\ d \in job.todo
  /\ rows' = rows \cup {d}
  /\ failed' = failed \ {d}
  /\ job' = [job EXCEPT !.todo = @ \ {d}]
  /\ pc' = IF job.todo = {d} THEN "failures" ELSE "validate"
  /\ UNCHANGED <<world, token, mirror, checkpoint, touched>>

\* Mutant: no stub row for an advisory that was never stored.
SaveRetrievalErrorsWithoutStubs ==
  /\ pc = "failures"
  /\ failed' = failed \cup job.errors
  /\ pc' = "publish"
  /\ UNCHANGED <<world, token, mirror, checkpoint, rows, touched, job>>

SaveRetrievalErrors ==
  /\ pc = "failures"
  /\ rows' = rows \cup job.errors
  /\ failed' = failed \cup job.errors
  /\ pc' = "publish"
  /\ UNCHANGED <<world, token, mirror, checkpoint, touched, job>>

\* A revalidation ends here and leaves the token alone.
Publish ==
  /\ pc = "publish"
  /\ checkpoint' = TRUE
  /\ touched' = {}
  /\ IF job.sync THEN pc' = "token" /\ UNCHANGED job
                 ELSE pc' = "idle" /\ job' = NoJob
  /\ UNCHANGED <<world, token, mirror, rows, failed>>

\* Mutant: the token is the time the run ended.
AdvanceTokenToEnd ==
  /\ pc = "token"
  /\ token' = clock
  /\ pc' = "idle"
  /\ job' = NoJob
  /\ UNCHANGED <<world, mirror, store, touched>>

\* Last, so that a failure before it makes the next run fetch the same again.
AdvanceToken ==
  /\ pc = "token"
  /\ token' = job.started
  /\ pc' = "idle"
  /\ job' = NoJob
  /\ UNCHANGED <<world, mirror, store, touched>>

-----------------------------------------------------------------------------
\* A TLP:CLEAR index that cannot be read, any other error, or a crash.
Interrupt ==
  /\ pc # "idle"
  /\ job.full => FullInterrupted
  /\ pc' = "idle"
  /\ job' = NoJob
  /\ UNCHANGED <<world, token, mirror, store, touched>>

\* What a job does when nothing fails.
Work ==
  \/ \E distribution \in Distributions : LoadIndex(distribution)
  \/ \E d \in Docs : Download(d)
  \/ Discovered
  \/ Commit
  \/ Select
  \/ \E d \in Docs : ValidateOne(d)
  \/ SaveRetrievalErrors
  \/ Publish
  \/ AdvanceToken

Trouble ==
  \/ \E distribution \in Distributions : SkipDistribution(distribution)
  \/ \E d \in Docs : DownloadFails(d)
  \/ Interrupt

Next ==
  \/ Tick
  \/ \E d \in Docs : Release(d)
  \/ TriggerFull
  \/ StartSync
  \/ Revalidate
  \/ Work
  \/ Trouble

Spec == Init /\ [][Next]_vars

\* The scheduler starts syncs for ever; strongly fair because revalidations
\* compete with them for the provider's lock.
FairSpec == Spec /\ SF_vars(StartSync) /\ WF_vars(Work)

-----------------------------------------------------------------------------
(* Properties *)

TypeOK ==
  /\ clock \in Time
  /\ remote \in [Docs -> Publication \cup {None}]
  /\ token \in Time \cup {None}
  /\ mirror \in [Docs -> Version \cup {None}]
  /\ checkpoint \in BOOLEAN
  /\ touched \subseteq Docs
  /\ rows \subseteq Docs
  /\ failed \subseteq rows
  /\ pc \in Steps
  /\ job \in Job

\* The next sync will ask for the advisory again.
Due(d) == Since # None => remote[d].modified >= Since \/ d \in failed

\* Nothing listed there is forgotten: the current version is mirrored, or the
\* next sync asks for it.
CoveredIn(distribution) ==
  \A d \in Listed[distribution] : Published(d) => Mirrored(d) \/ Due(d)

\* Between jobs no listed advisory is forgotten, whatever changed during the
\* walk, failed to download or was interrupted (sync.rs sync_provider:
\* "documents changed during the walk are picked up next time").
NothingMissed ==
  pc = "idle" => \A distribution \in Distributions : CoveredIn(distribution)

\* The same for the distributions whose failure ends the sync instead of being
\* skipped (sync.rs, the distribution error handler).
ClearNeverMissed ==
  pc = "idle" => \A distribution \in Clear : CoveredIn(distribution)

\* Once nothing goes wrong any more, the mirror becomes current and stays so,
\* also for advisories whose download failed long before the token; one that
\* only a skipped distribution lists may have been forgotten before.  (Skipping
\* what lists nothing new, or dying after the last write, is no trouble.)
EventuallyMirrored ==
  <>[][Trouble => Work]_vars =>
    <>[](\A distribution \in Clear : \A d \in Listed[distribution] : Mirrored(d))

=============================================================================
