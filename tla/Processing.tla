----------------------------- MODULE Processing -----------------------------
(***************************************************************************)
(* Incremental processing of one provider's committed snapshots            *)
(* (scheduler/runner.rs: process_snapshot, storage/git_processing.rs,      *)
(* storage/processing.rs and the row writers of storage/documents.rs).     *)
(*                                                                         *)
(* A pass compares the checkpoint of the last completed pass with the      *)
(* repository's HEAD, re-validates what changed in between, and publishes  *)
(* a new checkpoint last.  Every step is a separate durable write, so the  *)
(* pass can die between any two of them; only the checkpoint and its       *)
(* summary_dirty flag tell the next pass what is left to do.               *)
(*                                                                         *)
(* One provider is modelled: providers share no durable state, and the     *)
(* provider's pipeline lock admits one job at a time.                      *)
(***************************************************************************)
EXTENDS Naturals, Sequences

CONSTANTS
  Docs,         \* advisories (URL and tree path are one thing here)
  Texts,        \* contents of an advisory's JSON file
  Sidecars,     \* contents of its .asc, .sha256 and .sha512 files together
  Errors,       \* recorded retrieval failures: failed, missing
  None,         \* absence: no blob, no row, no checkpoint, no summary, no error
  MaxCommits,   \* bound on commits ever made
  MaxKeys,      \* bound on signing-key sets
  MaxPolicy,    \* bound on validator identities
  Reverts,      \* may an earlier key set or policy come back?
  Removals,     \* does anybody else remove advisories from the repository?
  Upgrade       \* may the database predate the recording of versions?

ASSUME ProcessingAssumption ==
  /\ MaxCommits \in Nat \ {0}
  /\ MaxKeys \in Nat
  /\ MaxPolicy \in Nat
  /\ Reverts \in BOOLEAN
  /\ Removals \in BOOLEAN
  /\ Upgrade \in BOOLEAN

Inputs       == [text : Texts, sides : Sidecars]
Keys         == 0 .. MaxKeys
Policies     == 0 .. MaxPolicy
Tree         == [Docs -> Inputs \cup {None}]
Snapshot     == [docs : Tree, keys : Keys]
Fingerprint  == [policy : Policies, keys : Keys]
Checkpoint   == [commit : Nat, fingerprint : Fingerprint, dirty : BOOLEAN]
Row          == [input : Inputs \cup {None},         \* None: a stub without content
                 under : Fingerprint \cup {None},
                 error : Errors \cup {None}]
Rows         == [Docs -> Row \cup {None}]

ASSUME NoneAssumption ==
  /\ None \notin Texts
  /\ None \notin Inputs
  /\ None \notin Errors
  /\ None \notin Checkpoint
  /\ None \notin Row

VARIABLES
  commits,     \* every snapshot committed, oldest first
  root,        \* index of the first commit of the current repository
  policy,      \* validator identity in effect
  checkpoint,  \* processing_checkpoint row, or None
  rows,        \* documents table
  versions,    \* document_versions table: <<commit, doc>> pairs
  summary,     \* summary.json, as the rows it was built from, or None
  pc,          \* next step of the running job
  pass         \* that job's local variables

durable == <<checkpoint, rows, versions, summary>>
vars    == <<commits, root, policy, checkpoint, rows, versions, summary, pc, pass>>

-----------------------------------------------------------------------------
(* Git history *)

head       == Len(commits)
Unborn     == root > head                  \* HEAD names no commit yet
Doc(d, i)  == commits[i].docs[d]
Present(i) == {d \in Docs : Doc(d, i) # None}
HeadTree   == IF Unborn THEN [d \in Docs |-> None] ELSE commits[head].docs

\* The JSON content of an advisory, without its sidecars.
Text(input) == IF input = None THEN None ELSE input.text

\* Paths with a delta in some commit after i, up to j.
Touched(i, j)  == {d \in Docs : \E k \in i + 1 .. j : Doc(d, k) # Doc(d, k - 1)}
Rewritten(i, j) ==
  {d \in Docs : \E k \in i + 1 .. j : Text(Doc(d, k)) # Text(Doc(d, k - 1))}

\* The versions git history holds: a commit that adds or modifies an advisory.
Adds(k, d) ==
  /\ k >= root
  /\ Doc(d, k) # None
  /\ k = root \/ Text(Doc(d, k)) # Text(Doc(d, k - 1))

VersionsAfter(i, j) == {v \in (i + 1 .. j) \X Docs : Adds(v[1], v[2])}

History == VersionsAfter(root - 1, head)

-----------------------------------------------------------------------------
(* Rows *)

Failed(d)  == rows[d] # None /\ rows[d].error # None
Failures   == {d \in Docs : Failed(d)}
NoRows     == [d \in Docs |-> None]

\* A checkpoint the history scan can reach from HEAD.
Reachable(c) == c # None /\ c.commit >= root

\* Mutant: row writers do not set summary_dirty.
DirtiedNever(c) == c

\* Row writers set summary_dirty in their own transaction; without a
\* checkpoint row the UPDATE touches nothing.
Dirtied(c) == IF c = None THEN None ELSE [c EXCEPT !.dirty = TRUE]

-----------------------------------------------------------------------------
(* The job's memory *)

NoFailures == [d \in {} |-> None]

Steps == {"idle", "load", "select", "clean", "validate", "versions",
          "failures", "summary", "publish"}

\* The steps that follow the selection of inputs.
AfterSelection == Steps \ {"idle", "load", "select"}

FailureMap == UNION {[S -> Errors] : S \in SUBSET Docs}

Pass == [force : BOOLEAN, policy : Policies, downloaded : SUBSET Docs,
         failures : FailureMap, previous : Checkpoint \cup {None},
         commit : Nat, fingerprint : Fingerprint \cup {None},
         full : BOOLEAN, baseline : BOOLEAN, todo : SUBSET Docs,
         deleted : SUBSET Docs, history : SUBSET Docs, changed : BOOLEAN]

NewPass(force, downloaded, failures) ==
  [force |-> force, policy |-> policy, downloaded |-> downloaded,
   failures |-> failures, previous |-> None, commit |-> 0,
   fingerprint |-> None, full |-> FALSE, baseline |-> FALSE, todo |-> {},
   deleted |-> {}, history |-> {}, changed |-> FALSE]

IdlePass ==
  [force |-> FALSE, policy |-> 0, downloaded |-> {},
   failures |-> NoFailures, previous |-> None, commit |-> 0,
   fingerprint |-> None, full |-> FALSE, baseline |-> FALSE, todo |-> {},
   deleted |-> {}, history |-> {}, changed |-> FALSE]

-----------------------------------------------------------------------------
\* A new provider: no repository content and an empty database.
Fresh ==
  /\ commits = <<>>
  /\ checkpoint = None
  /\ rows = NoRows
  /\ summary = None

\* A database written before versions were recorded, opened after an upgrade:
\* a completed pass, but no versions yet.
Upgraded ==
  \E s \in Snapshot :
    /\ commits = <<s>>
    /\ LET under == [policy |-> 0, keys |-> s.keys] IN
         /\ checkpoint = [commit |-> 1, fingerprint |-> under, dirty |-> FALSE]
         /\ rows = [d \in Docs |->
                     IF s.docs[d] = None THEN None
                     ELSE [input |-> s.docs[d], under |-> under, error |-> None]]
    /\ summary = rows

Init ==
  /\ Fresh \/ (Upgrade /\ Upgraded)
  /\ root = 1
  /\ policy = 0
  /\ versions = {}
  /\ pc = "idle"
  /\ pass = IdlePass

-----------------------------------------------------------------------------
(* Environment *)

\* The effective policy changes: accept_v3_signatures in the source, or a new
\* binary with another validation revision.
Reconfigure ==
  \E p \in Policies :
    /\ Reverts \/ p > policy
    /\ policy' = p
    /\ UNCHANGED <<commits, root, durable, pc, pass>>

\* Somebody commits the removal of an advisory to the provider's repository;
\* no code under src/ does.
ExternalRemoval(d) ==
  /\ Removals
  /\ ~Unborn
  /\ head < MaxCommits
  /\ Doc(d, head) # None
  /\ commits' = Append(commits, [commits[head] EXCEPT !.docs[d] = None])
  /\ UNCHANGED <<root, policy, durable, pc, pass>>

\* delete_provider removes the repository first and fails on a later directory,
\* leaving the results of a history that no longer exists.
RemoveRepository ==
  /\ pc = "idle"
  /\ ~Unborn
  /\ head < MaxCommits
  /\ root' = head + 1
  /\ UNCHANGED <<commits, policy, durable, pc, pass>>

-----------------------------------------------------------------------------
(* One job *)

KeysMayBecome(k) == ~Unborn /\ ~Reverts => k >= commits[head].keys

\* A sync has fetched some advisories and failed on others (on one listed in two
\* distributions it may have done both); the index it commits keeps HEAD's
\* content for every file it did not download.  Nothing is committed when the
\* tree is HEAD's own.
StartSync(downloaded, failures, tree, keys) ==
  LET snapshot == [docs |-> tree, keys |-> keys] IN
  /\ pc = "idle"
  /\ KeysMayBecome(keys)
  /\ \A d \in Docs : IF d \in downloaded THEN tree[d] # None ELSE tree[d] = HeadTree[d]
  /\ IF ~Unborn /\ snapshot = commits[head]
       THEN UNCHANGED commits
       ELSE head < MaxCommits /\ commits' = Append(commits, snapshot)
  /\ pc' = "load"
  /\ pass' = NewPass(FALSE, downloaded, failures)
  /\ UNCHANGED <<root, policy, durable>>

Sync ==
  \E downloaded \in SUBSET Docs :
    \E failures \in FailureMap, tree \in Tree, keys \in Keys :
      StartSync(downloaded, failures, tree, keys)

\* A revalidation fetches nothing; it first reads the recorded failures so that
\* it can apply them again.
Revalidate ==
  /\ pc = "idle"
  /\ pc' = "load"
  /\ pass' = NewPass(TRUE, {}, [d \in Failures |-> rows[d].error])
  /\ UNCHANGED <<commits, root, policy, durable>>

\* A forced pass drops the stored checkpoint but still selects against it.
LoadCheckpoint ==
  /\ pc = "load"
  /\ pc' = "select"
  /\ pass' = [pass EXCEPT !.previous = checkpoint]
  /\ checkpoint' = IF pass.force THEN None ELSE checkpoint
  /\ UNCHANGED <<commits, root, policy, rows, versions, summary>>

\* The selection of select_processing and include_recovered_downloads: the
\* history scan runs from HEAD back to the previous checkpoint and gives up,
\* asking for a baseline, when it reaches the first commit instead.
Baseline == ~Reachable(pass.previous)
HeadFingerprint == [policy |-> pass.policy, keys |-> commits[head].keys]
\* Mutant: a change of the signing keys does not ask for a full pass.
FullIgnoringKeys ==
  \/ Baseline
  \/ pass.force
  \/ pass.previous.fingerprint.policy # pass.policy
Full ==
  \/ Baseline
  \/ pass.force
  \/ pass.previous.fingerprint # HeadFingerprint
\* Mutant: the checkpointed tree is compared with HEAD's, commits in between are
\* not looked at.
NetChanges ==
  IF Baseline THEN {} ELSE {d \in Docs : Doc(d, pass.previous.commit) # Doc(d, head)}
Changes == IF Baseline THEN {} ELSE Touched(pass.previous.commit, head)
\* Mutant: only advisories whose JSON differs in the end count as changed.
NetChangedHistory ==
  IF Baseline THEN {}
  ELSE {d \in Docs : Text(Doc(d, pass.previous.commit)) # Text(Doc(d, head))}
ChangedHistory == IF Baseline THEN {} ELSE Rewritten(pass.previous.commit, head)
\* Mutant: a failed advisory is selected only if its bytes change.
RecoveredNever == {}
Recovered == pass.downloaded \cap Failures
Selected ==
  IF Full THEN Present(head)
  ELSE (Changes \cap Present(head)) \cup Recovered
Removed == ChangedHistory \ Present(head)

\* The selected inputs are materialized from the selected commit.
SelectInputs ==
  /\ pc = "select"
  /\ ~Unborn
  /\ Selected \subseteq Present(head)
  /\ pass' = [pass EXCEPT !.commit = head, !.fingerprint = HeadFingerprint,
                          !.full = Full, !.baseline = Baseline,
                          !.todo = Selected, !.deleted = Removed,
                          !.history = ChangedHistory,
                          !.changed = \/ pass.previous # None /\ pass.previous.dirty
                                      \/ Full \/ Selected # {} \/ Removed # {}]
  /\ pc' = IF Baseline \/ Removed # {} THEN "clean"
           ELSE IF Selected # {} THEN "validate" ELSE "versions"
  /\ UNCHANGED <<commits, root, policy, durable>>

\* HEAD does not resolve, or an input selected by its download is gone from
\* HEAD: the pass ends with an error.
SelectionFails ==
  /\ pc = "select"
  /\ ~Unborn => ~(Selected \subseteq Present(head))
  /\ pc' = "idle"
  /\ pass' = IdlePass
  /\ UNCHANGED <<commits, root, policy, durable>>

AfterClean == IF pass.todo # {} THEN "validate" ELSE "versions"

\* A baseline starts over.  summary_dirty is not set here.
DeleteAllRows ==
  /\ pc = "clean"
  /\ pass.baseline
  /\ rows' = NoRows
  /\ pc' = AfterClean
  /\ UNCHANGED <<commits, root, policy, checkpoint, versions, summary, pass>>

\* Otherwise the rows of removed advisories go, in batches.
DeleteRow(d) ==
  /\ pc = "clean"
  /\ ~pass.baseline
  /\ d \in pass.deleted
  /\ rows' = [rows EXCEPT ![d] = None]
  /\ checkpoint' = IF rows[d] # None THEN Dirtied(checkpoint) ELSE checkpoint
  /\ pass' = [pass EXCEPT !.deleted = @ \ {d}]
  /\ pc' = IF pass.deleted = {d} THEN AfterClean ELSE "clean"
  /\ UNCHANGED <<commits, root, policy, versions, summary>>

\* The walker validates the selected advisories in any order; each result is
\* stored in a transaction of its own and clears a recorded failure.
ValidateOne(d) ==
  /\ pc = "validate"
  /\ d \in pass.todo
  /\ rows' = [rows EXCEPT ![d] = [input |-> Doc(d, pass.commit),
                                  under |-> pass.fingerprint,
                                  error |-> None]]
  /\ checkpoint' = Dirtied(checkpoint)
  /\ pass' = [pass EXCEPT !.todo = @ \ {d}]
  /\ pc' = IF pass.todo = {d} THEN "versions" ELSE "validate"
  /\ UNCHANGED <<commits, root, policy, versions, summary>>

\* Mutant: no backfill of databases that predate the recording of versions.
RecordVersionsWithoutBackfill ==
  /\ pc = "versions"
  /\ versions' = IF pass.baseline THEN History
                 ELSE IF pass.history # {}
                      THEN versions \cup VersionsAfter(pass.previous.commit, head)
                      ELSE versions
  /\ pc' = "failures"
  /\ UNCHANGED <<commits, root, policy, checkpoint, rows, summary, pass>>

\* One transaction; inserting what is already there is ignored.
RecordVersions ==
  LET backfill == ~pass.baseline /\ versions = {} /\ rows # NoRows IN
  /\ pc = "versions"
  /\ versions' = IF pass.baseline \/ backfill THEN History
                 ELSE IF pass.history # {}
                      THEN versions \cup VersionsAfter(pass.previous.commit, head)
                      ELSE versions
  /\ pc' = "failures"
  /\ UNCHANGED <<commits, root, policy, checkpoint, rows, summary, pass>>

\* Marks the rows whose retrieval failed, adding a stub for an unknown
\* advisory; reports a change only if some stored error changed.
SaveRetrievalErrors ==
  LET failing == DOMAIN pass.failures
      new     == {d \in failing : rows[d] = None \/ rows[d].error # pass.failures[d]}
      marked(d) == IF rows[d] = None
                   THEN [input |-> None, under |-> None, error |-> pass.failures[d]]
                   ELSE [rows[d] EXCEPT !.error = pass.failures[d]]
  IN
  /\ pc = "failures"
  /\ rows' = [d \in Docs |-> IF d \in new THEN marked(d) ELSE rows[d]]
  /\ checkpoint' = IF new # {} THEN Dirtied(checkpoint) ELSE checkpoint
  /\ pass' = [pass EXCEPT !.changed = @ \/ new # {}]
  /\ pc' = "summary"
  /\ UNCHANGED <<commits, root, policy, versions, summary>>

SaveSummary ==
  /\ pc = "summary"
  /\ summary' = IF pass.changed \/ summary = None THEN rows ELSE summary
  /\ pc' = "publish"
  /\ UNCHANGED <<commits, root, policy, checkpoint, rows, versions, pass>>

\* Mutant: the checkpoint is published without its fingerprint.
PublishWithoutFingerprint ==
  /\ pc = "publish"
  /\ checkpoint' = [commit |-> pass.commit, fingerprint |-> None, dirty |-> FALSE]
  /\ pc' = "idle"
  /\ pass' = IdlePass
  /\ UNCHANGED <<commits, root, policy, rows, versions, summary>>

Publish ==
  /\ pc = "publish"
  /\ checkpoint' = [commit |-> pass.commit, fingerprint |-> pass.fingerprint,
                    dirty |-> FALSE]
  /\ pc' = "idle"
  /\ pass' = IdlePass
  /\ UNCHANGED <<commits, root, policy, rows, versions, summary>>

\* Any step may return an error, and the process may die; both lose the job's
\* memory and nothing else.
Interrupt ==
  /\ pc # "idle"
  /\ pc' = "idle"
  /\ pass' = IdlePass
  /\ UNCHANGED <<commits, root, policy, durable>>

-----------------------------------------------------------------------------
Environment ==
  \/ Reconfigure
  \/ \E d \in Docs : ExternalRemoval(d)
  \/ RemoveRepository

\* The steps of a started job.
Work ==
  \/ LoadCheckpoint
  \/ SelectInputs
  \/ SelectionFails
  \/ DeleteAllRows
  \/ \E d \in Docs : DeleteRow(d)
  \/ \E d \in Docs : ValidateOne(d)
  \/ RecordVersions
  \/ SaveRetrievalErrors
  \/ SaveSummary
  \/ Publish

Next ==
  \/ Environment
  \/ Sync
  \/ Revalidate
  \/ Work
  \/ Interrupt

Spec == Init /\ [][Next]_vars

\* The scheduler starts a sync for every source again and again, also when
\* revalidations compete for the provider's lock, and a started job keeps
\* running until it ends.
FairSpec == Spec /\ SF_vars(Sync) /\ WF_vars(Work)

-----------------------------------------------------------------------------
(* Properties *)

TypeOK ==
  /\ commits \in Seq(Snapshot) /\ head <= MaxCommits
  /\ root \in 1 .. MaxCommits
  /\ policy \in Policies
  /\ checkpoint \in Checkpoint \cup {None}
  /\ rows \in Rows
  /\ versions \subseteq Nat \X Docs
  /\ summary \in Rows \cup {None}
  /\ pc \in Steps
  /\ pass \in Pass
  /\ pc \in AfterSelection =>
       /\ pass.commit \in root .. head
       /\ pass.fingerprint \in Fingerprint
       /\ pass.baseline \/ Reachable(pass.previous)

\* A stored row is the result of an advisory's content; an advisory that is not
\* there has no row, or a stub.
ResultOf(row, content) ==
  IF content = None THEN row = None \/ row.input = None
  ELSE row # None /\ row.input = content

RowMatches(d, i) == ResultOf(rows[d], Doc(d, i))

\* Interrupted work is never forgotten: whatever the passes since the checkpoint
\* did before they died, an advisory whose stored result is not the one of the
\* checkpointed commit has been touched since, so the next history scan selects
\* it (git_processing.rs scan_changes keeps changes that were reverted later).
NothingForgotten ==
  Reachable(checkpoint) =>
    \A d \in Docs :
      \/ RowMatches(d, checkpoint.commit)
      \/ d \in Touched(checkpoint.commit, head)

\* A clean checkpoint vouches for summary.json: every writer of rows since the
\* summary was built has set summary_dirty (processing.rs, documents.rs).
SummaryFresh ==
  Reachable(checkpoint) /\ ~checkpoint.dirty => summary = rows

\* What the versions of an upgraded database may lack: all up to commit i, if a
\* later one has no advisory, so that a pass finds no row without versions.
Unrecoverable(i) == Upgrade /\ \E k \in i + 1 .. head : Present(k) = {}

\* The recorded versions up to the checkpoint are exactly the changes git holds,
\* none missing, none of another repository (versions.rs record_versions).  An
\* upgraded database has none until a pass finds rows without versions, and then
\* they are recorded from the start (versions_missing); what a pass finds before
\* that is recorded from its checkpoint on.
VersionsMatchHistory ==
  Reachable(checkpoint) /\ versions # {} =>
    \E i \in root - 1 .. checkpoint.commit :
      /\ {v \in versions : v[1] <= checkpoint.commit} = VersionsAfter(i, checkpoint.commit)
      /\ i = root - 1 \/ Unrecoverable(i)

\* A published checkpoint represents the stored results: when a pass publishes
\* commit c, every advisory of c has the result of its content in c and no other
\* advisory has one (processing.rs "Git snapshot represented by the stored
\* results").
PublishedResultsComplete ==
  [][Publish => \A d \in Docs : RowMatches(d, pass.commit)]_vars

\* The same for the fingerprint: every published result was computed under the
\* validator, policy and keys the checkpoint names, also when an earlier pass
\* under other keys or another policy died half-way.
PublishedUnderFingerprint ==
  [][Publish => \A d \in Docs :
       rows[d] # None /\ rows[d].input # None
         => rows[d].under = pass.fingerprint]_vars

\* What a completed pass shows of retrieval is the outcome of its own run: a
\* failure is recorded even if older content was validated in the same pass, and
\* an advisory that downloads again loses its failure even if its bytes did not
\* change.
RetrievalOutcomeShown ==
  [][Publish =>
       /\ \A d \in DOMAIN pass.failures : rows[d] # None /\ rows[d].error = pass.failures[d]
       /\ \A d \in pass.downloaded \ DOMAIN pass.failures :
            d \in Present(pass.commit) => ~Failed(d)]_vars

\* Readers outside a pass see the results of the checkpoint, and it is current.
UpToDate ==
  /\ Reachable(checkpoint)
  /\ checkpoint.commit = head
  /\ checkpoint.fingerprint = [policy |-> policy, keys |-> commits[head].keys]
  /\ \A d \in Docs : RowMatches(d, head)
  /\ summary = rows

\* Unless passes keep being interrupted for ever, the published results catch up
\* with the repository and the configuration again and again.  (A pass that
\* publishes the checkpoint that is there ends as an interrupted one does; it
\* does not count as an interruption.)
CatchesUp == <>[][Interrupt => Work]_vars => []<>UpToDate

=============================================================================
