--------------------------- MODULE SnapshotCommit ---------------------------
(***************************************************************************)
(* How a sync writes its snapshot into the provider's bare repository      *)
(* (storage/git_repo.rs, storage/git_maintenance.rs, pipeline/store.rs and *)
(* the order of run_pipeline in scheduler/runner.rs).                      *)
(*                                                                         *)
(* The pipeline lock keeps syncs apart, but not the operators who push to  *)
(* the same repository while a sync downloads for minutes.  A sync starts  *)
(* from a private index of the branch's tip, stages what it downloaded     *)
(* file by file, moves the blobs to disk in batches, and moves the branch  *)
(* only if it still is where it was.  It may die at any step; what it left *)
(* behind is found by the maintenance of the next one.                     *)
(***************************************************************************)
EXTENDS Naturals, Sequences

CONSTANTS
  Paths, Contents, None, Branches, Detached, Keys, Sidecars, Collides,
  Histories,   \* as in Repository
  Advisories,  \* the paths of advisories
  Offers,      \* what the provider serves: an advisory and its files
  KeySets,     \* the key sets it publishes
  Pushes,      \* snapshots others push
  MaxCommits,  \* bound on commits
  MaxMoves     \* bound on what others do and on crashes, together

VARIABLES
  head, refs, commits,
  live,      \* commits not removed by git gc
  disk,      \* blobs in packs and loose objects
  temp,      \* unfinished pack_git2_* files
  step,      \* next step of the sync
  branch,    \* PreparedWorktree.branch and base_commit
  base,
  scratch,   \* the scratch directory: files, and whether it has metadata/keys
  index,     \* its .git/index, or None if the directory was lost
  staged,    \* files staged so far
  buffered,  \* blobs that are only in the mempack
  outcome,   \* how the last sync ended
  moves,     \* what others did and crashes, counted
  began      \* moves when the last sync began

objects == <<live, disk, temp>>
writer  == <<step, branch, base, scratch, index, staged, buffered, outcome, began>>
vars    == <<head, refs, commits, objects, writer, moves>>

Repo == INSTANCE Repository WITH got <- scratch

TreeAt(i)   == Repo!TreeAt(i)
Nothing     == Repo!Nothing
NoFiles     == Repo!NoFiles
Files(t)    == Repo!Files(t)
Exist       == Repo!Exist
Collected   == Files(scratch.files)
Blobs(t)    == {t[p] : p \in Files(t)}
Steps       == {"idle", "maintained", "fetch", "commit", "stage", "flush",
                "staged", "publish", "ended"}
Outcomes    == {"none", "invalid_head", "aborted", "refused", "unchanged", "published"}

ASSUME RepositoryAssumption ==
  /\ None \notin Contents /\ None \notin Repo!Tree
  /\ Detached \notin Branches
  /\ Advisories \subseteq Paths /\ Keys \subseteq Paths
  /\ Sidecars \in [Paths -> SUBSET Paths]
  /\ Collides \in [Paths -> SUBSET Paths]
  /\ Pushes \subseteq Repo!Tree
  /\ KeySets \subseteq [Keys -> Contents \cup {None}]
  /\ Offers \subseteq Advisories \X Repo!Tree
  /\ \A o \in Offers : o[1] \in Files(o[2]) /\ Files(o[2]) \subseteq {o[1]} \cup Sidecars[o[1]]

\* Sidecars are those of advisories, and a file collides with another one
\* that collides with it.  Keys are no sidecars and in nobody's way.
ASSUME PathsAssumption ==
  /\ \A p \in Paths \ Advisories : Sidecars[p] = {}
  /\ \A p \in Advisories : Sidecars[p] \cap (Advisories \cup Keys) = {}
  /\ \A p, q \in Advisories : p # q => Sidecars[p] \cap Sidecars[q] = {}
  /\ \A p, q \in Paths : p \in Collides[q] => q \in Collides[p] /\ p # q
  /\ \A p \in Keys : p \notin Advisories /\ Collides[p] = {}
  /\ \A p \in Advisories : \A q, r \in {p} \cup Sidecars[p] : q \notin Collides[r]

ASSUME HistoriesAssumption ==
  \A h \in Histories :
    /\ h \in Seq(Repo!Commit)
    /\ \A i \in DOMAIN h : \A n \in DOMAIN h[i].parents : h[i].parents[n] \in 1 .. i - 1

Ends(o) ==
  /\ step' = "ended"
  /\ outcome' = o
  /\ staged' = {} /\ buffered' = {}

Init ==
  /\ Repo!Init
  /\ live = DOMAIN commits
  /\ disk = UNION {Blobs(commits[i].tree) : i \in DOMAIN commits}
  /\ temp = 0
  /\ step = "idle" /\ branch = None /\ base = 0
  /\ index = None /\ staged = {} /\ buffered = {}
  /\ outcome = "none"
  /\ moves = 0 /\ began = 0

-----------------------------------------------------------------------------
(* Maintenance, before the sync and under the same lock *)

\* git gc keeps what the branches reach.
Kept ==
  {k \in SUBSET live :
     /\ \A b \in Branches : refs[b] # 0 => refs[b] \in k
     /\ \A i \in k : \A n \in DOMAIN commits[i].parents : commits[i].parents[n] \in k}

Collect ==
  /\ live' \in Kept
  /\ disk' \in {disk, UNION {Blobs(commits[i].tree) : i \in live'}}

\* Mutant: temporary packs are left to git gc, which does not know them.
MaintainLeavesPacks ==
  /\ step = "idle"
  /\ Collect
  /\ step' = "maintained"
  /\ UNCHANGED <<head, refs, commits, temp, branch, base, scratch, index,
                 staged, buffered, outcome, moves, began>>

\* Mutant: git gc detaches and runs on when the sync goes on.
MaintainDetached ==
  /\ Collect
  /\ temp' = 0
  /\ step' = IF step = "idle" THEN "maintained" ELSE step
  /\ UNCHANGED <<head, refs, commits, branch, base, scratch, index, staged,
                 buffered, outcome, moves, began>>

\* A failure of git gc is logged and leaves the objects alone.
Maintain ==
  /\ step = "idle"
  /\ temp' = 0
  /\ \/ Collect
     \/ UNCHANGED <<live, disk>>
  /\ step' = "maintained"
  /\ UNCHANGED <<head, refs, commits, branch, base, scratch, index, staged,
                 buffered, outcome, moves, began>>

-----------------------------------------------------------------------------
(* Preparing and downloading *)

\* The branch HEAD names, or the first there is, or the unborn one.
Resolved ==
  IF head \in Exist \/ Exist = {} THEN {head} ELSE Exist

PrepareFails ==
  /\ step = "maintained"
  /\ head = Detached
  /\ Ends("invalid_head")
  /\ UNCHANGED <<head, refs, commits, objects, branch, base, scratch, index, moves,
                 began>>

Prepare ==
  /\ step = "maintained"
  /\ head \in Branches
  /\ head' \in Resolved
  /\ branch' = head'
  /\ base' = refs[head']
  /\ index' = TreeAt(base')
  /\ scratch' = Nothing
  /\ step' = "fetch"
  /\ outcome' = "none" /\ began' = moves
  /\ UNCHANGED <<refs, commits, objects, staged, buffered, moves>>

\* The provider's metadata and its complete key set.
FetchContext ==
  /\ step = "fetch"
  /\ \E keys \in KeySets :
       scratch' = [files |-> [p \in Paths |-> IF p \in Keys THEN keys[p]
                                              ELSE scratch.files[p]],
                   keys |-> TRUE]
  /\ UNCHANGED <<head, refs, commits, objects, step, branch, base, index,
                 staged, buffered, outcome, moves, began>>

\* An advisory with the sidecars it has now; an earlier download of it in the
\* same sync is replaced as a whole.
Fetch ==
  /\ step = "fetch" /\ scratch.keys
  /\ \E o \in Offers :
       LET files == {o[1]} \cup Sidecars[o[1]] IN
       /\ \A p \in files : Collides[p] \cap Collected = {}
       /\ scratch' = [scratch EXCEPT !.files =
            [p \in Paths |-> IF p \in files THEN o[2][p] ELSE scratch.files[p]]]
  /\ UNCHANGED <<head, refs, commits, objects, step, branch, base, index,
                 staged, buffered, outcome, moves, began>>

WalkEnds ==
  /\ step = "fetch"
  /\ \/ /\ Len(commits) < MaxCommits
        /\ step' = "commit"
        /\ UNCHANGED <<staged, buffered, outcome>>
     \/ Ends("aborted")
  /\ UNCHANGED <<head, refs, commits, objects, branch, base, scratch, index,
                 moves, began>>

-----------------------------------------------------------------------------
(* Staging *)

Moved == refs[branch] # base

\* Mutant: a new key set does not drop the keys rotated out.
BeginStagingKeepsKeys ==
  /\ step = "commit"
  /\ index # None /\ ~Moved
  /\ step' = "stage"
  /\ UNCHANGED <<head, refs, commits, objects, branch, base, scratch, index,
                 staged, buffered, outcome, moves, began>>

\* Mutant: an index that was lost is opened as an empty one.
BeginStagingUnchecked ==
  /\ step = "commit"
  /\ ~Moved
  /\ step' = "stage"
  /\ index' = IF index = None THEN NoFiles ELSE index
  /\ UNCHANGED <<head, refs, commits, objects, branch, base, scratch, staged,
                 buffered, outcome, moves, began>>

BeginStaging ==
  /\ step = "commit"
  /\ index # None
  /\ ~Moved
  /\ index' = [p \in Paths |-> IF p \in Keys /\ scratch.keys THEN None ELSE index[p]]
  /\ step' = "stage"
  /\ UNCHANGED <<head, refs, commits, objects, branch, base, scratch, staged,
                 buffered, outcome, moves, began>>

\* The index is missing, or the branch was moved.
StagingFails ==
  /\ step = "commit"
  /\ index = None \/ Moved
  /\ Ends("refused")
  /\ UNCHANGED <<head, refs, commits, objects, branch, base, scratch, index, moves,
                 began>>

\* Mutant: the sidecars an advisory no longer has stay in the index.
StageKeepsSidecars(p) ==
  /\ step = "stage"
  /\ p \in Collected \ staged
  /\ index' = [q \in Paths |-> IF q = p THEN scratch.files[p]
                               ELSE IF q \in Collides[p] THEN None ELSE index[q]]
  /\ staged' = staged \cup {p}
  /\ buffered' = buffered \cup {scratch.files[p]}
  /\ UNCHANGED <<head, refs, commits, objects, step, branch, base, scratch,
                 outcome, moves, began>>

\* One file of the walk over the scratch directory, in any order.
Stage(p) ==
  /\ step = "stage"
  /\ p \in Collected \ staged
  /\ index' = [q \in Paths |->
       IF q = p THEN scratch.files[p]
       ELSE IF q \in Collides[p] \/ (q \in Sidecars[p] /\ scratch.files[q] = None)
         THEN None
       ELSE index[q]]
  /\ staged' = staged \cup {p}
  /\ buffered' = buffered \cup {scratch.files[p]}
  /\ UNCHANGED <<head, refs, commits, objects, step, branch, base, scratch,
                 outcome, moves, began>>

\* The threshold is reached, or the walk is over: a pack is written ...
BeginFlush ==
  /\ step = "stage"
  /\ buffered # {}
  /\ step' = "flush"
  /\ temp' = temp + 1
  /\ UNCHANGED <<head, refs, commits, live, disk, branch, base, scratch, index,
                 staged, buffered, outcome, moves, began>>

\* ... and takes its final name.
EndFlush ==
  /\ step = "flush"
  /\ temp' = temp - 1
  /\ disk' = disk \cup buffered
  /\ buffered' = {}
  /\ step' = "stage"
  /\ UNCHANGED <<head, refs, commits, live, branch, base, scratch, index,
                 staged, outcome, moves, began>>

\* Mutant: blobs below the threshold are forgotten at the end of the walk.
EndStagingUnflushed ==
  /\ step = "stage"
  /\ staged = Collected
  /\ buffered' = {}
  /\ step' = "staged"
  /\ UNCHANGED <<head, refs, commits, objects, branch, base, scratch, index,
                 staged, outcome, moves, began>>

EndStaging ==
  /\ step = "stage"
  /\ staged = Collected
  /\ buffered = {}
  /\ step' = "staged"
  /\ UNCHANGED <<head, refs, commits, objects, branch, base, scratch, index,
                 staged, buffered, outcome, moves, began>>

-----------------------------------------------------------------------------
(* Publishing *)

\* The tree object is written, which libgit2 refuses without its blobs; an
\* unchanged tree ends the sync without a commit.
WriteTree ==
  /\ step = "staged"
  /\ IF ~Blobs(index) \subseteq disk THEN Ends("refused")
     ELSE IF base # 0 /\ index = TreeAt(base) THEN Ends("unchanged")
     ELSE step' = "publish" /\ UNCHANGED <<staged, buffered, outcome>>
  /\ UNCHANGED <<head, refs, commits, objects, branch, base, scratch, index,
                 moves, began>>

NewCommit == [tree |-> index, parents |-> Repo!Parents(base), by |-> "csaf-trove"]

\* Mutant: the branch is moved whatever it names by now.
PublishForced ==
  /\ step = "publish"
  /\ commits' = Append(commits, NewCommit)
  /\ live' = live \cup {Len(commits')}
  /\ refs' = [refs EXCEPT ![branch] = Len(commits')]
  /\ Ends("published")
  /\ UNCHANGED <<head, disk, temp, branch, base, scratch, index, moves,
                 began>>

\* Mutant: the branch is moved to a commit that was not written.
PublishLost ==
  /\ step = "publish"
  /\ ~Moved
  /\ refs' = [refs EXCEPT ![branch] = Len(commits) + 1]
  /\ Ends("published")
  /\ UNCHANGED <<head, commits, objects, branch, base, scratch, index, moves,
                 began>>

\* reference_matching: the branch moves only from the commit the sync began with.
Publish ==
  /\ step = "publish"
  /\ ~Moved
  /\ commits' = Append(commits, NewCommit)
  /\ live' = live \cup {Len(commits')}
  /\ refs' = [refs EXCEPT ![branch] = Len(commits')]
  /\ Ends("published")
  /\ UNCHANGED <<head, disk, temp, branch, base, scratch, index, moves,
                 began>>

PublishFails ==
  /\ step = "publish"
  /\ Moved
  /\ Ends("refused")
  /\ UNCHANGED <<head, refs, commits, objects, branch, base, scratch, index, moves,
                 began>>

\* cleanup_worktree, however the sync ended.
Cleanup ==
  /\ step = "ended"
  /\ step' = "idle"
  /\ branch' = None /\ base' = 0 /\ index' = None /\ scratch' = Nothing
  /\ UNCHANGED <<head, refs, commits, objects, staged, buffered, outcome, moves,
                 began>>

-----------------------------------------------------------------------------
(* What happens meanwhile *)

Move == moves < MaxMoves /\ moves' = moves + 1

\* A push: on top of the branch, as a merge, or as a new root.
Push ==
  /\ Move
  /\ Len(commits) < MaxCommits - 1
  /\ \E b \in Branches, t \in Pushes, merged \in {0} \cup live :
       /\ merged # 0 => refs[b] # 0 /\ merged # refs[b]
       /\ \E parents \in {<<>>, Repo!Parents(refs[b]) \o Repo!Parents(merged)} :
            commits' = Append(commits, [tree |-> t, parents |-> parents,
                                      by |-> "other"])
       /\ refs' = [refs EXCEPT ![b] = Len(commits')]
       /\ disk' = disk \cup Blobs(t)
  /\ live' = live \cup {Len(commits')}
  /\ UNCHANGED <<head, temp, writer>>

\* A branch is reset to another commit, created there, or deleted.
Reset ==
  /\ Move
  /\ \E b \in Branches, i \in {0} \cup live : refs' = [refs EXCEPT ![b] = i]
  /\ UNCHANGED <<head, commits, objects, writer>>

SwitchHead ==
  /\ Move
  /\ head' \in Branches \cup {Detached}
  /\ UNCHANGED <<refs, commits, objects, writer>>

\* The scratch directory disappears while nothing has been staged.
LoseScratch ==
  /\ Move
  /\ step \in {"fetch", "commit"}
  /\ scratch' = Nothing
  /\ index' = None
  /\ UNCHANGED <<head, refs, commits, objects, step, branch, base, staged, buffered,
                 outcome, began>>

\* The mempack and everything local is lost, the scratch directory stays.
Crash ==
  /\ Move
  /\ step # "idle"
  /\ step' = "idle"
  /\ branch' = None /\ base' = 0 /\ index' = None
  /\ staged' = {} /\ buffered' = {}
  /\ UNCHANGED <<head, refs, commits, objects, scratch, outcome, began>>

-----------------------------------------------------------------------------
Sync ==
  \/ Maintain \/ PrepareFails \/ Prepare
  \/ WalkEnds \/ BeginStaging \/ StagingFails
  \/ \E p \in Paths : Stage(p)
  \/ BeginFlush \/ EndFlush \/ EndStaging
  \/ WriteTree \/ Publish \/ PublishFails \/ Cleanup

Downloads == FetchContext \/ Fetch

Next ==
  \/ Sync
  \/ Downloads
  \/ Push \/ Reset \/ SwitchHead \/ LoseScratch \/ Crash

Spec == Init /\ [][Next]_vars

-----------------------------------------------------------------------------
TypeOK ==
  /\ head \in Branches \cup {Detached}
  /\ commits \in Seq(Repo!Commit)
  /\ refs \in [Branches -> 0 .. Len(commits)]
  /\ live \in SUBSET DOMAIN commits
  /\ disk \in SUBSET Contents
  /\ temp \in Nat
  /\ step \in Steps
  /\ branch \in Branches \cup {None}
  /\ base \in 0 .. Len(commits)
  /\ scratch \in Repo!Got
  /\ index \in Repo!Tree \cup {None}
  /\ staged \in SUBSET Paths
  /\ buffered \in SUBSET Contents
  /\ outcome \in Outcomes
  /\ moves \in Nat /\ began \in Nat

\* A sync publishes exactly what it downloaded on top of what the branch holds
\* at that moment, whatever is pushed, reset or switched meanwhile and wherever
\* it dies; otherwise it changes no branch (prepare_worktree, commit_all).
Atomic == Repo!Spec

\* Whatever the branches reach can be read: the blobs are in a pack or loose,
\* after every crash between two batches and every run of git gc.
BranchesReadable ==
  /\ \A b \in Branches : refs[b] # 0 => refs[b] \in live
  /\ \A i \in live : /\ \A n \in DOMAIN commits[i].parents : commits[i].parents[n] \in live
                     /\ Blobs(TreeAt(i)) \subseteq disk

\* Nobody but an intruder stops a sync: what earlier syncs left behind when
\* they died or were refused never keeps the next one from publishing.
UndisturbedPublishes == outcome = "refused" => moves # began

\* Interrupted syncs do not fill the disk with unfinished packs.
OneTemporaryPack == temp <= 1
=============================================================================
