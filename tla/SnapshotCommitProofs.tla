------------------------ MODULE SnapshotCommitProofs ------------------------
(***************************************************************************)
(* Theorems about SnapshotCommit: types, the objects the branches need,    *)
(* the temporary packs, that an undisturbed sync is never refused, and     *)
(* that a sync publishes atomically (it implements Repository).  Then that *)
(* the scans of HistoryScan find what changed in the history they read.    *)
(***************************************************************************)
EXTENDS HistoryScan, Integers, SequenceTheorems, FiniteSetTheorems, TLAPS

Running == {"fetch", "commit", "stage", "flush", "staged", "publish"}

\* The index when the files of s have been staged on top of t.
Partial(t, g, s) ==
  [p \in Paths |->
     IF p \in s THEN g.files[p]
     ELSE IF \/ p \in Keys /\ g.keys
             \/ \E q \in s : \/ p \in Collides[q]
                             \/ p \in Sidecars[q] /\ g.files[p] = None
       THEN None
     ELSE t[p]]

\* Files in the scratch directory do not collide.
Separate == \A p, q \in Collected : p \notin Collides[q]

\* What the writer's index holds at each step.
WriterInv ==
  /\ step \in Running => branch \in Branches
  /\ step \in {"fetch", "commit"} => index \in {None, TreeAt(base)} /\ staged = {} /\ buffered = {}
  /\ step \in {"stage", "flush", "staged", "publish"} =>
       /\ staged \subseteq Collected
       /\ index = Partial(TreeAt(base), scratch, staged)
  /\ step \in {"staged", "publish"} => staged = Collected /\ buffered = {}
  /\ step \in {"idle", "maintained", "ended"} => staged = {} /\ buffered = {}
  /\ step = "publish" => Blobs(index) \subseteq disk /\ (base = 0 \/ index # TreeAt(base))

\* Commits that git gc keeps, and the blobs they need.
BlobsInv ==
  /\ step \in Running /\ base # 0 => base \in live
  /\ step \in {"stage", "flush", "staged"} =>
       \A p \in staged : scratch.files[p] \in disk \cup buffered

PacksInv ==
  /\ temp = 0 \/ (temp = 1 /\ step \in {"idle", "flush"})
  /\ step = "flush" => temp = 1

\* Nothing moved since the sync began.
CalmInv ==
  /\ began <= moves
  /\ began = moves /\ step \in Running => refs[branch] = base /\ index # None
  /\ UndisturbedPublishes

IInv == TypeOK /\ Separate /\ WriterInv /\ BranchesReadable /\ BlobsInv /\ PacksInv /\ CalmInv

-----------------------------------------------------------------------------
LEMMA TreeTypes ==
  ASSUME commits \in Seq(Repo!Commit), NEW i \in 0 .. Len(commits)
  PROVE  TreeAt(i) \in Repo!Tree
<1>1. NoFiles \in Repo!Tree
  BY DEF NoFiles, Repo!NoFiles, Repo!Tree
<1>2. CASE i = 0
  BY <1>1, <1>2 DEF TreeAt, Repo!TreeAt, NoFiles
<1>3. CASE i # 0
  <2>1. commits[i] \in Repo!Commit
    BY <1>3
  <2> QED
    BY <2>1, <1>3 DEF TreeAt, Repo!TreeAt, Repo!Commit
<1> QED
  BY <1>2, <1>3

LEMMA NoTree == None \notin Repo!Tree
BY RepositoryAssumption

LEMMA NothingTypes == Nothing \in Repo!Got /\ Files(Nothing.files) = {} /\ ~Nothing.keys
BY DEF Nothing, Repo!Nothing, Repo!Got, Repo!NoFiles, Repo!Tree, Files, Repo!Files

\* A commit on top of others of the sequence.
LEMMA Appended ==
  ASSUME commits \in Seq(Repo!Commit), NEW c \in Repo!Commit
  PROVE  /\ Append(commits, c) \in Seq(Repo!Commit)
         /\ Len(Append(commits, c)) = Len(commits) + 1
         /\ \A i \in 1 .. Len(commits) : Append(commits, c)[i] = commits[i]
         /\ Append(commits, c)[Len(commits) + 1] = c
         /\ SubSeq(Append(commits, c), 1, Len(commits)) = commits
<1>1. /\ Append(commits, c) \in Seq(Repo!Commit)
      /\ Len(Append(commits, c)) = Len(commits) + 1
      /\ \A i \in 1 .. Len(commits) : Append(commits, c)[i] = commits[i]
      /\ Append(commits, c)[Len(commits) + 1] = c
  OBVIOUS
<1> DEFINE s == SubSeq(Append(commits, c), 1, Len(commits))
<1>2. Len(s) = Len(commits) /\ s \in Seq(Repo!Commit)
  BY <1>1
<1>3. \A i \in 1 .. Len(s) : s[i] = commits[i]
  BY <1>1, <1>2
<1>4. s = commits
  BY <1>2, <1>3, SeqEqual
<1> QED
  BY <1>1, <1>4
\* What a commit leaves as it was.
LEMMA TreesKept ==
  ASSUME commits \in Seq(Repo!Commit), NEW c \in Repo!Commit,
         commits' = Append(commits, c)
  PROVE  /\ Len(commits') = Len(commits) + 1
         /\ commits' \in Seq(Repo!Commit)
         /\ \A i \in Nat : i = Len(commits) + 1 => TreeAt(i)' = c.tree
         /\ commits'[Len(commits')] = c
         /\ \A i \in 0 .. Len(commits) : TreeAt(i)' = TreeAt(i)
         /\ \A i \in 1 .. Len(commits) : commits'[i] = commits[i]
<1>1. Len(commits) \in Nat
  OBVIOUS
<1>2. /\ Len(commits') = Len(commits) + 1 /\ commits' \in Seq(Repo!Commit)
      /\ \A i \in 1 .. Len(commits) : commits'[i] = commits[i]
      /\ commits'[Len(commits) + 1] = c
  BY Appended
<1>3. \A i \in Nat : i = Len(commits) + 1 => TreeAt(i)' = c.tree
  BY <1>1, <1>2 DEF TreeAt, Repo!TreeAt
<1>4. \A i \in 0 .. Len(commits) : TreeAt(i)' = TreeAt(i)
  BY <1>1, <1>2 DEF TreeAt, Repo!TreeAt
<1> QED
  BY <1>2, <1>3, <1>4

LEMMA NewCommitType ==
  ASSUME TypeOK, index \in Repo!Tree
  PROVE  NewCommit \in Repo!Commit
BY DEF NewCommit, TypeOK, Repo!Parents, Repo!Commit

LEMMA PushedType ==
  ASSUME TypeOK, NEW t \in Pushes, NEW b \in Branches, NEW merged \in {0} \cup live,
         NEW parents \in {<<>>, Repo!Parents(refs[b]) \o Repo!Parents(merged)}
  PROVE  [tree |-> t, parents |-> parents, by |-> "other"] \in Repo!Commit
<1>1. refs[b] \in Nat /\ merged \in Nat
  BY DEF TypeOK
<1>2. Repo!Parents(refs[b]) \in Seq(Nat) /\ Repo!Parents(merged) \in Seq(Nat)
  BY <1>1 DEF Repo!Parents
<1>3. Repo!Parents(refs[b]) \o Repo!Parents(merged) \in Seq(Nat)
  BY <1>2, ConcatProperties
<1>4. <<>> \in Seq(Nat)
  OBVIOUS
<1>5. parents \in Seq(Nat)
  BY <1>3, <1>4
<1> QED
  BY <1>5, RepositoryAssumption DEF Repo!Commit

LEMMA PartialType ==
  ASSUME NEW t \in Repo!Tree, NEW g \in Repo!Got, NEW s
  PROVE  Partial(t, g, s) \in Repo!Tree
BY DEF Partial, Repo!Tree, Repo!Got

LEMMA BlobsType ==
  ASSUME NEW t \in Repo!Tree
  PROVE  Blobs(t) \in SUBSET Contents
BY DEF Blobs, Files, Repo!Files, Repo!Tree

-----------------------------------------------------------------------------
(* Types *)

LEMMA TypeStep ==
  ASSUME TypeOK, WriterInv, PacksInv, [Next]_vars
  PROVE  TypeOK'
<1> USE DEF TypeOK
<1>1. CASE Maintain
  <2>1. \A i \in DOMAIN commits : Blobs(commits[i].tree) \in SUBSET Contents
    <3>1. \A i \in DOMAIN commits : commits[i] \in Repo!Commit
      OBVIOUS
    <3>2. \A i \in DOMAIN commits : commits[i].tree \in Repo!Tree
      BY <3>1 DEF Repo!Commit
    <3> QED
      BY <3>2, BlobsType
  <2>2. CASE Collect
    <3>1. live' \in SUBSET live
      BY <2>2 DEF Collect, Kept
    <3>2. disk' \in SUBSET Contents
      BY <2>1, <2>2, <3>1 DEF Collect
    <3> QED
      BY <1>1, <3>1, <3>2 DEF Maintain, Steps
  <2>3. CASE UNCHANGED <<live, disk>>
    BY <1>1, <2>3 DEF Maintain, Steps
  <2> QED
    BY <1>1, <2>2, <2>3 DEF Maintain
<1>2. CASE PrepareFails
  BY <1>2 DEF PrepareFails, Ends, Steps, Outcomes, objects
<1>3. CASE Prepare
  <2>1. head' \in Branches
    BY <1>3 DEF Prepare, Resolved, Exist, Repo!Exist
  <2>2. base' \in 0 .. Len(commits) /\ index' \in Repo!Tree
    BY <1>3, <2>1, TreeTypes DEF Prepare
  <2>3. scratch' \in Repo!Got
    BY <1>3, NothingTypes DEF Prepare
  <2> QED
    BY <1>3, <2>1, <2>2, <2>3 DEF Prepare, Steps, Outcomes, objects
<1>4. CASE FetchContext
  <2>1. scratch' \in Repo!Got
    BY <1>4, RepositoryAssumption DEF FetchContext, Repo!Got, Repo!Tree
  <2> QED
    BY <1>4, <2>1 DEF FetchContext, objects
<1>5. CASE Fetch
  <2>1. scratch' \in Repo!Got
    <3>1. PICK o \in Offers : scratch' = [scratch EXCEPT !.files =
            [p \in Paths |-> IF p \in {o[1]} \cup Sidecars[o[1]] THEN o[2][p] ELSE scratch.files[p]]]
      BY <1>5 DEF Fetch
    <3>2. o[2] \in Repo!Tree
      BY RepositoryAssumption
    <3> QED
      BY <3>1, <3>2 DEF Repo!Got, Repo!Tree
  <2> QED
    BY <1>5, <2>1 DEF Fetch, objects
<1>6. CASE WalkEnds
  BY <1>6 DEF WalkEnds, Ends, Steps, Outcomes, objects
<1>7. CASE BeginStaging
  <2>1. index' \in Repo!Tree
    BY <1>7 DEF BeginStaging, Repo!Tree
  <2> QED
    BY <1>7, <2>1 DEF BeginStaging, Steps, objects
<1>8. CASE StagingFails
  BY <1>8 DEF StagingFails, Ends, Steps, Outcomes, objects
<1>9. ASSUME NEW p \in Paths, Stage(p) PROVE TypeOK'
  <2>1. index \in Repo!Tree
    BY <1>9, PartialType, TreeTypes DEF Stage, WriterInv
  <2>2. scratch.files[p] \in Contents
    BY <1>9 DEF Stage, Collected, Files, Repo!Files, Repo!Got, Repo!Tree
  <2>3. index' \in Repo!Tree
    BY <1>9, <2>1, <2>2 DEF Stage, Repo!Tree
  <2> QED
    BY <1>9, <2>2, <2>3 DEF Stage, Steps, objects
<1>10. CASE BeginFlush
  BY <1>10 DEF BeginFlush, Steps
<1>11. CASE EndFlush
  BY <1>11 DEF EndFlush, Steps, PacksInv
<1>12. CASE EndStaging
  BY <1>12 DEF EndStaging, Steps, objects
<1>13. CASE WriteTree
  BY <1>13 DEF WriteTree, Ends, Steps, Outcomes, objects
<1>14. CASE Publish
  <2>1. index \in Repo!Tree /\ branch \in Branches
    BY <1>14, PartialType, TreeTypes DEF Publish, WriterInv, Running
  <2>2. /\ Len(commits') = Len(commits) + 1 /\ commits' \in Seq(Repo!Commit)
    BY <1>14, <2>1, NewCommitType, TreesKept DEF Publish
  <2>3. refs' \in [Branches -> 0 .. Len(commits')] /\ live' \in SUBSET DOMAIN commits'
    BY <1>14, <2>1, <2>2 DEF Publish
  <2> QED
    BY <1>14, <2>1, <2>2, <2>3 DEF Publish, Ends, Steps, Outcomes
<1>15. CASE PublishFails
  BY <1>15 DEF PublishFails, Ends, Steps, Outcomes, objects
<1>16. CASE Cleanup
  BY <1>16, NothingTypes DEF Cleanup, Steps, objects
<1>17. CASE Push
  <2>1. PICK b \in Branches, t \in Pushes, merged \in {0} \cup live :
          /\ \E parents \in {<<>>, Repo!Parents(refs[b]) \o Repo!Parents(merged)} :
               commits' = Append(commits, [tree |-> t, parents |-> parents, by |-> "other"])
          /\ refs' = [refs EXCEPT ![b] = Len(commits')]
          /\ disk' = disk \cup Blobs(t)
    BY <1>17 DEF Push
  <2>2. Len(commits') = Len(commits) + 1 /\ commits' \in Seq(Repo!Commit)
    BY <2>1, PushedType, TreesKept
  <2>3. refs' \in [Branches -> 0 .. Len(commits')] /\ live' \in SUBSET DOMAIN commits'
    BY <1>17, <2>1, <2>2 DEF Push
  <2>4. disk' \in SUBSET Contents
    BY <2>1, BlobsType, RepositoryAssumption
  <2> QED
    BY <1>17, <2>2, <2>3, <2>4 DEF Push, Move, writer
<1>18. CASE Reset
  <2>1. live \subseteq 0 .. Len(commits)
    OBVIOUS
  <2> QED
    BY <1>18, <2>1 DEF Reset, Move, writer, objects
<1>19. CASE SwitchHead
  BY <1>19 DEF SwitchHead, Move, writer, objects
<1>20. CASE LoseScratch
  BY <1>20, NothingTypes DEF LoseScratch, Move, objects
<1>21. CASE Crash
  BY <1>21 DEF Crash, Move, Steps, objects
<1>22. CASE UNCHANGED vars
  BY <1>22 DEF vars, objects, writer
<1> QED
  BY <1>1, <1>2, <1>3, <1>4, <1>5, <1>6, <1>7, <1>8, <1>9, <1>10, <1>11, <1>12, <1>13,
     <1>14, <1>15, <1>16, <1>17, <1>18, <1>19, <1>20, <1>21, <1>22 DEF Next, Sync, Downloads
-----------------------------------------------------------------------------
(* Packs, the scratch directory *)

LEMMA PacksStep ==
  ASSUME TypeOK, PacksInv, [Next]_vars
  PROVE  PacksInv'
<1>1. CASE Maintain
  BY <1>1 DEF Maintain, objects, writer, Move, Ends, PacksInv, TypeOK
<1>2. CASE PrepareFails
  BY <1>2 DEF PrepareFails, objects, writer, Move, Ends, PacksInv, TypeOK
<1>3. CASE Prepare
  BY <1>3 DEF Prepare, objects, writer, Move, Ends, PacksInv, TypeOK
<1>4. CASE FetchContext
  BY <1>4 DEF FetchContext, objects, writer, Move, Ends, PacksInv, TypeOK
<1>5. CASE Fetch
  BY <1>5 DEF Fetch, objects, writer, Move, Ends, PacksInv, TypeOK
<1>6. CASE WalkEnds
  BY <1>6 DEF WalkEnds, objects, writer, Move, Ends, PacksInv, TypeOK
<1>7. CASE BeginStaging
  BY <1>7 DEF BeginStaging, objects, writer, Move, Ends, PacksInv, TypeOK
<1>8. CASE StagingFails
  BY <1>8 DEF StagingFails, objects, writer, Move, Ends, PacksInv, TypeOK
<1>9. ASSUME NEW p \in Paths, Stage(p) PROVE PacksInv'
  BY <1>9 DEF Stage, objects, writer, Move, Ends, PacksInv, TypeOK
<1>10. CASE BeginFlush
  BY <1>10 DEF BeginFlush, objects, writer, Move, Ends, PacksInv, TypeOK
<1>11. CASE EndFlush
  BY <1>11 DEF EndFlush, objects, writer, Move, Ends, PacksInv, TypeOK
<1>12. CASE EndStaging
  BY <1>12 DEF EndStaging, objects, writer, Move, Ends, PacksInv, TypeOK
<1>13. CASE WriteTree
  BY <1>13 DEF WriteTree, objects, writer, Move, Ends, PacksInv, TypeOK
<1>14. CASE Publish
  BY <1>14 DEF Publish, objects, writer, Move, Ends, PacksInv, TypeOK
<1>15. CASE PublishFails
  BY <1>15 DEF PublishFails, objects, writer, Move, Ends, PacksInv, TypeOK
<1>16. CASE Cleanup
  BY <1>16 DEF Cleanup, objects, writer, Move, Ends, PacksInv, TypeOK
<1>17. CASE Push
  BY <1>17 DEF Push, objects, writer, Move, Ends, PacksInv, TypeOK
<1>18. CASE Reset
  BY <1>18 DEF Reset, objects, writer, Move, Ends, PacksInv, TypeOK
<1>19. CASE SwitchHead
  BY <1>19 DEF SwitchHead, objects, writer, Move, Ends, PacksInv, TypeOK
<1>20. CASE LoseScratch
  BY <1>20 DEF LoseScratch, objects, writer, Move, Ends, PacksInv, TypeOK
<1>21. CASE Crash
  BY <1>21 DEF Crash, objects, writer, Move, Ends, PacksInv, TypeOK
<1>22. CASE UNCHANGED vars
  BY <1>22 DEF vars, objects, writer, PacksInv, TypeOK
<1> QED
  BY <1>1, <1>2, <1>3, <1>4, <1>5, <1>6, <1>7, <1>8, <1>9, <1>10, <1>11, <1>12, <1>13, <1>14, <1>15, <1>16, <1>17, <1>18, <1>19, <1>20, <1>21, <1>22
  DEF Next, Sync, Downloads

LEMMA SeparateStep ==
  ASSUME TypeOK, Separate, [Next]_vars
  PROVE  Separate'
<1>1. CASE Maintain
  BY <1>1 DEF Maintain, objects, writer, Move, Ends, Separate, Collected
<1>2. CASE PrepareFails
  BY <1>2 DEF PrepareFails, objects, writer, Move, Ends, Separate, Collected
<1>3. CASE Prepare
  BY <1>3, NothingTypes DEF Prepare, Separate, Collected
<1>4. CASE FetchContext
  <2>1. \A p \in Paths \ Keys : scratch'.files[p] = scratch.files[p]
    BY <1>4 DEF FetchContext
  <2>2. \A p, q \in Paths : p \in Collides[q] => p \notin Keys /\ q \notin Keys
    BY PathsAssumption
  <2>3. Collected' \subseteq Paths /\ Collected' \ Keys \subseteq Collected
    BY <2>1 DEF Collected, Files, Repo!Files
  <2> QED
    BY <2>2, <2>3 DEF Separate
<1>5. CASE Fetch
  <2>1. PICK o \in Offers :
          /\ \A p \in {o[1]} \cup Sidecars[o[1]] : Collides[p] \cap Collected = {}
          /\ scratch' = [scratch EXCEPT !.files =
               [p \in Paths |-> IF p \in {o[1]} \cup Sidecars[o[1]] THEN o[2][p]
                                ELSE scratch.files[p]]]
    BY <1>5 DEF Fetch
  <2> DEFINE files == {o[1]} \cup Sidecars[o[1]]
  <2>2. o[1] \in Advisories
    BY RepositoryAssumption
  <2>3. Collected' \subseteq Collected \cup files /\ Collected' \subseteq Paths
    BY <2>1 DEF Collected, Files, Repo!Files, TypeOK, Repo!Got
  <2>4. \A p, q \in files : p \notin Collides[q]
    BY <2>2, PathsAssumption
  <2>5. \A p \in files, q \in Collected : q \notin Collides[p]
    BY <2>1
  <2>6. \A p \in files, q \in Collected' : p \in Collides[q] => q \in Collides[p]
    <3>1. files \subseteq Paths
      BY <2>2, RepositoryAssumption
    <3> QED
      BY <3>1, <2>3, PathsAssumption
  <2> QED
    BY <2>3, <2>4, <2>5, <2>6 DEF Separate
<1>6. CASE WalkEnds
  BY <1>6 DEF WalkEnds, objects, writer, Move, Ends, Separate, Collected
<1>7. CASE BeginStaging
  BY <1>7 DEF BeginStaging, objects, writer, Move, Ends, Separate, Collected
<1>8. CASE StagingFails
  BY <1>8 DEF StagingFails, objects, writer, Move, Ends, Separate, Collected
<1>9. ASSUME NEW p \in Paths, Stage(p) PROVE Separate'
  BY <1>9 DEF Stage, objects, writer, Move, Ends, Separate, Collected
<1>10. CASE BeginFlush
  BY <1>10 DEF BeginFlush, objects, writer, Move, Ends, Separate, Collected
<1>11. CASE EndFlush
  BY <1>11 DEF EndFlush, objects, writer, Move, Ends, Separate, Collected
<1>12. CASE EndStaging
  BY <1>12 DEF EndStaging, objects, writer, Move, Ends, Separate, Collected
<1>13. CASE WriteTree
  BY <1>13 DEF WriteTree, objects, writer, Move, Ends, Separate, Collected
<1>14. CASE Publish
  BY <1>14 DEF Publish, objects, writer, Move, Ends, Separate, Collected
<1>15. CASE PublishFails
  BY <1>15 DEF PublishFails, objects, writer, Move, Ends, Separate, Collected
<1>16. CASE Cleanup
  BY <1>16, NothingTypes DEF Cleanup, Separate, Collected
<1>17. CASE Push
  BY <1>17 DEF Push, objects, writer, Move, Ends, Separate, Collected
<1>18. CASE Reset
  BY <1>18 DEF Reset, objects, writer, Move, Ends, Separate, Collected
<1>19. CASE SwitchHead
  BY <1>19 DEF SwitchHead, objects, writer, Move, Ends, Separate, Collected
<1>20. CASE LoseScratch
  BY <1>20, NothingTypes DEF LoseScratch, Separate, Collected
<1>21. CASE Crash
  BY <1>21 DEF Crash, objects, writer, Move, Ends, Separate, Collected
<1>22. CASE UNCHANGED vars
  BY <1>22 DEF vars, objects, writer, Separate, Collected
<1> QED
  BY <1>1, <1>2, <1>3, <1>4, <1>5, <1>6, <1>7, <1>8, <1>9, <1>10, <1>11, <1>12, <1>13, <1>14, <1>15, <1>16, <1>17, <1>18, <1>19, <1>20, <1>21, <1>22
  DEF Next, Sync, Downloads
-----------------------------------------------------------------------------
(* The index of the writer *)

\* One more file is staged.
LEMMA StagedPartial ==
  ASSUME TypeOK, Separate, WriterInv, NEW p \in Paths, Stage(p)
  PROVE  index' = Partial(TreeAt(base), scratch, staged \cup {p})
<1>1. index = Partial(TreeAt(base), scratch, staged) /\ staged \subseteq Collected
  BY DEF Stage, WriterInv
<1>2. p \in Collected /\ p \notin Collides[p]
  BY PathsAssumption DEF Stage
<1>3. \A q \in staged : q \notin Collides[p] /\ scratch.files[q] # None
  BY <1>1, <1>2 DEF Separate, Collected, Files, Repo!Files
<1>4. index' = [q \in Paths |->
       IF q = p THEN scratch.files[p]
       ELSE IF q \in Collides[p] \/ (q \in Sidecars[p] /\ scratch.files[q] = None)
         THEN None
       ELSE index[q]]
  BY DEF Stage
<1>5. ASSUME NEW q \in Paths
      PROVE  index'[q] = Partial(TreeAt(base), scratch, staged \cup {p})[q]
  <2>1. CASE q = p
    BY <2>1, <1>4 DEF Partial
  <2>2. CASE q # p /\ q \in staged
    BY <2>2, <1>1, <1>3, <1>4 DEF Partial
  <2>3. CASE q # p /\ q \notin staged
    BY <2>3, <1>1, <1>4 DEF Partial
  <2> QED
    BY <2>1, <2>2, <2>3
<1> QED
  BY <1>4, <1>5 DEF Partial

LEMMA WriterStep ==
  ASSUME TypeOK, Separate, WriterInv, [Next]_vars
  PROVE  WriterInv'
<1>1. CASE Maintain
  BY <1>1 DEF Maintain, WriterInv, Running
<1>2. CASE PrepareFails
  BY <1>2 DEF PrepareFails, Ends, WriterInv, Running
<1>3. CASE Prepare
  <2>1. head' \in Branches
    BY <1>3 DEF Prepare, Resolved, Exist, Repo!Exist
  <2>2. index' = TreeAt(base)'
    BY <1>3 DEF Prepare, TreeAt, Repo!TreeAt
  <2> QED
    BY <1>3, <2>1, <2>2 DEF Prepare, WriterInv, Running
<1>4. CASE FetchContext
  <2>1. TreeAt(base)' = TreeAt(base)
    BY <1>4 DEF FetchContext, objects, TreeAt, Repo!TreeAt
  <2> QED
    BY <1>4, <2>1 DEF FetchContext, Ends, WriterInv, Running
<1>5. CASE Fetch
  <2>1. TreeAt(base)' = TreeAt(base)
    BY <1>5 DEF Fetch, objects, TreeAt, Repo!TreeAt
  <2> QED
    BY <1>5, <2>1 DEF Fetch, Ends, WriterInv, Running
<1>6. CASE WalkEnds
  <2>1. TreeAt(base)' = TreeAt(base)
    BY <1>6 DEF WalkEnds, objects, TreeAt, Repo!TreeAt
  <2> QED
    BY <1>6, <2>1 DEF WalkEnds, Ends, WriterInv, Running
<1>7. CASE BeginStaging
  <2>1. index = TreeAt(base) /\ staged = {}
    BY <1>7 DEF BeginStaging, WriterInv
  <2>2. index' = Partial(TreeAt(base), scratch, {})
    BY <1>7, <2>1 DEF BeginStaging, Partial
  <2>3. TreeAt(base)' = TreeAt(base)
    BY <1>7 DEF BeginStaging, TreeAt, Repo!TreeAt
  <2>4. index' = Partial(TreeAt(base), scratch, staged)'
    BY <1>7, <2>1, <2>2, <2>3 DEF BeginStaging, Partial
  <2>5. staged' = {} /\ staged' \subseteq Collected' /\ step' = "stage"
    BY <1>7, <2>1 DEF BeginStaging
  <2> QED
    BY <1>7, <2>4, <2>5 DEF BeginStaging, WriterInv, Running
<1>8. CASE StagingFails
  BY <1>8 DEF StagingFails, Ends, WriterInv, Running
<1>9. ASSUME NEW p \in Paths, Stage(p) PROVE WriterInv'
  <2>1. index' = Partial(TreeAt(base), scratch, staged \cup {p})
    BY <1>9, StagedPartial
  <2>2. TreeAt(base)' = TreeAt(base)
    BY <1>9 DEF Stage, TreeAt, Repo!TreeAt
  <2>3. index' = Partial(TreeAt(base), scratch, staged)'
    BY <1>9, <2>1, <2>2 DEF Stage, Partial
  <2> QED
    BY <1>9, <2>3 DEF Stage, WriterInv, Running, Collected, Files, Repo!Files
<1>10. CASE BeginFlush
  <2>1. TreeAt(base)' = TreeAt(base)
    BY <1>10 DEF BeginFlush, objects, writer, TreeAt, Repo!TreeAt
  <2>2. Partial(TreeAt(base), scratch, staged)' = Partial(TreeAt(base), scratch, staged)
    BY <1>10, <2>1 DEF BeginFlush, objects, writer, Partial
  <2>3. Collected' = Collected /\ Blobs(index)' = Blobs(index)
    BY <1>10 DEF BeginFlush, objects, writer, Collected, Files, Repo!Files, Blobs
  <2> QED
    BY <1>10, <2>1, <2>2, <2>3 DEF BeginFlush, objects, writer, Move, Ends, WriterInv, Running
<1>11. CASE EndFlush
  <2>1. TreeAt(base)' = TreeAt(base)
    BY <1>11 DEF EndFlush, objects, writer, TreeAt, Repo!TreeAt
  <2>2. Partial(TreeAt(base), scratch, staged)' = Partial(TreeAt(base), scratch, staged)
    BY <1>11, <2>1 DEF EndFlush, objects, writer, Partial
  <2>3. Collected' = Collected /\ Blobs(index)' = Blobs(index)
    BY <1>11 DEF EndFlush, objects, writer, Collected, Files, Repo!Files, Blobs
  <2> QED
    BY <1>11, <2>1, <2>2, <2>3 DEF EndFlush, objects, writer, Move, Ends, WriterInv, Running
<1>12. CASE EndStaging
  <2>1. TreeAt(base)' = TreeAt(base)
    BY <1>12 DEF EndStaging, objects, writer, TreeAt, Repo!TreeAt
  <2>2. Partial(TreeAt(base), scratch, staged)' = Partial(TreeAt(base), scratch, staged)
    BY <1>12, <2>1 DEF EndStaging, objects, writer, Partial
  <2>3. Collected' = Collected /\ Blobs(index)' = Blobs(index)
    BY <1>12 DEF EndStaging, objects, writer, Collected, Files, Repo!Files, Blobs
  <2> QED
    BY <1>12, <2>1, <2>2, <2>3 DEF EndStaging, objects, writer, Move, Ends, WriterInv, Running
<1>13. CASE WriteTree
  <2>1. CASE step' = "ended"
    BY <1>13, <2>1 DEF WriteTree, Ends, WriterInv, Running
  <2>2. CASE step' # "ended"
    <3>1. TreeAt(base)' = TreeAt(base)
      BY <1>13 DEF WriteTree, TreeAt, Repo!TreeAt
    <3>2. UNCHANGED <<staged, buffered, scratch, index, base, branch, objects>> /\ step' = "publish"
      BY <1>13, <2>2 DEF WriteTree, Ends
    <3>3. Partial(TreeAt(base), scratch, staged)' = Partial(TreeAt(base), scratch, staged)
      BY <3>1, <3>2 DEF Partial
    <3>4. Collected' = Collected /\ Blobs(index)' = Blobs(index) /\ disk' = disk
      BY <3>2 DEF Collected, Files, Repo!Files, Blobs, objects
    <3>5. Blobs(index) \subseteq disk /\ (base = 0 \/ index # TreeAt(base)) /\ step = "staged"
      BY <1>13, <2>2 DEF WriteTree, Ends
    <3> QED
      BY <3>1, <3>2, <3>3, <3>4, <3>5 DEF WriterInv, Running
  <2> QED
    BY <2>1, <2>2
<1>14. CASE Publish
  BY <1>14 DEF Publish, Ends, WriterInv, Running
<1>15. CASE PublishFails
  BY <1>15 DEF PublishFails, Ends, WriterInv, Running
<1>16. CASE Cleanup
  BY <1>16 DEF Cleanup, Ends, WriterInv, Running
<1>17. CASE Push
  <2>1. Len(commits) < Len(commits')
    BY <1>17, PushedType, TreesKept DEF Push
  <2>2. TreeAt(base)' = TreeAt(base)
    BY <1>17, PushedType, TreesKept DEF Push, writer, TypeOK
  <2>3. disk \subseteq disk'
    BY <1>17 DEF Push
  <2>4. Partial(TreeAt(base), scratch, staged)' = Partial(TreeAt(base), scratch, staged)
    BY <1>17, <2>2 DEF Push, writer, Partial
  <2>5. Collected' = Collected /\ Blobs(index)' = Blobs(index)
    BY <1>17 DEF Push, writer, Collected, Files, Repo!Files, Blobs
  <2> QED
    BY <1>17, <2>2, <2>3, <2>4, <2>5 DEF Push, writer, WriterInv, Running
<1>18. CASE Reset
  <2>1. TreeAt(base)' = TreeAt(base)
    BY <1>18 DEF Reset, objects, writer, TreeAt, Repo!TreeAt
  <2>2. Partial(TreeAt(base), scratch, staged)' = Partial(TreeAt(base), scratch, staged)
    BY <1>18, <2>1 DEF Reset, objects, writer, Partial
  <2>3. Collected' = Collected /\ Blobs(index)' = Blobs(index)
    BY <1>18 DEF Reset, objects, writer, Collected, Files, Repo!Files, Blobs
  <2> QED
    BY <1>18, <2>1, <2>2, <2>3 DEF Reset, objects, writer, Move, Ends, WriterInv, Running
<1>19. CASE SwitchHead
  <2>1. TreeAt(base)' = TreeAt(base)
    BY <1>19 DEF SwitchHead, objects, writer, TreeAt, Repo!TreeAt
  <2>2. Partial(TreeAt(base), scratch, staged)' = Partial(TreeAt(base), scratch, staged)
    BY <1>19, <2>1 DEF SwitchHead, objects, writer, Partial
  <2>3. Collected' = Collected /\ Blobs(index)' = Blobs(index)
    BY <1>19 DEF SwitchHead, objects, writer, Collected, Files, Repo!Files, Blobs
  <2> QED
    BY <1>19, <2>1, <2>2, <2>3 DEF SwitchHead, objects, writer, Move, Ends, WriterInv, Running
<1>20. CASE LoseScratch
  BY <1>20 DEF LoseScratch, WriterInv, Running
<1>21. CASE Crash
  BY <1>21 DEF Crash, Ends, WriterInv, Running
<1>22. CASE UNCHANGED vars
  <2>1. TreeAt(base)' = TreeAt(base)
    BY <1>22 DEF vars, objects, writer, TreeAt, Repo!TreeAt
  <2>2. Partial(TreeAt(base), scratch, staged)' = Partial(TreeAt(base), scratch, staged)
    BY <1>22, <2>1 DEF vars, objects, writer, Partial
  <2>3. Collected' = Collected /\ Blobs(index)' = Blobs(index)
    BY <1>22 DEF vars, objects, writer, Collected, Files, Repo!Files, Blobs
  <2> QED
    BY <1>22, <2>1, <2>2, <2>3 DEF vars, objects, writer, Move, Ends, WriterInv, Running
<1> QED
  BY <1>1, <1>2, <1>3, <1>4, <1>5, <1>6, <1>7, <1>8, <1>9, <1>10, <1>11, <1>12, <1>13, <1>14, <1>15, <1>16, <1>17, <1>18, <1>19, <1>20, <1>21, <1>22
  DEF Next, Sync, Downloads
-----------------------------------------------------------------------------
(* The objects of the branches *)

ReadableInv == BranchesReadable /\ BlobsInv

\* What BranchesReadable says of a commit that git gc keeps.
Readable(i) ==
  /\ \A n \in DOMAIN commits[i].parents : commits[i].parents[n] \in live
  /\ Blobs(TreeAt(i)) \subseteq disk

\* A commit is added whose parents and blobs are there.
LEMMA AddedReadable ==
  ASSUME TypeOK, BranchesReadable, NEW c \in Repo!Commit, NEW b \in Branches,
         commits' = Append(commits, c),
         live' = live \cup {Len(commits')},
         refs' = [refs EXCEPT ![b] = Len(commits')],
         disk \subseteq disk', Blobs(c.tree) \subseteq disk',
         \A n \in DOMAIN c.parents : c.parents[n] \in live
  PROVE  BranchesReadable'
<1>1. /\ Len(commits') = Len(commits) + 1
      /\ commits'[Len(commits')] = c
      /\ \A i \in Nat : i = Len(commits) + 1 => TreeAt(i)' = c.tree
      /\ \A i \in 0 .. Len(commits) : TreeAt(i)' = TreeAt(i)
      /\ \A i \in 1 .. Len(commits) : commits'[i] = commits[i]
  BY TreesKept DEF TypeOK
<1>2. live \subseteq 1 .. Len(commits) /\ Len(commits) \in Nat
  BY DEF TypeOK
<1>3. \A a \in Branches : refs'[a] # 0 => refs'[a] \in live'
  BY DEF BranchesReadable, TypeOK
<1>4. ASSUME NEW i \in live' PROVE Readable(i)'
  <2>1. CASE i \in live
    <3>1. commits'[i] = commits[i] /\ TreeAt(i)' = TreeAt(i)
      BY <1>1, <1>2, <2>1
    <3>2. \A n \in DOMAIN commits[i].parents : commits[i].parents[n] \in live
      BY <2>1 DEF BranchesReadable
    <3>3. Blobs(TreeAt(i)) \subseteq disk
      BY <2>1 DEF BranchesReadable
    <3> QED
      BY <3>1, <3>2, <3>3 DEF Readable, Blobs, Files, Repo!Files
  <2>2. CASE i = Len(commits) + 1
    <3>1. commits'[i] = c /\ TreeAt(i)' = c.tree
      BY <1>1, <1>2, <2>2
    <3> QED
      BY <3>1 DEF Readable, Blobs, Files, Repo!Files
  <2> QED
    BY <1>1, <2>1, <2>2
<1> QED
  BY <1>3, <1>4 DEF BranchesReadable, Readable

LEMMA ReadableStep ==
  ASSUME TypeOK, WriterInv, BranchesReadable, BlobsInv, [Next]_vars
  PROVE  ReadableInv'
<1>1. CASE Maintain
  <2>1. UNCHANGED <<refs, commits>> /\ step' = "maintained"
    BY <1>1 DEF Maintain
  <2>2. \A i \in live : Blobs(TreeAt(i))' = Blobs(TreeAt(i)) /\ TreeAt(i) = commits[i].tree
    BY <2>1 DEF Blobs, Files, Repo!Files, TreeAt, Repo!TreeAt, TypeOK
  <2>3. CASE Collect
    <3>1. /\ live' \subseteq live
          /\ \A b \in Branches : refs[b] # 0 => refs[b] \in live'
          /\ \A i \in live' : \A n \in DOMAIN commits[i].parents : commits[i].parents[n] \in live'
      BY <2>3 DEF Collect, Kept
    <3>2. \A i \in live' : Blobs(TreeAt(i)) \subseteq disk'
      BY <2>2, <2>3, <3>1 DEF Collect, BranchesReadable
    <3> QED
      BY <2>1, <2>2, <3>1, <3>2 DEF ReadableInv, BlobsInv, Running, BranchesReadable
  <2>4. CASE UNCHANGED <<live, disk>>
    BY <2>1, <2>2, <2>4 DEF ReadableInv, BlobsInv, Running, BranchesReadable
  <2> QED
    BY <1>1, <2>3, <2>4 DEF Maintain
<1>2. CASE PrepareFails
  <2>1. UNCHANGED <<refs, commits, live>> /\ disk \subseteq disk'
    BY <1>2 DEF PrepareFails, objects, writer, vars
  <2>2. \A i \in live : Blobs(TreeAt(i))' = Blobs(TreeAt(i))
    BY <2>1 DEF Blobs, Files, Repo!Files, TreeAt, Repo!TreeAt
  <2>3. BranchesReadable'
    BY <2>1, <2>2 DEF BranchesReadable
  <2> QED
    BY <1>2, <2>1, <2>3 DEF PrepareFails, objects, writer, vars, Move, Ends, ReadableInv, BlobsInv, Running
<1>3. CASE Prepare
  <2>1. UNCHANGED <<refs, commits, live, disk>>
    BY <1>3 DEF Prepare, objects
  <2>2. \A i \in live : Blobs(TreeAt(i))' = Blobs(TreeAt(i))
    BY <2>1 DEF Blobs, Files, Repo!Files, TreeAt, Repo!TreeAt
  <2>3. BranchesReadable'
    BY <2>1, <2>2 DEF BranchesReadable
  <2>4. head' \in Branches /\ base' = refs[head']
    BY <1>3 DEF Prepare, Resolved, Exist, Repo!Exist
  <2> QED
    BY <1>3, <2>1, <2>3, <2>4 DEF Prepare, ReadableInv, BlobsInv, BranchesReadable
<1>4. CASE FetchContext
  <2>1. UNCHANGED <<refs, commits, live>> /\ disk \subseteq disk'
    BY <1>4 DEF FetchContext, objects, writer, vars
  <2>2. \A i \in live : Blobs(TreeAt(i))' = Blobs(TreeAt(i))
    BY <2>1 DEF Blobs, Files, Repo!Files, TreeAt, Repo!TreeAt
  <2>3. BranchesReadable'
    BY <2>1, <2>2 DEF BranchesReadable
  <2> QED
    BY <1>4, <2>1, <2>3 DEF FetchContext, objects, writer, vars, Move, Ends, ReadableInv, BlobsInv, Running
<1>5. CASE Fetch
  <2>1. UNCHANGED <<refs, commits, live>> /\ disk \subseteq disk'
    BY <1>5 DEF Fetch, objects, writer, vars
  <2>2. \A i \in live : Blobs(TreeAt(i))' = Blobs(TreeAt(i))
    BY <2>1 DEF Blobs, Files, Repo!Files, TreeAt, Repo!TreeAt
  <2>3. BranchesReadable'
    BY <2>1, <2>2 DEF BranchesReadable
  <2> QED
    BY <1>5, <2>1, <2>3 DEF Fetch, objects, writer, vars, Move, Ends, ReadableInv, BlobsInv, Running
<1>6. CASE WalkEnds
  <2>1. UNCHANGED <<refs, commits, live>> /\ disk \subseteq disk'
    BY <1>6 DEF WalkEnds, objects, writer, vars
  <2>2. \A i \in live : Blobs(TreeAt(i))' = Blobs(TreeAt(i))
    BY <2>1 DEF Blobs, Files, Repo!Files, TreeAt, Repo!TreeAt
  <2>3. BranchesReadable'
    BY <2>1, <2>2 DEF BranchesReadable
  <2> QED
    BY <1>6, <2>1, <2>3 DEF WalkEnds, objects, writer, vars, Move, Ends, ReadableInv, BlobsInv, Running
<1>7. CASE BeginStaging
  <2>1. UNCHANGED <<refs, commits, live>> /\ disk \subseteq disk'
    BY <1>7 DEF BeginStaging, objects, writer, vars
  <2>2. \A i \in live : Blobs(TreeAt(i))' = Blobs(TreeAt(i))
    BY <2>1 DEF Blobs, Files, Repo!Files, TreeAt, Repo!TreeAt
  <2>3. BranchesReadable'
    BY <2>1, <2>2 DEF BranchesReadable
  <2> QED
    BY <1>7, <2>1, <2>3 DEF BeginStaging, objects, ReadableInv, BlobsInv, WriterInv, Running
<1>8. CASE StagingFails
  <2>1. UNCHANGED <<refs, commits, live>> /\ disk \subseteq disk'
    BY <1>8 DEF StagingFails, objects, writer, vars
  <2>2. \A i \in live : Blobs(TreeAt(i))' = Blobs(TreeAt(i))
    BY <2>1 DEF Blobs, Files, Repo!Files, TreeAt, Repo!TreeAt
  <2>3. BranchesReadable'
    BY <2>1, <2>2 DEF BranchesReadable
  <2> QED
    BY <1>8, <2>1, <2>3 DEF StagingFails, objects, writer, vars, Move, Ends, ReadableInv, BlobsInv, Running
<1>9. ASSUME NEW p \in Paths, Stage(p) PROVE ReadableInv'
  <2>1. UNCHANGED <<refs, commits, live>> /\ disk \subseteq disk'
    BY <1>9 DEF Stage, objects, writer, vars
  <2>2. \A i \in live : Blobs(TreeAt(i))' = Blobs(TreeAt(i))
    BY <2>1 DEF Blobs, Files, Repo!Files, TreeAt, Repo!TreeAt
  <2>3. BranchesReadable'
    BY <2>1, <2>2 DEF BranchesReadable
  <2> QED
    BY <1>9, <2>1, <2>3 DEF Stage, objects, writer, vars, Move, Ends, ReadableInv, BlobsInv, Running
<1>10. CASE BeginFlush
  <2>1. UNCHANGED <<refs, commits, live>> /\ disk \subseteq disk'
    BY <1>10 DEF BeginFlush, objects, writer, vars
  <2>2. \A i \in live : Blobs(TreeAt(i))' = Blobs(TreeAt(i))
    BY <2>1 DEF Blobs, Files, Repo!Files, TreeAt, Repo!TreeAt
  <2>3. BranchesReadable'
    BY <2>1, <2>2 DEF BranchesReadable
  <2> QED
    BY <1>10, <2>1, <2>3 DEF BeginFlush, objects, writer, vars, Move, Ends, ReadableInv, BlobsInv, Running
<1>11. CASE EndFlush
  <2>1. UNCHANGED <<refs, commits, live>> /\ disk \subseteq disk'
    BY <1>11 DEF EndFlush, objects, writer, vars
  <2>2. \A i \in live : Blobs(TreeAt(i))' = Blobs(TreeAt(i))
    BY <2>1 DEF Blobs, Files, Repo!Files, TreeAt, Repo!TreeAt
  <2>3. BranchesReadable'
    BY <2>1, <2>2 DEF BranchesReadable
  <2> QED
    BY <1>11, <2>1, <2>3 DEF EndFlush, objects, writer, vars, Move, Ends, ReadableInv, BlobsInv, Running
<1>12. CASE EndStaging
  <2>1. UNCHANGED <<refs, commits, live>> /\ disk \subseteq disk'
    BY <1>12 DEF EndStaging, objects, writer, vars
  <2>2. \A i \in live : Blobs(TreeAt(i))' = Blobs(TreeAt(i))
    BY <2>1 DEF Blobs, Files, Repo!Files, TreeAt, Repo!TreeAt
  <2>3. BranchesReadable'
    BY <2>1, <2>2 DEF BranchesReadable
  <2> QED
    BY <1>12, <2>1, <2>3 DEF EndStaging, objects, writer, vars, Move, Ends, ReadableInv, BlobsInv, Running
<1>13. CASE WriteTree
  <2>1. UNCHANGED <<refs, commits, live>> /\ disk \subseteq disk'
    BY <1>13 DEF WriteTree, objects, writer, vars
  <2>2. \A i \in live : Blobs(TreeAt(i))' = Blobs(TreeAt(i))
    BY <2>1 DEF Blobs, Files, Repo!Files, TreeAt, Repo!TreeAt
  <2>3. BranchesReadable'
    BY <2>1, <2>2 DEF BranchesReadable
  <2> QED
    BY <1>13, <2>1, <2>3 DEF WriteTree, objects, writer, vars, Move, Ends, ReadableInv, BlobsInv, Running
<1>14. CASE Publish
  <2>1. index \in Repo!Tree /\ branch \in Branches
    BY <1>14, PartialType, TreeTypes DEF Publish, WriterInv, Running, TypeOK
  <2>2. NewCommit \in Repo!Commit
    BY <2>1, NewCommitType
  <2>3. \A n \in DOMAIN NewCommit.parents : NewCommit.parents[n] \in live
    BY <1>14 DEF Publish, NewCommit, Repo!Parents, BlobsInv, Running
  <2>4. Blobs(NewCommit.tree) \subseteq disk' /\ disk' = disk
    BY <1>14 DEF Publish, NewCommit, WriterInv
  <2>5. BranchesReadable'
    BY <1>14, <2>1, <2>2, <2>3, <2>4, AddedReadable DEF Publish
  <2> QED
    BY <1>14, <2>5 DEF Publish, Ends, ReadableInv, BlobsInv, Running
<1>15. CASE PublishFails
  <2>1. UNCHANGED <<refs, commits, live>> /\ disk \subseteq disk'
    BY <1>15 DEF PublishFails, objects, writer, vars
  <2>2. \A i \in live : Blobs(TreeAt(i))' = Blobs(TreeAt(i))
    BY <2>1 DEF Blobs, Files, Repo!Files, TreeAt, Repo!TreeAt
  <2>3. BranchesReadable'
    BY <2>1, <2>2 DEF BranchesReadable
  <2> QED
    BY <1>15, <2>1, <2>3 DEF PublishFails, objects, writer, vars, Move, Ends, ReadableInv, BlobsInv, Running
<1>16. CASE Cleanup
  <2>1. UNCHANGED <<refs, commits, live>> /\ disk \subseteq disk'
    BY <1>16 DEF Cleanup, objects, writer, vars
  <2>2. \A i \in live : Blobs(TreeAt(i))' = Blobs(TreeAt(i))
    BY <2>1 DEF Blobs, Files, Repo!Files, TreeAt, Repo!TreeAt
  <2>3. BranchesReadable'
    BY <2>1, <2>2 DEF BranchesReadable
  <2> QED
    BY <1>16, <2>1, <2>3 DEF Cleanup, objects, writer, vars, Move, Ends, ReadableInv, BlobsInv, Running
<1>17. CASE Push
  <2>0. PICK b \in Branches, t \in Pushes, merged \in {0} \cup live :
          /\ \E parents \in {<<>>, Repo!Parents(refs[b]) \o Repo!Parents(merged)} :
               commits' = Append(commits, [tree |-> t, parents |-> parents, by |-> "other"])
          /\ refs' = [refs EXCEPT ![b] = Len(commits')]
          /\ disk' = disk \cup Blobs(t)
    BY <1>17 DEF Push
  <2>1. PICK parents \in {<<>>, Repo!Parents(refs[b]) \o Repo!Parents(merged)} :
          commits' = Append(commits, [tree |-> t, parents |-> parents, by |-> "other"])
    BY <2>0
  <2> DEFINE c == [tree |-> t, parents |-> parents, by |-> "other"]
  <2>2. c \in Repo!Commit
    BY <2>1, PushedType
  <2>3. \A n \in DOMAIN parents : parents[n] \in live
    <3>1. refs[b] \in {0} \cup live
      BY DEF BranchesReadable
    <3>2. \A i \in {0} \cup live : /\ Repo!Parents(i) \in Seq(live)
      BY DEF Repo!Parents
    <3>3. Repo!Parents(refs[b]) \o Repo!Parents(merged) \in Seq(live)
      BY <3>1, <3>2, ConcatProperties
    <3>4. <<>> \in Seq(live)
      OBVIOUS
    <3>5. parents \in Seq(live)
      BY <2>1, <3>3, <3>4
    <3> QED
      BY <3>5
  <2>4. live' = live \cup {Len(commits')} /\ UNCHANGED writer
    BY <1>17 DEF Push
  <2>5. BranchesReadable'
    BY <2>0, <2>1, <2>2, <2>3, <2>4, AddedReadable
  <2> QED
    BY <2>0, <2>1, <2>4, <2>5 DEF writer, ReadableInv, BlobsInv, Running
<1>18. CASE Reset
  <2>1. UNCHANGED <<commits, live, disk, writer>>
    BY <1>18 DEF Reset, objects
  <2>2. \A i \in live : Blobs(TreeAt(i))' = Blobs(TreeAt(i))
    BY <2>1 DEF Blobs, Files, Repo!Files, TreeAt, Repo!TreeAt
  <2>3. \A b \in Branches : refs'[b] # 0 => refs'[b] \in live
    BY <1>18 DEF Reset, BranchesReadable, TypeOK
  <2>4. BranchesReadable'
    BY <2>1, <2>2, <2>3 DEF BranchesReadable
  <2> QED
    BY <2>1, <2>4 DEF writer, ReadableInv, BlobsInv, Running
<1>19. CASE SwitchHead
  <2>1. UNCHANGED <<refs, commits, live>> /\ disk \subseteq disk'
    BY <1>19 DEF SwitchHead, objects, writer, vars
  <2>2. \A i \in live : Blobs(TreeAt(i))' = Blobs(TreeAt(i))
    BY <2>1 DEF Blobs, Files, Repo!Files, TreeAt, Repo!TreeAt
  <2>3. BranchesReadable'
    BY <2>1, <2>2 DEF BranchesReadable
  <2> QED
    BY <1>19, <2>1, <2>3 DEF SwitchHead, objects, writer, vars, Move, Ends, ReadableInv, BlobsInv, Running
<1>20. CASE LoseScratch
  <2>1. UNCHANGED <<refs, commits, live>> /\ disk \subseteq disk'
    BY <1>20 DEF LoseScratch, objects, writer, vars
  <2>2. \A i \in live : Blobs(TreeAt(i))' = Blobs(TreeAt(i))
    BY <2>1 DEF Blobs, Files, Repo!Files, TreeAt, Repo!TreeAt
  <2>3. BranchesReadable'
    BY <2>1, <2>2 DEF BranchesReadable
  <2> QED
    BY <1>20, <2>1, <2>3 DEF LoseScratch, objects, writer, vars, Move, Ends, ReadableInv, BlobsInv, Running
<1>21. CASE Crash
  <2>1. UNCHANGED <<refs, commits, live>> /\ disk \subseteq disk'
    BY <1>21 DEF Crash, objects, writer, vars
  <2>2. \A i \in live : Blobs(TreeAt(i))' = Blobs(TreeAt(i))
    BY <2>1 DEF Blobs, Files, Repo!Files, TreeAt, Repo!TreeAt
  <2>3. BranchesReadable'
    BY <2>1, <2>2 DEF BranchesReadable
  <2> QED
    BY <1>21, <2>1, <2>3 DEF Crash, objects, writer, vars, Move, Ends, ReadableInv, BlobsInv, Running
<1>22. CASE UNCHANGED vars
  <2>1. UNCHANGED <<refs, commits, live>> /\ disk \subseteq disk'
    BY <1>22 DEF objects, writer, vars
  <2>2. \A i \in live : Blobs(TreeAt(i))' = Blobs(TreeAt(i))
    BY <2>1 DEF Blobs, Files, Repo!Files, TreeAt, Repo!TreeAt
  <2>3. BranchesReadable'
    BY <2>1, <2>2 DEF BranchesReadable
  <2> QED
    BY <1>22, <2>1, <2>3 DEF objects, writer, vars, Move, Ends, ReadableInv, BlobsInv, Running
<1> QED
  BY <1>1, <1>2, <1>3, <1>4, <1>5, <1>6, <1>7, <1>8, <1>9, <1>10, <1>11, <1>12, <1>13, <1>14, <1>15, <1>16, <1>17, <1>18, <1>19, <1>20, <1>21, <1>22
  DEF Next, Sync, Downloads
-----------------------------------------------------------------------------
(* An undisturbed sync *)

\* The blobs of a staged index are on disk when the tree is written.
LEMMA StagedOnDisk ==
  ASSUME TypeOK, WriterInv, BranchesReadable, BlobsInv, step = "staged"
  PROVE  Blobs(index) \subseteq disk
<1>1. index = Partial(TreeAt(base), scratch, staged) /\ buffered = {} /\ staged \subseteq Paths
  BY DEF WriterInv, TypeOK
<1>2. \A p \in staged : scratch.files[p] \in disk
  BY <1>1 DEF BlobsInv
<1>3. Blobs(TreeAt(base)) \subseteq disk
  <2>1. CASE base = 0
    BY <2>1 DEF TreeAt, Repo!TreeAt, Repo!NoFiles, Blobs, Files, Repo!Files
  <2>2. CASE base # 0
    BY <2>2 DEF BlobsInv, Running, BranchesReadable
  <2> QED
    BY <2>1, <2>2
<1>4. ASSUME NEW p \in Paths, index[p] # None PROVE index[p] \in disk
  <2>1. CASE p \in staged
    BY <1>1, <1>2, <2>1 DEF Partial
  <2>2. CASE p \notin staged
    <3>1. index[p] = TreeAt(base)[p]
      BY <1>1, <1>4, <2>2 DEF Partial
    <3> QED
      BY <1>3, <1>4, <3>1 DEF Blobs, Files, Repo!Files
  <2> QED
    BY <2>1, <2>2
<1> QED
  BY <1>4 DEF Blobs, Files, Repo!Files

LEMMA CalmStep ==
  ASSUME TypeOK, WriterInv, BranchesReadable, BlobsInv, CalmInv, [Next]_vars
  PROVE  CalmInv'
<1>1. CASE Maintain
  BY <1>1 DEF Maintain, objects, writer, Move, Ends, CalmInv, Running, UndisturbedPublishes, Moved
<1>2. CASE PrepareFails
  BY <1>2 DEF PrepareFails, objects, writer, Move, Ends, CalmInv, Running, UndisturbedPublishes, Moved
<1>3. CASE Prepare
  <2>1. head' \in Branches
    BY <1>3 DEF Prepare, Resolved, Exist, Repo!Exist
  <2>2. index' # None
    <3>1. refs[head'] \in 0 .. Len(commits) /\ index' \in Repo!Tree
      BY <1>3, <2>1, TreeTypes DEF Prepare, TypeOK
    <3> QED
      BY <3>1, NoTree
  <2> QED
    BY <1>3, <2>1, <2>2 DEF Prepare, CalmInv, UndisturbedPublishes, TypeOK
<1>4. CASE FetchContext
  BY <1>4 DEF FetchContext, objects, writer, Move, Ends, CalmInv, Running, UndisturbedPublishes, Moved
<1>5. CASE Fetch
  BY <1>5 DEF Fetch, objects, writer, Move, Ends, CalmInv, Running, UndisturbedPublishes, Moved
<1>6. CASE WalkEnds
  BY <1>6 DEF WalkEnds, objects, writer, Move, Ends, CalmInv, Running, UndisturbedPublishes, Moved
<1>7. CASE BeginStaging
  <2>1. index' # None
    <3>1. index' \in Repo!Tree
      BY <1>7 DEF BeginStaging, Repo!Tree, TypeOK
    <3> QED
      BY <3>1, NoTree
  <2> QED
    BY <1>7, <2>1 DEF BeginStaging, CalmInv, Running, UndisturbedPublishes
<1>8. CASE StagingFails
  BY <1>8 DEF StagingFails, objects, writer, Move, Ends, CalmInv, Running, UndisturbedPublishes, Moved
<1>9. ASSUME NEW p \in Paths, Stage(p) PROVE CalmInv'
  <2>1. index' # None
    <3>1. index \in Repo!Tree /\ scratch.files[p] \in Contents
      BY <1>9, PartialType, TreeTypes DEF Stage, WriterInv, TypeOK, Collected, Files, Repo!Files,
         Repo!Got, Repo!Tree
    <3>2. index' \in Repo!Tree
      BY <1>9, <3>1 DEF Stage, Repo!Tree
    <3> QED
      BY <3>2, NoTree
  <2> QED
    BY <1>9, <2>1 DEF Stage, CalmInv, Running, UndisturbedPublishes
<1>10. CASE BeginFlush
  BY <1>10 DEF BeginFlush, objects, writer, Move, Ends, CalmInv, Running, UndisturbedPublishes, Moved
<1>11. CASE EndFlush
  BY <1>11 DEF EndFlush, objects, writer, Move, Ends, CalmInv, Running, UndisturbedPublishes, Moved
<1>12. CASE EndStaging
  BY <1>12 DEF EndStaging, objects, writer, Move, Ends, CalmInv, Running, UndisturbedPublishes, Moved
<1>13. CASE WriteTree
  <2>1. Blobs(index) \subseteq disk
    BY <1>13, StagedOnDisk DEF WriteTree
  <2> QED
    BY <1>13, <2>1 DEF WriteTree, Ends, objects, CalmInv, Running, UndisturbedPublishes
<1>14. CASE Publish
  BY <1>14 DEF Publish, Move, Ends, writer, CalmInv, Running, UndisturbedPublishes, TypeOK, Moved
<1>15. CASE PublishFails
  BY <1>15 DEF PublishFails, objects, writer, Move, Ends, CalmInv, Running, UndisturbedPublishes, Moved
<1>16. CASE Cleanup
  BY <1>16 DEF Cleanup, objects, writer, Move, Ends, CalmInv, Running, UndisturbedPublishes, Moved
<1>17. CASE Push
  BY <1>17 DEF Push, Move, Ends, writer, CalmInv, Running, UndisturbedPublishes, TypeOK, Moved
<1>18. CASE Reset
  BY <1>18 DEF Reset, Move, Ends, writer, CalmInv, Running, UndisturbedPublishes, TypeOK, Moved
<1>19. CASE SwitchHead
  BY <1>19 DEF SwitchHead, Move, Ends, writer, CalmInv, Running, UndisturbedPublishes, TypeOK, Moved
<1>20. CASE LoseScratch
  BY <1>20 DEF LoseScratch, Move, Ends, writer, CalmInv, Running, UndisturbedPublishes, TypeOK, Moved
<1>21. CASE Crash
  BY <1>21 DEF Crash, Move, Ends, writer, CalmInv, Running, UndisturbedPublishes, TypeOK, Moved
<1>22. CASE UNCHANGED vars
  BY <1>22 DEF vars, objects, writer, CalmInv, Running, UndisturbedPublishes, Moved
<1> QED
  BY <1>1, <1>2, <1>3, <1>4, <1>5, <1>6, <1>7, <1>8, <1>9, <1>10, <1>11, <1>12, <1>13, <1>14, <1>15, <1>16, <1>17, <1>18, <1>19, <1>20, <1>21, <1>22
  DEF Next, Sync, Downloads

-----------------------------------------------------------------------------
LEMMA InitIInv == Init => IInv
<1> SUFFICES ASSUME Init PROVE IInv
  OBVIOUS
<1> USE DEF Init, Repo!Init
<1>1. /\ commits \in Seq(Repo!Commit)
      /\ \A i \in DOMAIN commits : \A n \in DOMAIN commits[i].parents :
           commits[i].parents[n] \in 1 .. i - 1
  BY HistoriesAssumption
<1>2. scratch = Nothing
  BY DEF Nothing
<1>3. refs \in [Branches -> 0 .. Len(commits)] /\ Len(commits) \in Nat
  BY <1>1
<1>4. \A i \in DOMAIN commits : Blobs(commits[i].tree) \in SUBSET Contents
  <2>1. \A i \in DOMAIN commits : commits[i] \in Repo!Commit
    BY <1>1
  <2>2. \A i \in DOMAIN commits : commits[i].tree \in Repo!Tree
    BY <2>1 DEF Repo!Commit
  <2> QED
    BY <2>2, BlobsType
<1>5. TypeOK
  BY <1>1, <1>2, <1>3, <1>4, NothingTypes DEF TypeOK, Steps, Outcomes
<1>6. Separate
  BY <1>2, NothingTypes DEF Separate, Collected
<1>7. WriterInv /\ BlobsInv /\ PacksInv /\ CalmInv
  BY DEF WriterInv, BlobsInv, PacksInv, CalmInv, Running, UndisturbedPublishes
<1>8. BranchesReadable
  <2>1. \A b \in Branches : refs[b] # 0 => refs[b] \in live
    BY <1>3
  <2>2. \A i \in live : \A n \in DOMAIN commits[i].parents : commits[i].parents[n] \in live
    BY <1>1, <1>3
  <2>3. \A i \in live : TreeAt(i) = commits[i].tree
    BY <1>3 DEF TreeAt, Repo!TreeAt
  <2> QED
    BY <2>1, <2>2, <2>3 DEF BranchesReadable
<1> QED
  BY <1>5, <1>6, <1>7, <1>8 DEF IInv

LEMMA NextIInv == IInv /\ [Next]_vars => IInv'
BY TypeStep, SeparateStep, WriterStep, ReadableStep, PacksStep, CalmStep DEF IInv, ReadableInv

\* The inductive invariant: the index is the base commit overlaid by the files
\* staged so far, and all it refers to is kept and on its way to the disk.
THEOREM Invariance == Spec => []IInv
BY InitIInv, NextIInv, PTL DEF Spec

\* The types of all variables.
THEOREM TypeCorrect == Spec => []TypeOK
<1>1. IInv => TypeOK
  BY DEF IInv
<1> QED
  BY <1>1, Invariance, PTL

\* Whatever is pushed, pruned and interrupted, what the branches reach is there.
THEOREM AlwaysReadable == Spec => []BranchesReadable
<1>1. IInv => BranchesReadable
  BY DEF IInv
<1> QED
  BY <1>1, Invariance, PTL

\* No left-over of an earlier sync keeps an undisturbed one from publishing.
THEOREM UndisturbedNeverRefused == Spec => []UndisturbedPublishes
<1>1. IInv => UndisturbedPublishes
  BY DEF IInv, CalmInv
<1> QED
  BY <1>1, Invariance, PTL

\* Crashes in the middle of a flush leave at most one temporary pack.
THEOREM PacksBounded == Spec => []OneTemporaryPack
<1>1. IInv => OneTemporaryPack
  BY DEF IInv, PacksInv, OneTemporaryPack
<1> QED
  BY <1>1, Invariance, PTL

-----------------------------------------------------------------------------
(* The refinement *)

\* What has been staged completely is what Repository publishes.
LEMMA PartialIsOverlay ==
  ASSUME NEW t \in Repo!Tree, scratch \in Repo!Got
  PROVE  Partial(t, scratch, Collected) = Repo!Overlay(t, scratch)
<1>1. ASSUME NEW p \in Paths
      PROVE  Partial(t, scratch, Collected)[p] = Repo!Overlay(t, scratch)[p]
  <2>1. p \in Collected <=> scratch.files[p] # None
    BY DEF Collected, Files, Repo!Files
  <2>2. CASE scratch.files[p] # None
    BY <2>1, <2>2 DEF Partial, Repo!Overlay
  <2>3. CASE scratch.files[p] = None
    BY <2>1, <2>3 DEF Partial, Repo!Overlay, Repo!Replaced, Collected, Files
  <2> QED
    BY <2>2, <2>3
<1> QED
  BY <1>1 DEF Partial, Repo!Overlay

LEMMA PublishIsAtomic ==
  ASSUME IInv, Publish
  PROVE  Repo!Publish(branch)
<1> USE DEF IInv
<1>1. /\ step = "publish" /\ refs[branch] = base
      /\ commits' = Append(commits, NewCommit)
      /\ refs' = [refs EXCEPT ![branch] = Len(commits')]
      /\ UNCHANGED <<head, scratch>>
  BY DEF Publish, Moved
<1>2. index = Partial(TreeAt(base), scratch, Collected) /\ (base = 0 \/ index # TreeAt(base))
  BY <1>1 DEF WriterInv
<1>3. TreeAt(base) \in Repo!Tree /\ scratch \in Repo!Got
  BY TreeTypes DEF TypeOK
<1>4. index = Repo!Overlay(Repo!TreeAt(refs[branch]), scratch)
  BY <1>1, <1>2, <1>3, PartialIsOverlay DEF TreeAt
<1>5. Len(commits') = Len(commits) + 1
  <2>1. index \in Repo!Tree
    BY <1>2, <1>3, PartialType
  <2> QED
    BY <1>1, <2>1, NewCommitType, TreesKept DEF TypeOK
<1>6. refs[branch] = 0 \/ index # Repo!TreeAt(refs[branch])
  BY <1>1, <1>2 DEF TreeAt
<1> QED
  BY <1>1, <1>4, <1>5, <1>6 DEF Repo!Publish, NewCommit

LEMMA OthersArePushes ==
  ASSUME TypeOK, Push
  PROVE  Repo!Others
<1>0. PICK b \in Branches, t \in Pushes, merged \in {0} \cup live :
        /\ \E parents \in {<<>>, Repo!Parents(refs[b]) \o Repo!Parents(merged)} :
             commits' = Append(commits, [tree |-> t, parents |-> parents, by |-> "other"])
        /\ refs' = [refs EXCEPT ![b] = Len(commits')]
  BY DEF Push
<1>1. PICK parents \in {<<>>, Repo!Parents(refs[b]) \o Repo!Parents(merged)} :
        commits' = Append(commits, [tree |-> t, parents |-> parents, by |-> "other"])
  BY <1>0
<1> DEFINE c == [tree |-> t, parents |-> parents, by |-> "other"]
<1>2. c \in Repo!Commit /\ c.by = "other"
  BY <1>1, PushedType
<1>3. /\ Len(commits') = Len(commits) + 1
      /\ SubSeq(commits', 1, Len(commits)) = commits
      /\ commits'[Len(commits')] = c
  BY <1>1, <1>2, Appended, TreesKept DEF TypeOK
<1>4. Len(commits') \in 0 .. Len(commits')
  BY <1>3 DEF TypeOK
<1>5. head' \in Branches \cup {Detached} /\ scratch' = scratch
  BY DEF Push, writer, TypeOK
<1>6. \E a \in Branches, i \in 0 .. Len(commits') : refs' = [refs EXCEPT ![a] = i]
  BY <1>0, <1>4
<1> QED
  BY <1>2, <1>3, <1>5, <1>6 DEF Repo!Others

LEMMA StepSimulated ==
  ASSUME IInv, IInv', [Next]_vars
  PROVE  [Repo!Next]_(Repo!vars)
<1> USE DEF IInv
<1> DEFINE Stutter == UNCHANGED <<head, refs, commits, scratch>>
<1>1. CASE Prepare
  <2>1. head' = head \/ (head \in Branches \ Exist /\ head' \in Exist)
    BY <1>1 DEF Prepare, Resolved
  <2>2. Repo!Begin
    BY <1>1, <2>1 DEF Prepare, Repo!Begin, Nothing, Exist
  <2> QED
    BY <2>2 DEF Repo!Next
<1>2. CASE FetchContext \/ Fetch
  <2>1. scratch' \in Repo!Got
    BY DEF TypeOK
  <2>2. Repo!Fetch
    BY <1>2, <2>1 DEF FetchContext, Fetch, Repo!Fetch
  <2> QED
    BY <2>2 DEF Repo!Next
<1>3. CASE Publish
  <2>1. branch \in Branches
    BY <1>3 DEF Publish, WriterInv, Running
  <2> QED
    BY <1>3, <2>1, PublishIsAtomic DEF Repo!Next
<1>4. CASE Cleanup \/ LoseScratch
  <2>1. Repo!Begin
    BY <1>4 DEF Cleanup, LoseScratch, Repo!Begin, Nothing
  <2> QED
    BY <2>1 DEF Repo!Next
<1>5. CASE Push
  BY <1>5, OthersArePushes DEF Repo!Next
<1>6. CASE Reset
  <2>1. PICK b \in Branches, i \in {0} \cup live : refs' = [refs EXCEPT ![b] = i]
    BY <1>6 DEF Reset
  <2>2. i \in 0 .. Len(commits')
    BY <1>6, <2>1 DEF Reset, TypeOK
  <2>3. \E a \in Branches, n \in 0 .. Len(commits') : refs' = [refs EXCEPT ![a] = n]
    BY <2>1, <2>2
  <2>4. head' \in Branches \cup {Detached} /\ scratch' = scratch /\ commits' = commits
    BY <1>6 DEF Reset, writer, TypeOK
  <2>5. Repo!Others
    BY <2>3, <2>4 DEF Repo!Others
  <2> QED
    BY <2>5 DEF Repo!Next
<1>7. CASE SwitchHead
  <2>1. head' \in Branches \cup {Detached} /\ UNCHANGED <<refs, commits, scratch>>
    BY <1>7 DEF SwitchHead, writer
  <2>5. Repo!Others
    BY <2>1 DEF Repo!Others
  <2> QED
    BY <2>5 DEF Repo!Next
<1>8. CASE Maintain \/ PrepareFails \/ WalkEnds \/ BeginStaging \/ StagingFails
  <2>1. Stutter
    BY <1>8 DEF Maintain, PrepareFails, WalkEnds, BeginStaging, StagingFails, objects
  <2> QED
    BY <2>1 DEF Repo!vars
<1>9. ASSUME NEW p \in Paths, Stage(p) PROVE [Repo!Next]_(Repo!vars)
  <2>1. Stutter
    BY <1>9 DEF Stage, objects
  <2> QED
    BY <2>1 DEF Repo!vars
<1>10. CASE BeginFlush \/ EndFlush \/ EndStaging \/ WriteTree \/ PublishFails \/ Crash
  <2>1. Stutter
    BY <1>10 DEF BeginFlush, EndFlush, EndStaging, WriteTree, PublishFails, Crash, objects
  <2> QED
    BY <2>1 DEF Repo!vars
<1>11. CASE UNCHANGED vars
  <2>1. Stutter
    BY <1>11 DEF vars, writer
  <2> QED
    BY <2>1 DEF Repo!vars
<1> QED
  BY <1>1, <1>2, <1>3, <1>4, <1>5, <1>6, <1>7, <1>8, <1>9, <1>10, <1>11
  DEF Next, Sync, Downloads

\* A sync implements the atomic publication Repository promises: its base, its
\* index and its batches are invisible, and no push is ever overwritten.
THEOREM Implements == Spec => Atomic
<1>1. Init => Repo!Init
  BY DEF Init
<1>2. IInv /\ IInv' /\ [Next]_vars => [Repo!Next]_(Repo!vars)
  BY StepSimulated
<1> QED
  BY <1>1, <1>2, Invariance, PTL DEF Spec, Atomic, Repo!Spec

-----------------------------------------------------------------------------
(* Induction and recursion *)

LEMMA UpTo ==
  ASSUME NEW N \in Nat, NEW T, \A n \in 0 .. N : 0 .. n - 1 \subseteq T => n \in T
  PROVE  0 .. N \subseteq T
<1> DEFINE rest == 0 .. N \ T
           R == {ss \in Nat \X Nat : ss[1] < ss[2]}
<1> SUFFICES ASSUME rest # {} PROVE FALSE
  OBVIOUS
<1>1. IsWellFoundedOn(R, Nat)
  BY NatLessThanWellFounded DEF OpToRel
<1>2. rest \subseteq Nat
  OBVIOUS
<1> HIDE DEF R
<1>3. PICK m \in rest : \A k \in rest : <<k, m>> \notin R
  BY <1>1, <1>2, WFMin
<1>4. \A k \in rest : ~(k < m)
  BY <1>2, <1>3 DEF R
<1>5. 0 .. m - 1 \subseteq T
  BY <1>3, <1>4
<1> QED
  BY <1>3, <1>5

\* A function whose value at i is given, or depends on that at an earlier place.
Recursive(N, S, Base, b, pred, G) ==
  /\ N \in Nat /\ b \in [0 .. N -> S]
  /\ \A i \in 0 .. N : i \notin Base => pred[i] \in 0 .. i - 1
  /\ \A i \in 0 .. N : \A s \in S : i \notin Base => G[<<i, s>>] \in S

LEMMA Recursion ==
  ASSUME NEW N, NEW S, NEW Base, NEW b, NEW pred, NEW G, Recursive(N, S, Base, b, pred, G)
  PROVE  \E f \in [0 .. N -> S] :
           \A i \in 0 .. N : f[i] = IF i \in Base THEN b[i] ELSE G[<<i, f[pred[i]]>>]
<1> USE DEF Recursive
<1> DEFINE Is(f, i) == f[i] = IF i \in Base THEN b[i] ELSE G[<<i, f[pred[i]]>>]
           T == {n \in Nat : \E f \in [0 .. n -> S] : \A i \in 0 .. n : Is(f, i)}
<1>1. ASSUME NEW n \in 0 .. N, 0 .. n - 1 \subseteq T PROVE n \in T
  <2>1. PICK f : /\ f \in [0 .. n - 1 -> S]
                 /\ \A i \in 0 .. n - 1 : Is(f, i)
    <3>1. CASE n = 0
      <4>1. [i \in 0 .. n - 1 |-> b[0]] \in [0 .. n - 1 -> S]
        BY <3>1
      <4>2. \A i : i \notin 0 .. n - 1
        BY <3>1
      <4> QED
        BY <4>1, <4>2
    <3>2. CASE n # 0
      <4>1. n - 1 \in 0 .. n - 1
        BY <3>2
      <4>2. n - 1 \in T
        BY <1>1, <4>1
      <4> QED
        BY <4>2
    <3> QED
      BY <3>1, <3>2
  <2>2. PICK v \in S : v = IF n \in Base THEN b[n] ELSE G[<<n, f[pred[n]]>>]
    <3>1. CASE n \in Base
      BY <3>1
    <3>2. CASE n \notin Base
      <4>1. pred[n] \in 0 .. n - 1
        BY <3>2
      <4>2. f[pred[n]] \in S
        BY <2>1, <4>1
      <4> QED
        BY <3>2, <4>2
    <3> QED
      BY <3>1, <3>2
  <2>3. PICK g : g = [i \in 0 .. n |-> IF i = n THEN v ELSE f[i]]
    OBVIOUS
  <2>4. g \in [0 .. n -> S] /\ g[n] = v /\ \A i \in 0 .. n - 1 : g[i] = f[i]
    <3>1. \A i \in 0 .. n : i # n => i \in 0 .. n - 1
      OBVIOUS
    <3> QED
      BY <2>1, <2>3, <3>1
  <2>5. ASSUME NEW i \in 0 .. n PROVE Is(g, i)
    <3>1. i \notin Base => pred[i] \in 0 .. n - 1 /\ pred[i] \in 0 .. i - 1
      OBVIOUS
    <3>2. CASE i = n
      BY <2>2, <2>4, <3>1, <3>2
    <3>3. CASE i # n
      <4>1. i \in 0 .. n - 1 /\ Is(f, i)
        BY <2>1, <3>3
      <4> QED
        BY <2>4, <3>1, <4>1
    <3> QED
      BY <3>2, <3>3
  <2> QED
    BY <2>4, <2>5
<1>2. 0 .. N \subseteq T
  <2> HIDE DEF T
  <2> QED
    BY <1>1, UpTo
<1>3. N \in 0 .. N
  OBVIOUS
<1>4. N \in T
  <2> HIDE DEF T
  <2> QED
    BY <1>2, <1>3
<1>5. PICK f \in [0 .. N -> S] : \A i \in 0 .. N : Is(f, i)
  <2> HIDE DEF Is
  <2> QED
    BY <1>4
<1> QED
  BY <1>5, Zenon

LEMMA LongestOf ==
  ASSUME NEW S, IsFiniteSet(S), S \subseteq Nat
  PROVE  \E b \in Nat : \A x \in S : x <= b
<1>0. CASE S = {}
  <2>1. 0 \in Nat /\ \A x \in S : x <= 0
    BY <1>0
  <2> QED
    BY <2>1
<1> SUFFICES ASSUME S # {} PROVE \E b \in S : \A x \in S : x <= b
  BY <1>0
<1> DEFINE above(p) == {q \in S : q > p}
<1>1. \A p \in S : IsFiniteSet(above(p)) /\ Cardinality(above(p)) \in Nat
  BY FS_Subset, FS_CardinalityType
<1>2. PICK x \in S : \A y \in S : Cardinality(above(x)) <= Cardinality(above(y))
  <2> DEFINE sizes == {Cardinality(above(p)) : p \in S}
             R == {ss \in Nat \X Nat : ss[1] < ss[2]}
  <2>1. sizes \subseteq Nat /\ sizes # {}
    BY <1>1
  <2>2. IsWellFoundedOn(R, Nat)
    BY NatLessThanWellFounded DEF OpToRel
  <2> HIDE DEF R, sizes
  <2>3. PICK c \in sizes : \A d \in sizes : <<d, c>> \notin R
    BY <2>1, <2>2, WFMin
  <2>4. ASSUME NEW d \in sizes PROVE c <= d
    <3>1. c \in Nat /\ d \in Nat
      BY <2>1
    <3>2. ~(d < c)
      BY <2>3, <3>1 DEF R
    <3> QED
      BY <3>1, <3>2
  <2> QED
    BY <2>4 DEF sizes
<1>3. ASSUME NEW y \in S, y > x PROVE FALSE
  <2>1. above(y) \in SUBSET above(x) /\ y \in above(x) /\ y \notin above(y)
    <3>1. x \in Nat /\ y \in Nat /\ \A q \in S : q \in Nat
      OBVIOUS
    <3>2. \A q \in S : q > y => q > x
      BY <1>3, <3>1
    <3>3. ~(y > y)
      BY <3>1
    <3> QED
      BY <1>3, <3>2, <3>3
  <2>2. Cardinality(above(y)) <= Cardinality(above(x)) /\ Cardinality(above(y)) # Cardinality(above(x))
    BY <1>1, <2>1, FS_Subset
  <2>3. Cardinality(above(x)) <= Cardinality(above(y))
    BY <1>2
  <2>4. Cardinality(above(x)) \in Nat /\ Cardinality(above(y)) \in Nat
    BY <1>1
  <2> HIDE DEF above
  <2> QED
    BY <2>2, <2>3, <2>4
<1>4. \A y \in S : y <= x
  BY <1>3
<1> QED
  BY <1>4

-----------------------------------------------------------------------------
(* Comparing two trees *)

\* The directory d is above the path p, said name by name.
Above(d, p) == Len(d) < Len(p) /\ \A i \in 1 .. Len(d) : d[i] = p[i]

LEMMA PathTypes ==
  /\ \A p \in Paths : p \in Seq(Names) /\ Len(p) \in Nat \ {0}
  /\ \E b \in Nat : \A p \in Paths : Len(p) <= b
<1>1. \A p \in Paths : p \in Seq(Names) /\ p # <<>>
  BY TreesAssumption
<1>2. \A p \in Paths : Len(p) \in Nat \ {0}
  BY <1>1, EmptySeq, LenProperties
<1>3. PICK lengths : lengths = {Len(p) : p \in Paths}
  OBVIOUS
<1>4. IsFiniteSet(lengths) /\ lengths \subseteq Nat
  <2>1. PICK f : f = [p \in Paths |-> Len(p)]
    OBVIOUS
  <2>2. f \in Surjection(Paths, lengths)
    BY <1>3, <2>1 DEF Surjection
  <2>3. IsFiniteSet(Paths)
    BY TreesAssumption
  <2>4. IsFiniteSet(lengths)
    BY <2>2, <2>3, FS_Surjection
  <2> QED
    BY <1>2, <1>3, <2>4
<1>5. PICK b \in Nat : \A x \in lengths : x <= b
  BY <1>4, LongestOf
<1> QED
  BY <1>1, <1>2, <1>3, <1>5

LEMMA PrefixIs ==
  ASSUME NEW S, NEW d \in Seq(S), NEW p \in Seq(S)
  PROVE  IsStrictPrefix(d, p) <=> Above(d, p)
<1>1. Len(d) \in Nat /\ Len(p) \in Nat /\ \A i \in 1 .. Len(d) : d[i] \in S
  BY LenProperties, ElementOfSeq
<1>2. SubSeq(d, 1, Len(d)) = d
  OBVIOUS
<1>3. CASE Len(d) <= Len(p)
  <2>1. PICK s : s = SubSeq(p, 1, Len(d))
    OBVIOUS
  <2>2. s \in Seq(S) /\ Len(s) = Len(d) /\ \A i \in 1 .. Len(d) : s[i] = p[i]
    BY <1>1, <1>3, <2>1
  <2>3. s = d <=> \A i \in 1 .. Len(d) : d[i] = p[i]
    BY <2>2, SeqEqual
  <2>4. d = p <=> Len(d) = Len(p) /\ \A i \in 1 .. Len(d) : d[i] = p[i]
    BY SeqEqual
  <2> QED
    BY <1>1, <1>2, <1>3, <2>1, <2>3, <2>4 DEF IsStrictPrefix, IsPrefix, Above
<1>4. CASE ~(Len(d) <= Len(p))
  BY <1>1, <1>4 DEF IsStrictPrefix, IsPrefix, Above
<1> QED
  BY <1>3, <1>4

LEMMA DirectoriesAre ==
  /\ Directories \subseteq Seq(Names)
  /\ \A d \in Seq(Names), p \in Paths : Above(d, p) => d \in Directories
  /\ \A d \in Directories : \E p \in Paths : Len(d) < Len(p)
<1>1. ASSUME NEW p \in Paths, NEW n \in 0 .. Len(p) - 1
      PROVE  SubSeq(p, 1, n) \in Seq(Names) /\ Len(SubSeq(p, 1, n)) = n /\ n < Len(p)
  <2>1. p \in Seq(Names) /\ Len(p) \in Nat
    BY PathTypes
  <2> QED
    BY <2>1
<1>2. ASSUME NEW d \in Seq(Names), NEW p \in Paths, Above(d, p) PROVE d \in Directories
  <2>1. IsStrictPrefix(d, p)
    BY <1>2, PrefixIs, PathTypes
  <2>2. d = SubSeq(p, 1, Len(d)) /\ Len(d) \in 0 .. Len(p) - 1
    <3>1. SubSeq(d, 1, Len(d)) = d /\ Len(d) \in Nat /\ Len(p) \in Nat
      BY PathTypes
    <3> QED
      BY <1>2, <2>1, <3>1 DEF IsStrictPrefix, IsPrefix, Above
  <2>3. PICK n \in 0 .. Len(p) - 1 : d = SubSeq(p, 1, n)
    BY <2>2
  <2>4. d \in {SubSeq(p, 1, m) : m \in 0 .. Len(p) - 1}
    BY <2>3
  <2> QED
    BY <2>4 DEF Directories
<1> QED
  <2>1. \A d \in Directories : \E p \in Paths : \E n \in 0 .. Len(p) - 1 : d = SubSeq(p, 1, n)
    BY DEF Directories
  <2> QED
    BY <1>1, <1>2, <2>1

LEMMA TopDirectory == <<>> \in Directories /\ Below(<<>>) = Paths
<1>1. \A p \in Paths : Above(<<>>, p)
  <2>1. Len(<<>>) = 0 /\ 1 .. 0 = {}
    OBVIOUS
  <2>2. ASSUME NEW p \in Paths PROVE 0 < Len(p)
    <3>1. PICK n \in Nat \ {0} : n = Len(p)
      BY PathTypes
    <3> QED
      BY <3>1
  <2> QED
    BY <2>1, <2>2 DEF Above
<1>2. <<>> \in Seq(Names)
  OBVIOUS
<1>3. \A p \in Paths : IsStrictPrefix(<<>>, p)
  BY <1>1, <1>2, PrefixIs, PathTypes
<1> QED
  BY <1>1, <1>2, <1>3, DirectoriesAre, TreesAssumption DEF Below

LEMMA BelowIs ==
  ASSUME NEW d \in Seq(Names)
  PROVE  Below(d) = {p \in Paths : Above(d, p)}
BY PrefixIs, PathTypes DEF Below

\* One name further down.
LEMMA OneDown ==
  ASSUME NEW d \in Seq(Names), NEW n \in Names, NEW p \in Paths
  PROVE  /\ Append(d, n) \in Seq(Names) /\ Len(Append(d, n)) = Len(d) + 1
         /\ Above(Append(d, n), p) => Above(d, p) /\ p[Len(d) + 1] = n
         /\ Above(d, p) /\ p[Len(d) + 1] = n => Append(d, n) = p \/ Above(Append(d, n), p)
<1>1. p \in Seq(Names) /\ Len(p) \in Nat /\ Len(d) \in Nat
  BY PathTypes
<1>2. PICK e : e = Append(d, n)
  OBVIOUS
<1>3. /\ e \in Seq(Names) /\ Len(e) = Len(d) + 1
      /\ e[Len(d) + 1] = n /\ \A i \in 1 .. Len(d) : e[i] = d[i]
  BY <1>1, <1>2
<1>4. ASSUME Above(e, p) PROVE Above(d, p) /\ p[Len(d) + 1] = n
  <2>1. Len(d) + 1 \in 1 .. Len(e) /\ \A i \in 1 .. Len(d) : i \in 1 .. Len(e)
    BY <1>1, <1>3
  <2> QED
    BY <1>1, <1>3, <1>4, <2>1 DEF Above
<1>5. ASSUME Above(d, p), p[Len(d) + 1] = n PROVE e = p \/ Above(e, p)
  <2>1. \A i \in 1 .. Len(e) : i \in 1 .. Len(d) \/ i = Len(d) + 1
    BY <1>1, <1>3
  <2>2. \A i \in 1 .. Len(e) : e[i] = p[i]
    BY <1>3, <1>5, <2>1 DEF Above
  <2>3. CASE Len(e) = Len(p)
    BY <1>1, <1>3, <2>2, <2>3, SeqEqual
  <2>4. CASE Len(e) # Len(p)
    BY <1>1, <1>3, <1>5, <2>2, <2>4 DEF Above
  <2> QED
    BY <2>3, <2>4
<1> QED
  BY <1>2, <1>3, <1>4, <1>5

-----------------------------------------------------------------------------
\* One level of the recursion of Compare, f being the levels below it.
MixedAt(old, new, d) ==
  \/ \E n \in Entries(old, d) : ~IsTree(old, d, n)
  \/ \E n \in Entries(new, d) : ~IsTree(new, d, n)

Level(old, new, f) ==
  [d \in Directories |->
     IF Object(old, d) = Object(new, d) THEN {}
     ELSE IF MixedAt(old, new, d) THEN NativeDiff(old, new, d)
     ELSE UNION {f[Append(d, n)] : n \in Entries(old, d) \cup Entries(new, d)}]

LEMMA CompareIs ==
  ASSUME NEW old, NEW new
  PROVE  Compare(old, new) = (CHOOSE f : f = Level(old, new, f))[<<>>]
BY DEF Compare, Level, MixedAt

\* Equal objects hide no difference.
LEMMA SameObject ==
  ASSUME NEW old, NEW new, NEW d, Object(old, d) = Object(new, d)
  PROVE  NativeDiff(old, new, d) = {}
<1>1. \A p \in Below(d) : old[p] = new[p]
  <2>1. ASSUME NEW p \in Below(d) PROVE Object(old, d)[p] = old[p] /\ Object(new, d)[p] = new[p]
    BY DEF Object
  <2> QED
    BY <2>1
<1> QED
  BY <1>1 DEF NativeDiff

LEMMA EntriesAre ==
  ASSUME NEW t, NEW d \in Seq(Names)
  PROVE  /\ \A p \in Files(t) : p \in Paths => t[p] # None
         /\ \A p \in Paths : Above(d, p) /\ p \in Files(t) => p[Len(d) + 1] \in Entries(t, d)
         /\ Entries(t, d) \subseteq Names
         /\ \A n \in Entries(t, d) : IsTree(t, d, n) => Append(d, n) \in Directories
<1>1. \A p \in Paths : p \in Below(d) <=> Above(d, p)
  BY BelowIs
<1>2. \A p \in Below(d) : p \in Paths /\ Len(d) + 1 \in 1 .. Len(p) /\ p[Len(d) + 1] \in Names
  <2>1. ASSUME NEW p \in Below(d) PROVE p \in Paths /\ Above(d, p)
    BY <1>1 DEF Below
  <2>2. ASSUME NEW p \in Paths, Above(d, p) PROVE Len(d) + 1 \in 1 .. Len(p) /\ p[Len(d) + 1] \in Names
    <3>1. p \in Seq(Names) /\ Len(p) \in Nat /\ Len(d) \in Nat
      BY PathTypes
    <3>2. Len(d) + 1 \in 1 .. Len(p)
      BY <2>2, <3>1 DEF Above
    <3> QED
      BY <3>1, <3>2, ElementOfSeq
  <2> QED
    BY <2>1, <2>2
<1>3. Entries(t, d) \subseteq Names
  BY <1>2 DEF Entries
<1>4. ASSUME NEW n \in Entries(t, d), IsTree(t, d, n) PROVE Append(d, n) \in Directories
  <2>1. n \in Names
    BY <1>3
  <2>2. PICK p \in Below(Append(d, n)) : TRUE
    BY <1>4 DEF IsTree
  <2>3. Append(d, n) \in Seq(Names)
    BY <2>1
  <2>4. p \in Paths /\ Above(Append(d, n), p)
    BY <2>2, <2>3, BelowIs
  <2> QED
    BY <2>3, <2>4, DirectoriesAre
<1> QED
  BY <1>1, <1>3, <1>4 DEF Entries, Files, Repo!Files

\* A level without files has nothing but what is in its directories.
LEMMA LevelBelow ==
  ASSUME NEW old, NEW new, Apart(old), Apart(new), NEW d \in Directories, ~MixedAt(old, new, d)
  PROVE  NativeDiff(old, new, d) =
           UNION {NativeDiff(old, new, Append(d, n)) : n \in Entries(old, d) \cup Entries(new, d)}
<1> DEFINE names == Entries(old, d) \cup Entries(new, d)
           differ(p) == old[p] # new[p]
           delta(p) == [status |-> Status(old, new, p), path |-> p, id |-> new[p]]
<1>1. d \in Seq(Names) /\ names \subseteq Names
  BY DirectoriesAre, EntriesAre
<1>2. \A n \in names : Append(d, n) \in Seq(Names)
  BY <1>1
<1>3. \A p \in Paths : differ(p) => p \in Files(old) \/ p \in Files(new)
  BY DEF Files, Repo!Files
<1>4. ASSUME NEW p \in Below(d), differ(p)
      PROVE  \E n \in names : p \in Below(Append(d, n))
  <2>1. p \in Paths /\ Above(d, p)
    BY <1>1, BelowIs
  <2>2. PICK n : n = p[Len(d) + 1]
    OBVIOUS
  <2>3. PICK t \in {old, new} : p \in Files(t) /\ n \in Entries(t, d)
    BY <1>1, <1>3, <1>4, <2>1, <2>2, EntriesAre
  <2>4. n \in names /\ IsTree(t, d, n) /\ Apart(t)
    BY <2>3 DEF MixedAt
  <2>5. PICK q \in Below(Append(d, n)) : q \in Files(t)
    BY <2>4 DEF IsTree
  <2>6. q \in Paths /\ IsStrictPrefix(Append(d, n), q)
    BY <2>5 DEF Below
  <2>7. p # Append(d, n)
    BY <2>3, <2>4, <2>5, <2>6 DEF Apart
  <2>8. Above(Append(d, n), p)
    BY <1>1, <2>1, <2>2, <2>4, <2>7, OneDown
  <2>9. p \in Below(Append(d, n))
    BY <1>2, <2>1, <2>4, <2>8, BelowIs
  <2> QED
    BY <2>4, <2>9
<1>5. ASSUME NEW n \in names, NEW p \in Below(Append(d, n)) PROVE p \in Below(d)
  <2>1. n \in Names /\ Append(d, n) \in Seq(Names)
    BY <1>1, <1>2
  <2>2. p \in Paths /\ Above(Append(d, n), p)
    BY <2>1, BelowIs
  <2> QED
    BY <1>1, <2>1, <2>2, OneDown, BelowIs
<1>6. \A e : NativeDiff(old, new, e) = {delta(p) : p \in {q \in Below(e) : differ(q)}}
  BY DEF NativeDiff
<1> HIDE DEF names, differ, delta
<1>7. NativeDiff(old, new, d) = UNION {NativeDiff(old, new, Append(d, n)) : n \in names}
  <2>1. ASSUME NEW x \in NativeDiff(old, new, d)
        PROVE  \E n \in names : x \in NativeDiff(old, new, Append(d, n))
    <3>1. PICK p \in Below(d) : differ(p) /\ x = delta(p)
      BY <1>6
    <3>2. PICK n \in names : p \in Below(Append(d, n))
      BY <1>4, <3>1
    <3> QED
      BY <1>6, <3>1, <3>2
  <2>2. ASSUME NEW n \in names, NEW x \in NativeDiff(old, new, Append(d, n))
        PROVE  x \in NativeDiff(old, new, d)
    <3>1. PICK p \in Below(Append(d, n)) : differ(p) /\ x = delta(p)
      BY <1>6
    <3>2. p \in Below(d)
      BY <1>5
    <3> QED
      BY <1>6, <3>1, <3>2
  <2>3. ASSUME NEW x PROVE x \in NativeDiff(old, new, d) <=>
                             \E n \in names : x \in NativeDiff(old, new, Append(d, n))
    BY <2>1, <2>2
  <2> QED
    BY <2>3
<1> QED
  BY <1>7 DEF names

\* Skipping equal directories and descending into the others finds what a
\* comparison of all files finds.
LEMMA CompareFinds ==
  ASSUME NEW old, NEW new, Apart(old), Apart(new)
  PROVE  Compare(old, new) = NativeDiff(old, new, <<>>)
<1>1. PICK F : F = [d \in Directories |-> NativeDiff(old, new, d)]
  OBVIOUS
<1>2. \A d \in Directories : \A n \in Entries(old, d) \cup Entries(new, d) :
        ~MixedAt(old, new, d) => Append(d, n) \in Directories /\ Len(Append(d, n)) = Len(d) + 1
  <2> SUFFICES ASSUME NEW d \in Directories, NEW n \in Entries(old, d) \cup Entries(new, d),
                      ~MixedAt(old, new, d)
               PROVE  Append(d, n) \in Directories /\ Len(Append(d, n)) = Len(d) + 1
    OBVIOUS
  <2>1. d \in Seq(Names)
    BY DirectoriesAre
  <2>2. PICK t \in {old, new} : n \in Entries(t, d) /\ IsTree(t, d, n)
    BY DEF MixedAt
  <2>3. n \in Names /\ Append(d, n) \in Directories
    BY <2>1, <2>2, EntriesAre
  <2> QED
    BY <2>1, <2>3
<1>3. F = Level(old, new, F)
  <2>1. ASSUME NEW d \in Directories, ~MixedAt(old, new, d)
        PROVE  NativeDiff(old, new, d) = UNION {F[Append(d, n)] : n \in Entries(old, d) \cup Entries(new, d)}
    <3>1. NativeDiff(old, new, d) =
            UNION {NativeDiff(old, new, Append(d, n)) : n \in Entries(old, d) \cup Entries(new, d)}
      BY <2>1, LevelBelow
    <3>2. \A n \in Entries(old, d) \cup Entries(new, d) :
            F[Append(d, n)] = NativeDiff(old, new, Append(d, n))
      BY <1>1, <1>2, <2>1
    <3> QED
      BY <3>1, <3>2
  <2> QED
    BY <1>1, <2>1, SameObject DEF Level
<1>4. PICK f : f = (CHOOSE g : g = Level(old, new, g)) /\ f = Level(old, new, f)
  BY <1>3
<1>5. PICK b \in Nat : \A p \in Paths : Len(p) <= b
  BY PathTypes
<1>6. \A d \in Directories : Len(d) \in Nat /\ b - Len(d) \in 0 .. b
  <2>1. ASSUME NEW d \in Directories PROVE Len(d) \in Nat /\ b - Len(d) \in 0 .. b
    <3>1. d \in Seq(Names) /\ Len(d) \in Nat
      BY DirectoriesAre
    <3>2. PICK p \in Paths : Len(d) < Len(p)
      BY DirectoriesAre
    <3> QED
      BY <1>5, <3>1, <3>2, PathTypes
  <2> QED
    BY <2>1
<1> DEFINE T == {k \in Nat : \A d \in Directories : b - Len(d) = k => f[d] = NativeDiff(old, new, d)}
<1>7. ASSUME NEW k \in 0 .. b, 0 .. k - 1 \subseteq T PROVE k \in T
  <2> SUFFICES ASSUME NEW d \in Directories, b - Len(d) = k
               PROVE  f[d] = NativeDiff(old, new, d)
    OBVIOUS
  <2>1. f[d] = IF Object(old, d) = Object(new, d) THEN {}
               ELSE IF MixedAt(old, new, d) THEN NativeDiff(old, new, d)
               ELSE UNION {f[Append(d, n)] : n \in Entries(old, d) \cup Entries(new, d)}
    <3>1. PICK g : g = Level(old, new, f)
      OBVIOUS
    <3>2. g[d] = IF Object(old, d) = Object(new, d) THEN {}
                 ELSE IF MixedAt(old, new, d) THEN NativeDiff(old, new, d)
                 ELSE UNION {f[Append(d, n)] : n \in Entries(old, d) \cup Entries(new, d)}
      BY <3>1 DEF Level
    <3>3. g = f
      BY <1>4, <3>1
    <3> QED
      BY <3>2, <3>3
  <2>2. CASE ~MixedAt(old, new, d)
    <3>1. ASSUME NEW n \in Entries(old, d) \cup Entries(new, d)
          PROVE  f[Append(d, n)] = NativeDiff(old, new, Append(d, n))
      <4>1. PICK e \in Directories : e = Append(d, n) /\ Len(e) = Len(d) + 1
        BY <1>2, <2>2
      <4>2. b - Len(e) \in 0 .. k - 1
        <5>1. b - Len(e) \in 0 .. b /\ Len(d) \in Nat
          BY <1>6, <4>1
        <5> QED
          BY <4>1, <5>1
      <4>3. b - Len(e) \in T
        BY <1>7, <4>2
      <4> QED
        BY <4>1, <4>3
    <3>2. UNION {f[Append(d, n)] : n \in Entries(old, d) \cup Entries(new, d)} = NativeDiff(old, new, d)
      <4>1. NativeDiff(old, new, d) =
              UNION {NativeDiff(old, new, Append(d, n)) : n \in Entries(old, d) \cup Entries(new, d)}
        BY <2>2, LevelBelow
      <4> QED
        BY <3>1, <4>1
    <3> QED
      BY <2>1, <2>2, <3>2, SameObject
  <2>3. CASE MixedAt(old, new, d)
    BY <2>1, <2>3, SameObject
  <2> QED
    BY <2>2, <2>3
<1>8. 0 .. b \subseteq T
  <2> HIDE DEF T
  <2> QED
    BY <1>7, UpTo
<1>9. f[<<>>] = NativeDiff(old, new, <<>>)
  <2>1. <<>> \in Directories
    BY TopDirectory
  <2>2. b - Len(<<>>) \in T
    BY <1>6, <1>8, <2>1
  <2> QED
    BY <2>1, <2>2
<1> QED
  BY <1>4, <1>9, CompareIs

-----------------------------------------------------------------------------
(* The cache *)

\* What a comparison reports and what the cache may hold: the truth.
Deltas == [status : {"added", "deleted", "modified"}, path : Paths, id : Contents \cup {None}]
Right  == {c \in [old : Repo!Tree, new : Repo!Tree, deltas : SUBSET Deltas] :
             c.deltas = NativeDiff(c.old, c.new, <<>>)}

LEMMA NativeDiffType ==
  ASSUME NEW old \in Repo!Tree, NEW new \in Repo!Tree, NEW d
  PROVE  NativeDiff(old, new, d) \in SUBSET Deltas
<1>1. \A p \in Below(d) : p \in Paths
  BY DEF Below
<1>2. \A p \in Paths : Status(old, new, p) \in {"added", "deleted", "modified"}
  BY DEF Status
<1>3. \A p \in Paths : new[p] \in Contents \cup {None}
  BY DEF Repo!Tree
<1> QED
  BY <1>1, <1>2, <1>3 DEF NativeDiff, Deltas

LEMMA Without ==
  ASSUME NEW S, NEW s \in Seq(S), NEW i \in 1 .. Len(s)
  PROVE  RemoveAt(s, i) \in Seq(S)
BY DEF RemoveAt

LEMMA Retained ==
  ASSUME NEW S, NEW cache \in Seq(S), NEW entry \in S
  PROVE  Retain(cache, entry) \in Seq(S)
<1>1. CASE Len(cache) = CacheEntries
  <2>1. Len(cache) # 0
    BY <1>1, CacheAssumption
  <2>2. cache # <<>>
    BY <2>1
  <2>3. Tail(cache) \in Seq(S)
    BY <2>2, HeadTailProperties
  <2> QED
    BY <1>1, <2>3, AppendProperties DEF Retain
<1>2. CASE Len(cache) # CacheEntries
  BY <1>2, AppendProperties DEF Retain
<1> QED
  BY <1>1, <1>2

\* A comparison that is answered from the cache is what it would be without.
LEMMA VisitFinds ==
  ASSUME NEW cache \in Seq(Right), NEW old \in Repo!Tree, NEW new \in Repo!Tree,
         Apart(old), Apart(new)
  PROVE  /\ Visit(cache, old, new).deltas = NativeDiff(old, new, <<>>)
         /\ Visit(cache, old, new).cache \in Seq(Right)
<1>1. \A i \in DOMAIN cache : cache[i] \in Right /\ i \in 1 .. Len(cache)
  BY ElementOfSeq
<1>2. CASE Position(cache, old, new) # {}
  <2>1. PICK i : i = CHOOSE k \in Position(cache, old, new) : TRUE
    OBVIOUS
  <2>2. i \in DOMAIN cache /\ cache[i].old = old /\ cache[i].new = new
    BY <1>2, <2>1 DEF Position
  <2>3. cache[i] \in Right /\ cache[i].deltas = NativeDiff(old, new, <<>>)
    BY <1>1, <2>2 DEF Right
  <2>4. Append(RemoveAt(cache, i), cache[i]) \in Seq(Right)
    BY <1>1, <2>2, <2>3, Without, AppendProperties
  <2>5. Visit(cache, old, new) =
          [deltas |-> cache[i].deltas, cache |-> Append(RemoveAt(cache, i), cache[i])]
    BY <1>2, <2>1 DEF Visit
  <2> QED
    BY <2>3, <2>4, <2>5
<1>3. CASE Position(cache, old, new) = {}
  <2>1. PICK deltas : deltas = Compare(old, new)
    OBVIOUS
  <2>2. deltas = NativeDiff(old, new, <<>>) /\ deltas \in SUBSET Deltas
    BY <2>1, CompareFinds, NativeDiffType
  <2>3. PICK entry : entry = [old |-> old, new |-> new, deltas |-> deltas]
    OBVIOUS
  <2>4. entry \in Right
    BY <2>2, <2>3 DEF Right
  <2>5. Retain(cache, entry) \in Seq(Right)
    BY <2>4, Retained
  <2>6. Visit(cache, old, new) =
          [deltas |-> deltas,
           cache |-> IF Cardinality(deltas) <= CacheMaxDeltas THEN Retain(cache, entry) ELSE cache]
    BY <1>3, <2>1, <2>3 DEF Visit
  <2> QED
    BY <2>2, <2>5, <2>6
<1> QED
  BY <1>2, <1>3

-----------------------------------------------------------------------------
(* The scan of a sequence of commits *)

\* One more commit of the scan.
Scanned(sequence, before, n) ==
  LET v == Visit(before.cache, TreeAt(First(sequence[n])), TreeAt(sequence[n])) IN
  [cache |-> v.cache, diffs |-> Append(before.diffs, v.deltas)]

LEMMA DiffsAre ==
  ASSUME NEW sequence
  PROVE  Diffs(sequence) =
           (CHOOSE scan : scan = [n \in 0 .. Len(sequence) |->
              IF n = 0 THEN [cache |-> <<>>, diffs |-> <<>>]
              ELSE Scanned(sequence, scan[n - 1], n)])[Len(sequence)].diffs
BY DEF Diffs, Scanned

\* Parents are older, and trees have no file that is a directory as well.
Sound ==
  \A i \in 1 .. Len(commits) :
    /\ Apart(TreeAt(i))
    /\ \A n \in DOMAIN commits[i].parents : commits[i].parents[n] \in 1 .. i - 1

\* What a commit changes.
Changes(i) == NativeDiff(TreeAt(First(i)), TreeAt(i), <<>>)

LEMMA FirstType ==
  ASSUME TypeOK, Sound, NEW i \in 1 .. Len(commits)
  PROVE  /\ First(i) \in 0 .. i - 1
         /\ Linear(i) => First(i) \in 1 .. i - 1
<1>1. commits[i].parents \in Seq(Nat)
  <2>1. commits[i] \in Repo!Commit
    BY DEF TypeOK
  <2> QED
    BY <2>1 DEF Repo!Commit
<1>2. PICK parents \in Seq(Nat) : parents = commits[i].parents
  BY <1>1
<1>3. Len(parents) \in Nat /\ (parents # <<>> => 1 \in DOMAIN parents)
  <2>1. Len(parents) \in Nat /\ DOMAIN parents = 1 .. Len(parents)
    BY <1>2, LenProperties
  <2>2. parents # <<>> => Len(parents) # 0
    BY <1>2, EmptySeq
  <2> QED
    BY <2>1, <2>2
<1>4. parents # <<>> => parents[1] \in 1 .. i - 1
  BY <1>2, <1>3 DEF Sound
<1>5. First(i) = IF parents = <<>> THEN 0 ELSE parents[1]
  BY <1>2 DEF First
<1>6. Len(parents) = 1 => parents # <<>>
  OBVIOUS
<1> QED
  BY <1>2, <1>4, <1>5, <1>6 DEF Linear

LEMMA CommitTrees ==
  ASSUME TypeOK, Sound, NEW i \in 0 .. Len(commits)
  PROVE  TreeAt(i) \in Repo!Tree /\ Apart(TreeAt(i))
<1>1. TreeAt(i) \in Repo!Tree
  BY TreeTypes DEF TypeOK
<1>2. Apart(TreeAt(0))
  <2>1. Files(TreeAt(0)) = {}
    BY DEF TreeAt, Repo!TreeAt, Files, Repo!Files, Repo!NoFiles
  <2> QED
    BY <2>1 DEF Apart
<1>3. i # 0 => i \in 1 .. Len(commits)
  OBVIOUS
<1> QED
  BY <1>1, <1>2, <1>3 DEF Sound

\* With one cache for all of it, a scan compares every commit rightly.
LEMMA DiffsFind ==
  ASSUME TypeOK, Sound, NEW sequence \in Seq(1 .. Len(commits))
  PROVE  /\ Diffs(sequence) \in Seq(SUBSET Deltas)
         /\ Len(Diffs(sequence)) = Len(sequence)
         /\ \A n \in 1 .. Len(sequence) : Diffs(sequence)[n] = Changes(sequence[n])
<1> DEFINE N == Len(sequence)
           Start == [cache |-> <<>>, diffs |-> <<>>]
           S == [cache : Seq(Right), diffs : Seq(SUBSET Deltas)]
           scanned(scan) == [n \in 0 .. N |->
             IF n = 0 THEN Start ELSE Scanned(sequence, scan[n - 1], n)]
<1>1. N \in Nat /\ \A n \in 1 .. N : sequence[n] \in 1 .. Len(commits)
  BY LenProperties, ElementOfSeq
<1>2. Start \in S
  OBVIOUS
<1>3. ASSUME NEW before \in S, NEW n \in 1 .. N
      PROVE  /\ Scanned(sequence, before, n) \in S
             /\ Scanned(sequence, before, n).diffs = Append(before.diffs, Changes(sequence[n]))
  <2>1. PICK i \in 1 .. Len(commits) : i = sequence[n]
    BY <1>1
  <2>2. First(i) \in 0 .. Len(commits) /\ i \in 0 .. Len(commits)
    <3>1. First(i) \in 0 .. i - 1 /\ Len(commits) \in Nat
      BY FirstType DEF TypeOK
    <3> QED
      BY <3>1
  <2>3. PICK old \in Repo!Tree : old = TreeAt(First(i)) /\ Apart(old)
    BY <2>2, CommitTrees
  <2>4. PICK new \in Repo!Tree : new = TreeAt(i) /\ Apart(new)
    BY <2>2, CommitTrees
  <2>5. PICK v : v = Visit(before.cache, old, new)
    OBVIOUS
  <2>6. v.deltas = NativeDiff(old, new, <<>>) /\ v.cache \in Seq(Right)
    BY <2>3, <2>4, <2>5, VisitFinds
  <2>7. v.deltas = Changes(sequence[n]) /\ v.deltas \in SUBSET Deltas
    BY <2>1, <2>3, <2>4, <2>6, NativeDiffType DEF Changes
  <2>8. Scanned(sequence, before, n) = [cache |-> v.cache, diffs |-> Append(before.diffs, v.deltas)]
    BY <2>1, <2>3, <2>4, <2>5 DEF Scanned
  <2>9. Append(before.diffs, v.deltas) \in Seq(SUBSET Deltas)
    BY <2>7, AppendProperties
  <2> QED
    BY <2>6, <2>7, <2>8, <2>9
<1>4. \E scan : scan = scanned(scan)
  <2> DEFINE b == [n \in 0 .. N |-> Start]
             pred == [n \in 0 .. N |-> n - 1]
             G == [x \in (0 .. N) \X S |-> Scanned(sequence, x[2], x[1])]
             Base == {0}
  <2>1. b \in [0 .. N -> S]
    BY <1>2
  <2>2. \A n \in 0 .. N : n \notin Base => pred[n] \in 0 .. n - 1
    BY <1>1
  <2>3. \A n \in 0 .. N, s \in S : G[<<n, s>>] = Scanned(sequence, s, n)
    OBVIOUS
  <2>4. \A n \in 0 .. N, s \in S : n \notin Base => G[<<n, s>>] \in S
    BY <1>1, <1>3, <2>3
  <2> HIDE DEF S, b, G, Base, pred, N, Start
  <2>5. PICK f \in [0 .. N -> S] :
          \A n \in 0 .. N : f[n] = IF n \in Base THEN b[n] ELSE G[<<n, f[pred[n]]>>]
    <3>1. Recursive(N, S, Base, b, pred, G)
      BY <1>1, <2>1, <2>2, <2>4 DEF Recursive
    <3> QED
      BY <3>1, Recursion
  <2> USE DEF Base, b, pred
  <2>6. ASSUME NEW n \in 0 .. N
        PROVE  f[n] = IF n = 0 THEN Start ELSE Scanned(sequence, f[n - 1], n)
    <3>1. CASE n = 0
      BY <2>5, <3>1
    <3>2. CASE n # 0
      <4>1. n - 1 \in 0 .. N /\ f[n] = G[<<n, f[n - 1]>>]
        BY <1>1, <2>5, <3>2
      <4> QED
        BY <2>3, <2>5, <3>2, <4>1
    <3> QED
      BY <3>1, <3>2
  <2>7. f = scanned(f)
    BY <2>5, <2>6
  <2> QED
    BY <2>7
<1>5. PICK scan : scan = (CHOOSE g : g = scanned(g)) /\ scan = scanned(scan)
  BY <1>4
<1>6. \A n \in 0 .. N : scan[n] = IF n = 0 THEN Start ELSE Scanned(sequence, scan[n - 1], n)
  <2>1. PICK g : g = scanned(scan)
    OBVIOUS
  <2>2. \A n \in 0 .. N : g[n] = IF n = 0 THEN Start ELSE Scanned(sequence, scan[n - 1], n)
    BY <2>1
  <2>3. g = scan
    BY <1>5, <2>1
  <2> QED
    BY <2>2, <2>3
<1> DEFINE Done(n) == /\ scan[n] \in S
                      /\ Len(scan[n].diffs) = n
                      /\ \A k \in 1 .. n : scan[n].diffs[k] = Changes(sequence[k])
           T == {n \in 0 .. N : Done(n)}
<1>7. ASSUME NEW n \in 0 .. N, 0 .. n - 1 \subseteq T PROVE n \in T
  <2>1. CASE n = 0
    <3>1. scan[n] = Start
      BY <1>6, <2>1
    <3>2. Len(Start.diffs) = 0 /\ 1 .. 0 = {}
      OBVIOUS
    <3> QED
      BY <1>2, <2>1, <3>1, <3>2
  <2>2. CASE n # 0
    <3>1. n \in 1 .. N /\ n - 1 \in 0 .. n - 1
      BY <1>1, <2>2
    <3>2. Done(n - 1)
      BY <1>7, <3>1
    <3>3. PICK before \in S : before = scan[n - 1]
      BY <3>2
    <3>4. before.diffs \in Seq(SUBSET Deltas) /\ Len(before.diffs) = n - 1
          /\ \A k \in 1 .. n - 1 : before.diffs[k] = Changes(sequence[k])
      BY <3>2, <3>3
    <3>5. scan[n] = Scanned(sequence, before, n)
      BY <1>6, <2>2, <3>3
    <3>6. scan[n] \in S /\ scan[n].diffs = Append(before.diffs, Changes(sequence[n]))
      BY <1>3, <3>1, <3>5
    <3>7. PICK diffs \in Seq(SUBSET Deltas) : diffs = before.diffs
      BY <3>4
    <3>8. PICK one : one = Changes(sequence[n])
      OBVIOUS
    <3>9. Len(Append(diffs, one)) = n /\ Append(diffs, one)[n] = one
          /\ \A k \in 1 .. n - 1 : Append(diffs, one)[k] = diffs[k]
      BY <3>1, <3>4, <3>7
    <3>10. \A k \in 1 .. n : k \in 1 .. n - 1 \/ k = n
      BY <3>1
    <3>11. \A k \in 1 .. n : Append(diffs, one)[k] = Changes(sequence[k])
      BY <3>4, <3>7, <3>8, <3>9, <3>10
    <3>12. scan[n].diffs = Append(diffs, one)
      BY <3>6, <3>7, <3>8
    <3> HIDE DEF S
    <3> QED
      BY <3>6, <3>9, <3>11, <3>12
  <2> QED
    BY <2>1, <2>2
<1>8. 0 .. N \subseteq T
  <2> HIDE DEF T
  <2> QED
    BY <1>1, <1>7, UpTo
<1>9. Done(N)
  BY <1>1, <1>8
<1>10. Diffs(sequence) = scan[N].diffs
  BY <1>5, DiffsAre
<1> QED
  BY <1>9, <1>10

-----------------------------------------------------------------------------
(* The first parents *)

LEMMA ChainIs ==
  ASSUME NEW h, NEW until
  PROVE  Chain(h, until) =
           (CHOOSE chain : chain = [i \in 0 .. h |->
              IF i \in {0, until} THEN <<>> ELSE <<i>> \o chain[First(i)]])[h]
BY DEF Chain

LEMMA LinearlyIs ==
  ASSUME NEW h, NEW previous
  PROVE  Linearly(previous, h) =
           (CHOOSE linear : linear = [i \in 0 .. h |->
              i = previous \/ (i # 0 /\ Linear(i) /\ linear[First(i)])])[h]
BY DEF Linearly

LEMMA ConsIs ==
  ASSUME NEW S, NEW i \in S, NEW s \in Seq(S)
  PROVE  <<i>> \o s \in Seq(S) /\ ToSet(<<i>> \o s) = {i} \cup ToSet(s)
<1>1. PICK one \in Seq(S) : one = <<i>> /\ Len(one) = 1 /\ one[1] = i
  <2>1. <<i>> \in Seq(S) /\ Len(<<i>>) = 1 /\ <<i>>[1] = i
    OBVIOUS
  <2> QED
    BY <2>1
<1>2. PICK t : t = one \o s
  OBVIOUS
<1>3. /\ t \in Seq(S) /\ Len(t) = Len(one) + Len(s)
      /\ \A k \in 1 .. Len(one) + Len(s) :
           t[k] = IF k <= Len(one) THEN one[k] ELSE s[k - Len(one)]
  BY <1>2, ConcatProperties
<1>4. Len(s) \in Nat /\ DOMAIN s = 1 .. Len(s) /\ DOMAIN t = 1 .. Len(t)
  BY <1>3, LenProperties
<1>5. /\ Len(t) = 1 + Len(s) /\ t[1] = i
      /\ \A k \in 1 .. Len(s) : t[k + 1] = s[k] /\ k + 1 \in 1 .. Len(t)
      /\ \A k \in 1 .. Len(t) : k # 1 => t[k] = s[k - 1] /\ k - 1 \in 1 .. Len(s)
  BY <1>1, <1>3, <1>4
<1>6. ToSet(t) \subseteq {i} \cup ToSet(s)
  BY <1>4, <1>5 DEF ToSet
<1>7. {i} \cup ToSet(s) \subseteq ToSet(t)
  <2>1. 1 \in 1 .. Len(t)
    BY <1>4, <1>5
  <2> QED
    BY <1>4, <1>5, <2>1 DEF ToSet
<1> QED
  BY <1>1, <1>2, <1>3, <1>6, <1>7

LEMMA ChainTypes ==
  ASSUME TypeOK, Sound, NEW h \in 0 .. Len(commits), NEW until
  PROVE  \E chain \in [0 .. h -> Seq(1 .. Len(commits))] :
           /\ Chain(h, until) = chain[h]
           /\ \A i \in 0 .. h :
                chain[i] = IF i \in {0, until} THEN <<>> ELSE <<i>> \o chain[First(i)]
<1> DEFINE S == Seq(1 .. Len(commits))
           chained(chain) == [i \in 0 .. h |->
             IF i \in {0, until} THEN <<>> ELSE <<i>> \o chain[First(i)]]
           Base == {0, until}
           b == [i \in 0 .. h |-> <<>>]
           pred == [i \in 0 .. h |-> First(i)]
           G == [x \in (0 .. h) \X S |-> <<x[1]>> \o x[2]]
<1>1. h \in Nat /\ \A i \in 0 .. h : i \notin Base => i \in 1 .. Len(commits)
  BY DEF TypeOK
<1>2. b \in [0 .. h -> S]
  OBVIOUS
<1>3. ASSUME NEW i \in 0 .. h, i \notin Base PROVE First(i) \in 0 .. i - 1 /\ First(i) \in 0 .. h
  <2>1. First(i) \in 0 .. i - 1
    BY <1>1, <1>3, FirstType
  <2> QED
    BY <1>1, <2>1
<1>4. \A i \in 0 .. h : i \notin Base => pred[i] \in 0 .. i - 1
  BY <1>3
<1>5. \A i \in 0 .. h : \A s \in S : G[<<i, s>>] = <<i>> \o s
  OBVIOUS
<1>6. \A i \in 0 .. h : \A s \in S : i \notin Base => G[<<i, s>>] \in S
  BY <1>1, <1>5, ConsIs
<1> HIDE DEF S, b, G, Base, pred
<1>7. PICK f \in [0 .. h -> S] :
        \A i \in 0 .. h : f[i] = IF i \in Base THEN b[i] ELSE G[<<i, f[pred[i]]>>]
  <2>1. Recursive(h, S, Base, b, pred, G)
    BY <1>1, <1>2, <1>4, <1>6 DEF Recursive
  <2> QED
    BY <2>1, Recursion
<1>8. ASSUME NEW i \in 0 .. h
      PROVE  f[i] = IF i \in {0, until} THEN <<>> ELSE <<i>> \o f[First(i)]
  <2>1. CASE i \in Base
    BY <1>7, <2>1 DEF Base, b
  <2>2. CASE i \notin Base
    <3>1. First(i) \in 0 .. h /\ pred[i] = First(i)
      BY <1>3, <2>2 DEF pred
    <3>2. f[First(i)] \in S
      BY <1>7, <3>1
    <3>3. f[i] = <<i>> \o f[First(i)]
      BY <1>5, <1>7, <2>2, <3>1, <3>2
    <3> QED
      BY <2>2, <3>3 DEF Base
  <2> QED
    BY <2>1, <2>2
<1>9. f = chained(f)
  BY <1>7, <1>8
<1>10. PICK chain : chain = (CHOOSE g : g = chained(g)) /\ chain = chained(chain)
  BY <1>9
<1>11. \A i \in 0 .. h : chain[i] = IF i \in {0, until} THEN <<>> ELSE <<i>> \o chain[First(i)]
  <2>1. PICK g : g = chained(chain)
    OBVIOUS
  <2>2. \A i \in 0 .. h : g[i] = IF i \in {0, until} THEN <<>> ELSE <<i>> \o chain[First(i)]
    BY <2>1
  <2>3. g = chain
    BY <1>10, <2>1
  <2> QED
    BY <2>2, <2>3
<1> DEFINE T == {i \in 0 .. h : chain[i] \in S}
<1>12. ASSUME NEW i \in 0 .. h, 0 .. i - 1 \subseteq T PROVE i \in T
  <2>1. CASE i \in Base
    <3>1. chain[i] = <<>>
      BY <1>11, <2>1 DEF Base
    <3>2. <<>> \in Seq(1 .. Len(commits))
      OBVIOUS
    <3> QED
      BY <3>1, <3>2 DEF S
  <2>2. CASE i \notin Base
    <3>1. First(i) \in T /\ i \in 1 .. Len(commits)
      BY <1>1, <1>3, <1>12, <2>2
    <3>2. PICK s \in S : s = chain[First(i)]
      BY <3>1
    <3>3. <<i>> \o s \in S
      BY <3>1, ConsIs DEF S
    <3>4. chain[i] = <<i>> \o s
      BY <1>11, <2>2, <3>2 DEF Base
    <3> QED
      BY <3>3, <3>4
  <2> QED
    BY <2>1, <2>2
<1>13. 0 .. h \subseteq T
  <2> HIDE DEF T
  <2> QED
    BY <1>1, <1>12, UpTo
<1>14. chain \in [0 .. h -> S]
  <2>1. \A i \in 0 .. h : chain[i] \in S
    BY <1>13
  <2>2. PICK g : g = chained(chain)
    OBVIOUS
  <2>3. g = chain
    BY <1>10, <2>2
  <2>4. g = [i \in 0 .. h |-> g[i]]
    BY <2>2
  <2> QED
    BY <2>1, <2>3, <2>4
<1>15. Chain(h, until) = chain[h]
  BY <1>10, ChainIs
<1> QED
  BY <1>11, <1>14, <1>15 DEF S

LEMMA ChainType ==
  ASSUME TypeOK, Sound, NEW h \in 0 .. Len(commits), NEW until
  PROVE  Chain(h, until) \in Seq(1 .. Len(commits))
<1>1. PICK chain \in [0 .. h -> Seq(1 .. Len(commits))] :
        /\ Chain(h, until) = chain[h]
        /\ \A i \in 0 .. h :
             chain[i] = IF i \in {0, until} THEN <<>> ELSE <<i>> \o chain[First(i)]
  BY ChainTypes
<1>2. h \in 0 .. h
  BY DEF TypeOK
<1> QED
  BY <1>1, <1>2

IsLine(linear, previous, h) ==
  \A i \in 0 .. h : linear[i] = (i = previous \/ (i # 0 /\ Linear(i) /\ linear[First(i)]))

LEMMA LinearTypes ==
  ASSUME TypeOK, Sound, NEW h \in 0 .. Len(commits), NEW previous
  PROVE  \E linear : Linearly(previous, h) = linear[h] /\ IsLine(linear, previous, h)
<1> DEFINE lined(linear) == [i \in 0 .. h |->
             i = previous \/ (i # 0 /\ Linear(i) /\ linear[First(i)])]
           Base == {0, previous}
           b == [i \in 0 .. h |-> i = previous]
           pred == [i \in 0 .. h |-> First(i)]
           G == [x \in (0 .. h) \X BOOLEAN |-> Linear(x[1]) /\ x[2]]
<1>1. h \in Nat /\ \A i \in 0 .. h : i \notin Base => i \in 1 .. Len(commits)
  BY DEF TypeOK
<1>2. b \in [0 .. h -> BOOLEAN]
  OBVIOUS
<1>3. ASSUME NEW i \in 0 .. h, i \notin Base PROVE First(i) \in 0 .. i - 1 /\ First(i) \in 0 .. h
  <2>1. First(i) \in 0 .. i - 1
    BY <1>1, <1>3, FirstType
  <2> QED
    BY <1>1, <2>1
<1>4. \A i \in 0 .. h : i \notin Base => pred[i] \in 0 .. i - 1
  BY <1>3
<1>5. \A i \in 0 .. h : \A s \in BOOLEAN : G[<<i, s>>] = (Linear(i) /\ s)
  OBVIOUS
<1>6. \A i \in 0 .. h : \A s \in BOOLEAN : i \notin Base => G[<<i, s>>] \in BOOLEAN
  BY <1>5
<1> HIDE DEF b, G, Base, pred
<1>7. PICK f \in [0 .. h -> BOOLEAN] :
        \A i \in 0 .. h : f[i] = IF i \in Base THEN b[i] ELSE G[<<i, f[pred[i]]>>]
  <2>1. PICK S : S = BOOLEAN
    OBVIOUS
  <2>2. Recursive(h, S, Base, b, pred, G)
    BY <1>1, <1>2, <1>4, <1>6, <2>1 DEF Recursive
  <2>3. \E f \in [0 .. h -> S] :
          \A i \in 0 .. h : f[i] = IF i \in Base THEN b[i] ELSE G[<<i, f[pred[i]]>>]
    BY <2>2, Recursion
  <2> QED
    BY <2>1, <2>3, Zenon
<1>8. ASSUME NEW i \in 0 .. h
      PROVE  f[i] = (i = previous \/ (i # 0 /\ Linear(i) /\ f[First(i)]))
  <2>1. CASE i = previous
    BY <1>7, <2>1 DEF Base, b
  <2>2. CASE i = 0 /\ i # previous
    <3>1. f[i] = b[i] /\ b[i] = (i = previous)
      BY <1>7, <2>2 DEF Base, b
    <3> QED
      BY <2>2, <3>1
  <2>3. CASE i \notin Base
    <3>1. First(i) \in 0 .. h /\ pred[i] = First(i)
      BY <1>3, <2>3 DEF pred
    <3>2. f[First(i)] \in BOOLEAN
      BY <1>7, <3>1
    <3>3. f[i] = (Linear(i) /\ f[First(i)])
      BY <1>5, <1>7, <2>3, <3>1, <3>2
    <3>4. i # previous /\ i # 0
      BY <2>3 DEF Base
    <3> QED
      BY <3>3, <3>4
  <2> QED
    BY <2>1, <2>2, <2>3 DEF Base
<1>9. f = lined(f)
  BY <1>7, <1>8
<1>10. PICK linear : linear = (CHOOSE g : g = lined(g)) /\ linear = lined(linear)
  BY <1>9
<1>11. \A i \in 0 .. h : linear[i] = (i = previous \/ (i # 0 /\ Linear(i) /\ linear[First(i)]))
  <2>1. PICK g : g = lined(linear)
    OBVIOUS
  <2>2. \A i \in 0 .. h : g[i] = (i = previous \/ (i # 0 /\ Linear(i) /\ linear[First(i)]))
    BY <2>1
  <2>3. g = linear
    BY <1>10, <2>1
  <2> QED
    BY <2>2, <2>3
<1>12. Linearly(previous, h) = linear[h]
  BY <1>10, LinearlyIs
<1> QED
  BY <1>11, <1>12 DEF IsLine

\* The chain has only linear commits exactly if it ends at the checkpoint.
LEMMA ChainLinear ==
  ASSUME TypeOK, Sound, NEW h \in 1 .. Len(commits), NEW previous \in 1 .. Len(commits)
  PROVE  /\ Linearly(previous, h) \in BOOLEAN
         /\ Linearly(previous, h) <=> \A i \in ToSet(Chain(h, previous)) : Linear(i)
<1>1. h \in 0 .. Len(commits) /\ h \in Nat /\ Len(commits) \in Nat
  BY DEF TypeOK
<1>2. PICK chain \in [0 .. h -> Seq(1 .. Len(commits))] :
        /\ Chain(h, previous) = chain[h]
        /\ \A i \in 0 .. h :
             chain[i] = IF i \in {0, previous} THEN <<>> ELSE <<i>> \o chain[First(i)]
  BY <1>1, ChainTypes
<1>3. PICK linear : Linearly(previous, h) = linear[h] /\ IsLine(linear, previous, h)
  BY <1>1, LinearTypes
<1> DEFINE T == {i \in 0 .. h : i # 0 => (linear[i] <=> \A k \in ToSet(chain[i]) : Linear(k))}
<1>4. ASSUME NEW i \in 0 .. h, 0 .. i - 1 \subseteq T PROVE i \in T
  <2>1. CASE i = previous
    <3>1. linear[i] /\ chain[i] = <<>>
      BY <1>2, <1>3, <2>1 DEF IsLine
    <3>2. ToSet(chain[i]) = {}
      BY <3>1 DEF ToSet
    <3> QED
      BY <3>1, <3>2
  <2>2. CASE i # previous /\ i # 0
    <3>1. i \in 1 .. Len(commits)
      BY <1>1, <2>2
    <3>2. First(i) \in 0 .. i - 1 /\ (Linear(i) => First(i) \in 1 .. i - 1)
      BY <3>1, FirstType
    <3>3. First(i) \in 0 .. h
      BY <1>1, <3>2
    <3>4. PICK s \in Seq(1 .. Len(commits)) : s = chain[First(i)]
      BY <1>2, <3>3
    <3>5. chain[i] = <<i>> \o s
      BY <1>2, <2>2, <3>4
    <3>6. ToSet(chain[i]) = {i} \cup ToSet(s)
      BY <3>1, <3>5, ConsIs
    <3>7. linear[i] = (Linear(i) /\ linear[First(i)])
      BY <1>3, <2>2 DEF IsLine
    <3>8. Linear(i) => (linear[First(i)] <=> \A k \in ToSet(s) : Linear(k))
      <4>1. Linear(i) => First(i) # 0 /\ First(i) \in 0 .. i - 1
        BY <3>2
      <4> QED
        BY <1>4, <3>4, <4>1
    <3>9. linear[i] <=> \A k \in ToSet(chain[i]) : Linear(k)
      BY <3>6, <3>7, <3>8
    <3> QED
      BY <3>9
  <2> QED
    BY <2>1, <2>2
<1>5. 0 .. h \subseteq T
  <2> HIDE DEF T
  <2> QED
    BY <1>1, <1>4, UpTo
<1>6. linear[h] <=> \A k \in ToSet(chain[h]) : Linear(k)
  <2>1. h \in T /\ h # 0
    BY <1>1, <1>5
  <2> QED
    BY <2>1
<1>7. linear[h] \in BOOLEAN
  <2>1. linear[h] = (h = previous \/ (h # 0 /\ Linear(h) /\ linear[First(h)]))
    BY <1>1, <1>3 DEF IsLine
  <2> QED
    BY <2>1
<1> QED
  BY <1>2, <1>3, <1>6, <1>7

-----------------------------------------------------------------------------
(* What the two scans find *)

LEMMA ChangesAre ==
  ASSUME TypeOK, Sound, NEW i \in 1 .. Len(commits)
  PROVE  /\ Changes(i) = {[status |-> Status(TreeAt(First(i)), TreeAt(i), p), path |-> p,
                           id |-> TreeAt(i)[p]] :
                             p \in {q \in Paths : TreeAt(First(i))[q] # TreeAt(i)[q]}}
         /\ TreeAt(First(i)) \in Repo!Tree /\ TreeAt(i) \in Repo!Tree
<1>1. Below(<<>>) = Paths
  BY TopDirectory
<1>2. First(i) \in 0 .. Len(commits) /\ i \in 0 .. Len(commits)
  <2>1. First(i) \in 0 .. i - 1 /\ Len(commits) \in Nat
    BY FirstType DEF TypeOK
  <2> QED
    BY <2>1
<1>3. TreeAt(First(i)) \in Repo!Tree /\ TreeAt(i) \in Repo!Tree
  BY <1>2, CommitTrees
<1> QED
  BY <1>1, <1>3 DEF Changes, NativeDiff

LEMMA ScanFinds ==
  ASSUME TypeOK, Sound, NEW h \in 1 .. Len(commits), NEW previous \in 1 .. Len(commits)
  PROVE  LET scan == ScanChanges(h, previous) IN
         /\ scan.baseline = ~Linearly(previous, h)
         /\ ~scan.baseline =>
              scan.paths = {p \in Paths : \E i \in ToSet(Chain(h, previous)) :
                              TreeAt(i)[p] # TreeAt(First(i))[p]}
<1>1. PICK chain : chain = Chain(h, previous)
  OBVIOUS
<1>2. chain \in Seq(1 .. Len(commits))
  <2>1. h \in 0 .. Len(commits)
    BY DEF TypeOK
  <2> QED
    BY <1>1, <2>1, ChainType
<1>3. PICK diffs : diffs = Diffs(chain)
  OBVIOUS
<1>4. /\ DOMAIN diffs = 1 .. Len(chain) /\ DOMAIN chain = 1 .. Len(chain)
      /\ \A n \in 1 .. Len(chain) : diffs[n] = Changes(chain[n]) /\ chain[n] \in 1 .. Len(commits)
  <2>1. diffs \in Seq(SUBSET Deltas) /\ Len(diffs) = Len(chain)
        /\ \A n \in 1 .. Len(chain) : diffs[n] = Changes(chain[n])
    BY <1>2, <1>3, DiffsFind
  <2>2. DOMAIN diffs = 1 .. Len(diffs) /\ DOMAIN chain = 1 .. Len(chain)
    BY <1>2, <2>1, LenProperties
  <2> QED
    BY <1>2, <2>1, <2>2, ElementOfSeq
<1>5. ScanChanges(h, previous) =
        IF \E i \in ToSet(chain) : ~Linear(i)
          THEN [baseline |-> TRUE, paths |-> {}]
          ELSE [baseline |-> FALSE, paths |-> {delta.path : delta \in UNION ToSet(diffs)}]
  BY <1>1, <1>3 DEF ScanChanges
<1>6. {delta.path : delta \in UNION ToSet(diffs)} =
        {p \in Paths : \E i \in ToSet(chain) : TreeAt(i)[p] # TreeAt(First(i))[p]}
  <2>1. ASSUME NEW n \in 1 .. Len(chain), NEW delta \in diffs[n]
        PROVE  /\ delta.path \in Paths
               /\ TreeAt(chain[n])[delta.path] # TreeAt(First(chain[n]))[delta.path]
    BY <1>4, ChangesAre
  <2>2. ASSUME NEW n \in 1 .. Len(chain), NEW p \in Paths,
               TreeAt(chain[n])[p] # TreeAt(First(chain[n]))[p]
        PROVE  \E delta \in diffs[n] : delta.path = p
    <3>1. PICK delta : delta = [status |-> Status(TreeAt(First(chain[n])), TreeAt(chain[n]), p),
                                path |-> p, id |-> TreeAt(chain[n])[p]]
      OBVIOUS
    <3>2. delta \in Changes(chain[n])
      BY <1>4, <2>2, <3>1, ChangesAre
    <3> QED
      BY <1>4, <3>1, <3>2
  <2>3. ToSet(diffs) = {diffs[n] : n \in 1 .. Len(chain)}
        /\ ToSet(chain) = {chain[n] : n \in 1 .. Len(chain)}
    BY <1>4 DEF ToSet
  <2> QED
    BY <2>1, <2>2, <2>3
<1>7. /\ Linearly(previous, h) \in BOOLEAN
      /\ Linearly(previous, h) <=> \A i \in ToSet(chain) : Linear(i)
  BY <1>1, ChainLinear
<1>8. CASE \E i \in ToSet(chain) : ~Linear(i)
  <2>1. ScanChanges(h, previous) = [baseline |-> TRUE, paths |-> {}]
    BY <1>5, <1>8
  <2>2. Linearly(previous, h) = FALSE
    BY <1>7, <1>8
  <2>3. ScanChanges(h, previous).baseline = TRUE
    BY <2>1
  <2> QED
    BY <2>2, <2>3, Zenon
<1>9. CASE \A i \in ToSet(chain) : Linear(i)
  <2>1. ScanChanges(h, previous) =
          [baseline |-> FALSE, paths |-> {delta.path : delta \in UNION ToSet(diffs)}]
    BY <1>5, <1>9
  <2>2. Linearly(previous, h) = TRUE
    BY <1>7, <1>9
  <2>3. /\ ScanChanges(h, previous).baseline = FALSE
        /\ ScanChanges(h, previous).paths = {delta.path : delta \in UNION ToSet(diffs)}
    BY <2>1
  <2> QED
    BY <1>1, <1>6, <2>2, <2>3, Zenon
<1> QED
  BY <1>8, <1>9

LEMMA ReverseIs ==
  ASSUME NEW S, NEW s \in Seq(S)
  PROVE  Reverse(s) \in Seq(S) /\ Len(Reverse(s)) = Len(s) /\ ToSet(Reverse(s)) = ToSet(s)
<1>1. PICK r : r = Reverse(s)
  OBVIOUS
<1>2. Len(s) \in Nat /\ DOMAIN s = 1 .. Len(s) /\ \A i \in 1 .. Len(s) : s[i] \in S
  BY LenProperties, ElementOfSeq
<1>3. \A i \in 1 .. Len(s) : Len(s) - i + 1 \in 1 .. Len(s) /\ Len(s) - (Len(s) - i + 1) + 1 = i
  BY <1>2
<1>4. r = [i \in 1 .. Len(s) |-> s[(Len(s) - i) + 1]]
  BY <1>1 DEF Reverse
<1>5. r \in [1 .. Len(s) -> S] /\ \A i \in 1 .. Len(s) : r[i] = s[(Len(s) - i) + 1]
  BY <1>2, <1>3, <1>4
<1>6. r \in Seq(S) /\ Len(r) = Len(s)
  BY <1>2, <1>5
<1>7. DOMAIN r = 1 .. Len(s)
  BY <1>5
<1>8. ToSet(r) = ToSet(s)
  <2>1. ASSUME NEW i \in 1 .. Len(s) PROVE r[i] \in ToSet(s) /\ s[i] \in ToSet(r)
    <3>1. PICK k \in 1 .. Len(s) : k = Len(s) - i + 1 /\ i = Len(s) - k + 1
      BY <1>3
    <3>2. r[i] = s[k] /\ r[k] = s[i]
      BY <1>5, <3>1
    <3> QED
      BY <1>2, <1>7, <3>2 DEF ToSet
  <2> QED
    BY <1>2, <1>7, <2>1 DEF ToSet
<1> QED
  BY <1>1, <1>6, <1>8

LEMMA VersionsFind ==
  ASSUME TypeOK, Sound, NEW h \in 1 .. Len(commits), NEW since \in 0 .. Len(commits)
  PROVE  CollectVersions(h, since) =
           {v \in ToSet(Chain(h, since)) \X Advisories \X Contents :
              /\ TreeAt(v[1])[v[2]] = v[3]
              /\ TreeAt(First(v[1]))[v[2]] # v[3]}
<1>1. PICK back : back = Chain(h, since)
  OBVIOUS
<1>2. back \in Seq(1 .. Len(commits))
  <2>1. h \in 0 .. Len(commits)
    BY DEF TypeOK
  <2> QED
    BY <1>1, <2>1, ChainType
<1>3. PICK chain \in Seq(1 .. Len(commits)) : chain = Reverse(back) /\ ToSet(chain) = ToSet(back)
  BY <1>2, ReverseIs
<1>4. PICK diffs : diffs = Diffs(chain)
  OBVIOUS
<1>5. /\ DOMAIN chain = 1 .. Len(chain)
      /\ \A n \in 1 .. Len(chain) : diffs[n] = Changes(chain[n]) /\ chain[n] \in 1 .. Len(commits)
  <2>1. \A n \in 1 .. Len(chain) : diffs[n] = Changes(chain[n])
    BY <1>4, DiffsFind
  <2> QED
    BY <2>1, LenProperties, ElementOfSeq
<1> DEFINE found(n) == {<<chain[n], delta.path, delta.id>> :
             delta \in {x \in diffs[n] : x.status # "deleted" /\ x.path \in Advisories}}
           true(v) == TreeAt(v[1])[v[2]] = v[3] /\ TreeAt(First(v[1]))[v[2]] # v[3]
<1>6. CollectVersions(h, since) = UNION {found(n) : n \in DOMAIN chain}
  BY <1>1, <1>3, <1>4 DEF CollectVersions
<1>7. ASSUME NEW n \in 1 .. Len(chain), NEW v \in found(n)
      PROVE  v \in ToSet(chain) \X Advisories \X Contents /\ true(v)
  <2>1. PICK delta \in Changes(chain[n]) :
          /\ delta.status # "deleted" /\ delta.path \in Advisories
          /\ v = <<chain[n], delta.path, delta.id>>
    BY <1>5, <1>7
  <2>2. PICK i \in 1 .. Len(commits) : i = chain[n] /\ i \in ToSet(chain)
    BY <1>5 DEF ToSet
  <2>3. PICK p \in Paths :
          /\ TreeAt(First(i))[p] # TreeAt(i)[p]
          /\ delta.path = p /\ delta.id = TreeAt(i)[p]
          /\ delta.status = Status(TreeAt(First(i)), TreeAt(i), p)
    BY <2>1, <2>2, ChangesAre
  <2>4. TreeAt(i)[p] # None
    BY <2>1, <2>3 DEF Status
  <2>5. TreeAt(i)[p] \in Contents
    <3>1. TreeAt(i) \in Repo!Tree
      BY ChangesAre
    <3> QED
      BY <2>4, <3>1 DEF Repo!Tree
  <2> QED
    BY <2>1, <2>2, <2>3, <2>5
<1>8. ASSUME NEW v \in ToSet(chain) \X Advisories \X Contents, true(v)
      PROVE  \E n \in 1 .. Len(chain) : v \in found(n)
  <2>1. PICK n \in 1 .. Len(chain) : v[1] = chain[n]
    BY <1>5 DEF ToSet
  <2>2. PICK i \in 1 .. Len(commits) : i = chain[n]
    BY <1>5
  <2>3. PICK p \in Paths : p = v[2] /\ p \in Advisories
    BY RepositoryAssumption
  <2>4. TreeAt(i)[p] = v[3] /\ TreeAt(First(i))[p] # v[3] /\ v[3] # None
    BY <1>8, <2>1, <2>2, <2>3, RepositoryAssumption
  <2>5. PICK delta : delta = [status |-> Status(TreeAt(First(i)), TreeAt(i), p),
                              path |-> p, id |-> TreeAt(i)[p]]
    OBVIOUS
  <2>6. delta \in diffs[n]
    <3>1. delta \in Changes(i)
      BY <2>4, <2>5, ChangesAre
    <3> QED
      BY <1>5, <2>2, <3>1
  <2>7. delta.status # "deleted" /\ delta.path = p /\ delta.id = v[3]
    BY <2>4, <2>5 DEF Status
  <2>8. v = <<chain[n], delta.path, delta.id>>
    BY <2>1, <2>3, <2>7
  <2> QED
    BY <2>3, <2>6, <2>7, <2>8
<1> HIDE DEF found, true
<1>9. UNION {found(n) : n \in DOMAIN chain} =
        {v \in ToSet(chain) \X Advisories \X Contents : true(v)}
  BY <1>5, <1>7, <1>8
<1> QED
  BY <1>1, <1>3, <1>6, <1>9 DEF true

LEMMA FoundInHistory ==
  ASSUME TypeOK, Sound
  PROVE  HistoryFound
<1>1. Newest # 0 => Newest \in 1 .. Len(commits)
  BY DEF Newest, TypeOK
<1>2. Newest # 0 => \A previous \in 1 .. Newest :
        LET scan == ScanChanges(Newest, previous) IN
        /\ scan.baseline = ~Linearly(previous, Newest)
        /\ ~scan.baseline =>
             scan.paths = {p \in Paths : \E i \in ToSet(Chain(Newest, previous)) :
                             TreeAt(i)[p] # TreeAt(First(i))[p]}
  BY <1>1, ScanFinds DEF Newest
<1>3. Newest # 0 => \A since \in 0 .. Newest :
        CollectVersions(Newest, since) =
          {v \in ToSet(Chain(Newest, since)) \X Advisories \X Contents :
             /\ TreeAt(v[1])[v[2]] = v[3]
             /\ TreeAt(First(v[1]))[v[2]] # v[3]}
  BY <1>1, VersionsFind DEF Newest
<1> QED
  BY <1>2, <1>3 DEF HistoryFound, ChangesFound, VersionsFound

-----------------------------------------------------------------------------
(* Every history is sound *)

\* What has been staged completely collides with nothing.
LEMMA PartialApart ==
  ASSUME NEW t, Apart(t), NEW g, Files(g.files) \subseteq Paths,
         \A p, q \in Files(g.files) : p \notin Collides[q]
  PROVE  Apart(Partial(t, g, Files(g.files)))
<1> DEFINE s == Files(g.files)
<1>1. PICK u : u = Partial(t, g, s)
  OBVIOUS
<1> SUFFICES ASSUME NEW p \in Files(u), NEW q \in Files(u), IsStrictPrefix(p, q) PROVE FALSE
  BY <1>1 DEF Apart
<1>2. p \in Paths /\ q \in Paths /\ u[p] # None /\ u[q] # None
  BY DEF Files, Repo!Files
<1>3. q \in Collides[p] /\ p \in Collides[q]
  BY <1>2, TreesAssumption, PathsAssumption
<1>4. \A r \in Paths : u[r] # None => r \in s \/ ((\A x \in s : r \notin Collides[x]) /\ u[r] = t[r])
  BY <1>1 DEF Partial
<1>5. p \notin s /\ q \notin s
  BY <1>2, <1>3, <1>4
<1>6. u[p] = t[p] /\ u[q] = t[q]
  BY <1>2, <1>4, <1>5
<1>7. p \in Files(t) /\ q \in Files(t)
  BY <1>2, <1>6 DEF Files, Repo!Files
<1> QED
  BY <1>7 DEF Apart

\* A new commit with a sound tree and older parents.
LEMMA SoundOneMore ==
  ASSUME TypeOK, Sound, NEW c \in Repo!Commit, commits' = Append(commits, c), Apart(c.tree),
         \A n \in DOMAIN c.parents : c.parents[n] \in 1 .. Len(commits)
  PROVE  Sound'
<1>1. /\ Len(commits') = Len(commits) + 1 /\ Len(commits) \in Nat
      /\ \A i \in Nat : i = Len(commits) + 1 => TreeAt(i)' = c.tree
      /\ commits'[Len(commits')] = c
      /\ \A i \in 0 .. Len(commits) : TreeAt(i)' = TreeAt(i)
      /\ \A i \in 1 .. Len(commits) : commits'[i] = commits[i]
  BY TreesKept DEF TypeOK
<1> SUFFICES ASSUME NEW i \in 1 .. Len(commits')
             PROVE  /\ Apart(TreeAt(i)')
                    /\ \A n \in DOMAIN commits'[i].parents : commits'[i].parents[n] \in 1 .. i - 1
  BY DEF Sound, Apart, Files, Repo!Files
<1>2. CASE i = Len(commits) + 1
  BY <1>1, <1>2
<1>3. CASE i # Len(commits) + 1
  <2>1. i \in 1 .. Len(commits) /\ i \in 0 .. Len(commits)
    BY <1>1, <1>3
  <2> QED
    BY <1>1, <2>1 DEF Sound
<1> QED
  BY <1>2, <1>3

LEMMA SoundInit ==
  ASSUME Init
  PROVE  Sound
<1>1. commits \in Histories
  BY DEF Init, Repo!Init
<1>2. commits \in Seq(Repo!Commit) /\ DOMAIN commits = 1 .. Len(commits) /\ Len(commits) \in Nat
  BY <1>1, HistoriesAssumption, LenProperties
<1>3. \A i \in 1 .. Len(commits) : TreeAt(i) = commits[i].tree
  BY <1>2 DEF TreeAt, Repo!TreeAt
<1> QED
  BY <1>1, <1>2, <1>3, HistoriesAssumption, TreesAssumption DEF Sound

LEMMA SoundStep ==
  ASSUME TypeOK, Sound, Separate, WriterInv, [Next]_vars
  PROVE  Sound'
<1>1. CASE UNCHANGED commits
  BY <1>1 DEF Sound, Apart, TreeAt, Repo!TreeAt, Files, Repo!Files
<1>2. CASE Publish
  <2>1. step = "publish" /\ staged = Collected /\ base \in 0 .. Len(commits)
    BY <1>2 DEF Publish, WriterInv, TypeOK
  <2>2. index = Partial(TreeAt(base), scratch, Files(scratch.files))
    BY <2>1 DEF WriterInv, Collected
  <2>3. index \in Repo!Tree
    BY <2>1, <2>2, CommitTrees, PartialType DEF TypeOK, Collected
  <2>4. Apart(TreeAt(base))
    BY <2>1, CommitTrees
  <2>5. Apart(index)
    <3>1. Files(scratch.files) \subseteq Paths
      BY DEF Files, Repo!Files
    <3> QED
      BY <2>2, <2>4, <3>1, PartialApart DEF Separate, Collected
  <2>6. NewCommit \in Repo!Commit /\ commits' = Append(commits, NewCommit)
    BY <1>2, <2>3, NewCommitType DEF Publish
  <2>7. \A n \in DOMAIN NewCommit.parents : NewCommit.parents[n] \in 1 .. Len(commits)
    BY <2>1 DEF NewCommit, Repo!Parents, TypeOK
  <2>8. NewCommit.tree = index
    BY DEF NewCommit
  <2> QED
    BY <2>5, <2>6, <2>7, <2>8, SoundOneMore
<1>3. CASE Push
  <2>1. PICK b \in Branches, t \in Pushes, merged \in {0} \cup live :
          \E parents \in {<<>>, Repo!Parents(refs[b]) \o Repo!Parents(merged)} :
            commits' = Append(commits, [tree |-> t, parents |-> parents, by |-> "other"])
    BY <1>3 DEF Push
  <2>2. PICK parents \in {<<>>, Repo!Parents(refs[b]) \o Repo!Parents(merged)} :
          commits' = Append(commits, [tree |-> t, parents |-> parents, by |-> "other"])
    BY <2>1
  <2>3. [tree |-> t, parents |-> parents, by |-> "other"] \in Repo!Commit
    BY PushedType
  <2>4. Apart(t)
    BY TreesAssumption
  <2>5. \A i \in 0 .. Len(commits) : Repo!Parents(i) \in Seq(1 .. Len(commits))
    <3>1. <<>> \in Seq(1 .. Len(commits))
      OBVIOUS
    <3>2. \A i \in 0 .. Len(commits) : i # 0 => i \in 1 .. Len(commits)
      BY DEF TypeOK
    <3>3. \A i \in 1 .. Len(commits) : <<i>> \in Seq(1 .. Len(commits))
      OBVIOUS
    <3> QED
      BY <3>1, <3>2, <3>3 DEF Repo!Parents
  <2>6. refs[b] \in 0 .. Len(commits) /\ merged \in 0 .. Len(commits)
    BY DEF TypeOK
  <2>7. Repo!Parents(refs[b]) \o Repo!Parents(merged) \in Seq(1 .. Len(commits))
    BY <2>5, <2>6, ConcatProperties
  <2>8. parents \in Seq(1 .. Len(commits))
    <3>1. <<>> \in Seq(1 .. Len(commits))
      OBVIOUS
    <3> QED
      BY <2>7, <3>1
  <2>9. \A n \in DOMAIN parents : parents[n] \in 1 .. Len(commits)
    BY <2>8, LenProperties, ElementOfSeq
  <2>10. PICK c \in Repo!Commit : /\ c = [tree |-> t, parents |-> parents, by |-> "other"]
                                 /\ c.tree = t /\ c.parents = parents
    BY <2>3
  <2> QED
    BY <2>2, <2>4, <2>9, <2>10, SoundOneMore
<1> QED
  BY <1>1, <1>2, <1>3
     DEF Next, vars, Sync, Downloads, Maintain, PrepareFails, Prepare, WalkEnds, BeginStaging,
         StagingFails, Stage, BeginFlush, EndFlush, EndStaging, WriteTree, PublishFails, Cleanup,
         FetchContext, Fetch, Reset, SwitchHead, LoseScratch, Crash

\* In every history that syncs and pushes leave, an incremental scan reports
\* exactly the paths that changed since the checkpoint, or asks for a baseline
\* where there was a merge or a new root; and the versions recorded of an
\* advisory are its changes of content.  Neither the directories that are
\* skipped nor the comparisons that are remembered hide a change.
THEOREM HistoryAlwaysFound == Spec => []HistoryFound
<1>1. Init => Sound
  BY SoundInit
<1>2. Sound /\ IInv /\ [Next]_vars => Sound'
  BY SoundStep DEF IInv
<1>3. Sound /\ IInv => HistoryFound
  BY FoundInHistory DEF IInv
<1> QED
  BY <1>1, <1>2, <1>3, Invariance, PTL DEF Spec
=============================================================================
