-------------------------- MODULE ProcessingProofs --------------------------
(***************************************************************************)
(* What a completed pass publishes is complete, and what it shows of       *)
(* retrieval is the outcome of its own run, for every set of advisories,   *)
(* every history and every interleaving of interrupts.                     *)
(***************************************************************************)
EXTENDS Processing, TLAPS

-----------------------------------------------------------------------------
(* Typing of the operators *)

LEMMA InputsType ==
  ASSUME TypeOK, NEW i \in 1 .. head
  PROVE  /\ commits[i] \in Snapshot
         /\ commits[i].keys \in Keys
         /\ \A d \in Docs : Doc(d, i) \in Inputs \cup {None}
<1>1. commits[i] \in Snapshot
  BY DEF TypeOK, head
<1> QED
  BY <1>1 DEF Snapshot, Tree, Doc

LEMMA VersionsType ==
  ASSUME NEW i \in Nat, NEW j \in Nat
  PROVE  VersionsAfter(i, j) \subseteq Nat \X Docs
BY DEF VersionsAfter

LEMMA NewPassType ==
  ASSUME TypeOK, NEW force \in BOOLEAN, NEW downloaded \in SUBSET Docs,
         NEW failures \in FailureMap
  PROVE  NewPass(force, downloaded, failures) \in Pass
BY DEF TypeOK, NewPass, Pass

LEMMA FailuresRecorded ==
  ASSUME TypeOK
  PROVE  [d \in Failures |-> rows[d].error] \in FailureMap
<1>1. \A d \in Failures : rows[d].error \in Errors
  BY DEF TypeOK, Failures, Failed, Rows, Row
<1>2. [d \in Failures |-> rows[d].error] \in [Failures -> Errors]
  BY <1>1
<1>3. Failures \in SUBSET Docs
  BY DEF Failures
<1> QED
  BY <1>2, <1>3 DEF FailureMap

LEMMA IdlePassType == IdlePass \in Pass
<1>1. NoFailures \in [{} -> Errors]
  BY DEF NoFailures
<1>2. NoFailures \in FailureMap
  BY <1>1 DEF FailureMap
<1> QED
  BY <1>2, ProcessingAssumption DEF IdlePass, Pass, Policies

LEMMA SelectionType ==
  ASSUME TypeOK
  PROVE  /\ Full \in BOOLEAN
         /\ Baseline \in BOOLEAN
         /\ Selected \in SUBSET Docs
         /\ Removed \in SUBSET Docs
         /\ ChangedHistory \in SUBSET Docs
         /\ ~Unborn => HeadFingerprint \in Fingerprint
<1>1. Full \in BOOLEAN /\ Baseline \in BOOLEAN
  BY DEF TypeOK, Pass, Full, Baseline, Reachable
<1>2. Selected \in SUBSET Docs
  BY DEF Selected, Changes, Touched, Recovered, Failures, Present
<1>3. ChangedHistory \in SUBSET Docs
  BY DEF ChangedHistory, Rewritten
<1>4. Removed \in SUBSET Docs
  BY <1>3 DEF Removed
<1>5. ASSUME ~Unborn
      PROVE  HeadFingerprint \in Fingerprint
  <2>1. head \in 1 .. head
    BY <1>5 DEF TypeOK, Unborn, head
  <2>2. commits[head].keys \in Keys
    BY <2>1, InputsType
  <2> QED
    BY <2>2 DEF TypeOK, Pass, HeadFingerprint, Fingerprint
<1> QED
  BY <1>1, <1>2, <1>3, <1>4, <1>5

-----------------------------------------------------------------------------
(* Type correctness *)

LEMMA TypeInit == Init => TypeOK
<1> SUFFICES ASSUME Init PROVE TypeOK
  OBVIOUS
<1>1. /\ root \in 1 .. MaxCommits /\ policy \in Policies
      /\ versions \subseteq Nat \X Docs /\ pc \in Steps /\ pass \in Pass
  BY ProcessingAssumption, IdlePassType DEF Init, Policies, Steps
<1>2. NoRows \in Rows
  BY DEF NoRows, Rows
<1>3. CASE Fresh
  BY <1>1, <1>2, <1>3, ProcessingAssumption DEF Fresh, Init, TypeOK, AfterSelection, head
<1>4. CASE Upgraded
  <2>1. PICK s \in Snapshot :
          /\ commits = <<s>>
          /\ checkpoint = [commit |-> 1, dirty |-> FALSE,
                           fingerprint |-> [policy |-> 0, keys |-> s.keys]]
          /\ rows = [d \in Docs |->
                      IF s.docs[d] = None THEN None
                      ELSE [input |-> s.docs[d], error |-> None,
                            under |-> [policy |-> 0, keys |-> s.keys]]]
    BY <1>4 DEF Upgraded
  <2>2. [policy |-> 0, keys |-> s.keys] \in Fingerprint
    BY ProcessingAssumption DEF Snapshot, Fingerprint, Policies
  <2>3. checkpoint \in Checkpoint
    BY <2>1, <2>2 DEF Checkpoint
  <2>4. rows \in Rows
    BY <2>1, <2>2 DEF Rows, Row, Snapshot, Tree
  <2>5. commits \in Seq(Snapshot) /\ head <= MaxCommits
    BY <2>1, ProcessingAssumption DEF head
  <2> QED
    BY <1>1, <1>4, <2>3, <2>4, <2>5 DEF Init, TypeOK, AfterSelection, Upgraded
<1> QED
  BY <1>3, <1>4 DEF Init

LEMMA DirtiedType ==
  ASSUME NEW c \in Checkpoint \cup {None}
  PROVE  Dirtied(c) \in Checkpoint \cup {None}
BY DEF Dirtied, Checkpoint

\* A step that appends a snapshot keeps the history well typed.
LEMMA AppendType ==
  ASSUME TypeOK, head < MaxCommits, NEW s \in Snapshot,
         commits' = Append(commits, s)
  PROVE  commits' \in Seq(Snapshot) /\ head' <= MaxCommits /\ head' = head + 1
BY ProcessingAssumption DEF TypeOK, head

\* The state of a job that has ended.
LEMMA EndedType ==
  ASSUME TypeOK, pc' = "idle", pass' = IdlePass,
         UNCHANGED <<commits, root, policy, rows, versions, summary>>,
         checkpoint' \in Checkpoint \cup {None}
  PROVE  TypeOK'
BY IdlePassType DEF TypeOK, Steps, AfterSelection, head

LEMMA TypeStep == TypeOK /\ [Next]_vars => TypeOK'
<1> SUFFICES ASSUME TypeOK, [Next]_vars PROVE TypeOK'
  OBVIOUS
<1>0. head \in Nat /\ root \in Nat \ {0}
  BY DEF TypeOK, head
<1>1. CASE Reconfigure
  BY <1>1 DEF Reconfigure, TypeOK, Reachable, durable, head
<1>2. ASSUME NEW d \in Docs, ExternalRemoval(d)
      PROVE  TypeOK'
  <2>1. head \in 1 .. head
    BY <1>0, <1>2 DEF ExternalRemoval, Unborn
  <2>2. [commits[head] EXCEPT !.docs[d] = None] \in Snapshot
    BY <2>1, InputsType DEF Snapshot, Tree
  <2>3. commits' \in Seq(Snapshot) /\ head' <= MaxCommits /\ head' = head + 1
    BY <1>2, <2>2, AppendType DEF ExternalRemoval
  <2> QED
    BY <1>0, <1>2, <2>3 DEF ExternalRemoval, TypeOK, Reachable, durable
<1>3. CASE RemoveRepository
  BY <1>3, ProcessingAssumption
  DEF RemoveRepository, TypeOK, AfterSelection, durable, head
<1>4. ASSUME NEW downloaded \in SUBSET Docs, NEW failures \in FailureMap,
             NEW tree \in Tree, NEW keys \in Keys,
             StartSync(downloaded, failures, tree, keys)
      PROVE  TypeOK'
  <2>1. [docs |-> tree, keys |-> keys] \in Snapshot
    BY DEF Snapshot
  <2>2. commits' \in Seq(Snapshot) /\ head' <= MaxCommits
    <3>1. CASE UNCHANGED commits
      BY <3>1 DEF TypeOK, head
    <3>2. CASE head < MaxCommits /\ commits' = Append(commits, [docs |-> tree, keys |-> keys])
      BY <2>1, <3>2, AppendType
    <3> QED
      BY <1>4, <3>1, <3>2 DEF StartSync
  <2>3. pass' \in Pass
    BY <1>4, NewPassType DEF StartSync
  <2> QED
    BY <1>4, <2>2, <2>3 DEF StartSync, TypeOK, durable, Steps, AfterSelection
<1>5. CASE Revalidate
  <2>1. pass' \in Pass
    BY <1>5, NewPassType, FailuresRecorded DEF Revalidate
  <2> QED
    BY <1>5, <2>1 DEF Revalidate, TypeOK, durable, Steps, AfterSelection, head
<1>6. CASE LoadCheckpoint
  <2>1. pass' \in Pass
    BY <1>6 DEF LoadCheckpoint, TypeOK, Pass
  <2> QED
    BY <1>6, <2>1 DEF LoadCheckpoint, TypeOK, Steps, AfterSelection, head
<1>7. CASE SelectInputs
  <2>1. (\/ pass.previous # None /\ pass.previous.dirty
         \/ Full \/ Selected # {} \/ Removed # {}) \in BOOLEAN
    OBVIOUS
  <2>2. HeadFingerprint \in Fingerprint
    BY <1>7, SelectionType DEF SelectInputs
  <2>3. pass' \in Pass
    BY <1>0, <1>7, <2>1, <2>2, SelectionType DEF SelectInputs, TypeOK, Pass
  <2>4. /\ pass'.commit \in root .. head
        /\ pass'.fingerprint \in Fingerprint
        /\ pass'.baseline \/ Reachable(pass'.previous)
    <3>1. /\ pass'.commit = head /\ pass'.fingerprint = HeadFingerprint
          /\ pass'.baseline = Baseline /\ pass'.previous = pass.previous
      BY <1>7 DEF SelectInputs, TypeOK, Pass
    <3>2. head \in root .. head
      BY <1>0, <1>7 DEF SelectInputs, Unborn
    <3>3. pass'.baseline \/ Reachable(pass'.previous)
      BY <3>1, SelectionType DEF Baseline
    <3> QED
      BY <2>2, <3>1, <3>2, <3>3
  <2> QED
    BY <1>7, <2>3, <2>4
    DEF SelectInputs, TypeOK, Reachable, Steps, durable, head
<1>8. CASE SelectionFails
  BY <1>8, EndedType DEF SelectionFails, TypeOK, durable
<1>9. CASE DeleteAllRows
  BY <1>9
  DEF DeleteAllRows, AfterClean, NoRows, Rows, TypeOK, Reachable, Steps, AfterSelection, head
<1>10. ASSUME NEW d \in Docs, DeleteRow(d)
       PROVE  TypeOK'
  <2>1. checkpoint' \in Checkpoint \cup {None}
    BY <1>10, DirtiedType DEF DeleteRow, TypeOK
  <2>2. rows' \in Rows
    BY <1>10 DEF DeleteRow, TypeOK, Rows
  <2>3. pass' \in Pass /\ pass' = [pass EXCEPT !.deleted = @ \ {d}]
    BY <1>10 DEF DeleteRow, TypeOK, Pass
  <2>4. pc \in AfterSelection /\ pc' \in Steps
    BY <1>10 DEF DeleteRow, AfterClean, Steps, AfterSelection
  <2>5. UNCHANGED <<commits, root, policy, versions, summary>>
    BY <1>10 DEF DeleteRow
  <2> QED
    BY <1>0, <2>1, <2>2, <2>3, <2>4, <2>5 DEF TypeOK, Pass, Reachable, head
<1>11. ASSUME NEW d \in Docs, ValidateOne(d)
       PROVE  TypeOK'
  <2>1. checkpoint' \in Checkpoint \cup {None}
    BY <1>11, DirtiedType DEF ValidateOne, TypeOK
  <2>2. pc \in AfterSelection /\ pc' \in Steps
    BY <1>11 DEF ValidateOne, Steps, AfterSelection
  <2>3. [input |-> Doc(d, pass.commit), under |-> pass.fingerprint, error |-> None] \in Row
    <3>1. pass.commit \in 1 .. head /\ pass.fingerprint \in Fingerprint
      BY <1>0, <2>2 DEF TypeOK
    <3> QED
      BY <3>1, InputsType DEF Row
  <2>4. rows' \in Rows
    BY <1>11, <2>3 DEF ValidateOne, TypeOK, Rows
  <2>5. pass' \in Pass /\ pass' = [pass EXCEPT !.todo = @ \ {d}]
    BY <1>11 DEF ValidateOne, TypeOK, Pass
  <2>6. UNCHANGED <<commits, root, policy, versions, summary>>
    BY <1>11 DEF ValidateOne
  <2> QED
    BY <1>0, <2>1, <2>2, <2>4, <2>5, <2>6 DEF TypeOK, Pass, Reachable, head
<1>12. CASE RecordVersions
  <2>1. pc \in AfterSelection
    BY <1>12 DEF RecordVersions, Steps, AfterSelection
  <2>2. root - 1 \in Nat
    BY <1>0
  <2>3. pass.baseline \/ pass.previous.commit \in Nat
    BY <2>1 DEF TypeOK, Pass, Checkpoint, Reachable
  <2>4. History \subseteq Nat \X Docs
    BY <1>0, <2>2, VersionsType DEF History
  <2>5. pass.baseline \/ VersionsAfter(pass.previous.commit, head) \subseteq Nat \X Docs
    BY <1>0, <2>3, VersionsType
  <2>6. versions' \subseteq Nat \X Docs
    BY <1>12, <2>4, <2>5 DEF RecordVersions, TypeOK
  <2> QED
    BY <1>12, <2>1, <2>6 DEF RecordVersions, TypeOK, Reachable, Steps, AfterSelection, head
<1>13. CASE SaveRetrievalErrors
  <2>1. checkpoint' \in Checkpoint \cup {None}
    BY <1>13, DirtiedType DEF SaveRetrievalErrors, TypeOK
  <2>2. \A d \in DOMAIN pass.failures : pass.failures[d] \in Errors
    BY DEF TypeOK, Pass, FailureMap
  <2>3. ASSUME NEW d \in DOMAIN pass.failures, d \in Docs
        PROVE  (IF rows[d] = None
                THEN [input |-> None, under |-> None, error |-> pass.failures[d]]
                ELSE [rows[d] EXCEPT !.error = pass.failures[d]]) \in Row
    BY <2>2, <2>3 DEF TypeOK, Rows, Row
  <2>4. rows' \in Rows
    BY <1>13, <2>3 DEF SaveRetrievalErrors, TypeOK, Rows
  <2>5. pass' \in Pass
    BY <1>13 DEF SaveRetrievalErrors, TypeOK, Pass
  <2> QED
    BY <1>13, <2>1, <2>4, <2>5
    DEF SaveRetrievalErrors, TypeOK, Reachable, Steps, AfterSelection, Pass, head
<1>14. CASE SaveSummary
  BY <1>14 DEF SaveSummary, TypeOK, Reachable, Steps, AfterSelection, head
<1>15. CASE Publish
  <2>1. checkpoint' \in Checkpoint
    BY <1>15 DEF Publish, TypeOK, Pass, Checkpoint, Steps, AfterSelection
  <2> QED
    BY <1>15, <2>1, EndedType DEF Publish
<1>16. CASE Interrupt
  BY <1>16, EndedType DEF Interrupt, TypeOK, durable
<1>17. CASE UNCHANGED vars
  BY <1>17 DEF vars, TypeOK, Reachable, head
<1> QED
  BY <1>1, <1>2, <1>3, <1>4, <1>5, <1>6, <1>7, <1>8, <1>9, <1>10, <1>11, <1>12,
     <1>13, <1>14, <1>15, <1>16, <1>17
  DEF Next, Environment, Sync, Work

\* Every state a job and its environment can reach is well typed.
THEOREM TypeCorrect == Spec => []TypeOK
BY TypeInit, TypeStep, PTL DEF Spec

-----------------------------------------------------------------------------
(* The inductive invariant *)

\* What the history scan relies on: an advisory no commit in between touches is
\* the same at both ends, and so is the JSON no commit in between rewrites.
Untouched ==
  \A j \in 1 .. head : \A i \in 1 .. j : \A d \in Docs :
    /\ d \notin Touched(i, j) => Doc(d, j) = Doc(d, i)
    /\ d \notin Rewritten(i, j) => Text(Doc(d, j)) = Text(Doc(d, i))

\* d's stored result is that of commit i, or the scan from HEAD to i finds d.
Accounted(d, i) == RowMatches(d, i) \/ d \in Touched(i, head)

\* While a pass has not published, the stored checkpoint is either gone or still
\* the one it selected against.
CheckpointOK ==
  /\ checkpoint # None => checkpoint.commit \in 1 .. head
  /\ pc \in AfterSelection \cup {"select"} =>
       /\ pass.previous # None => pass.previous.commit \in 1 .. head
       /\ checkpoint # None => /\ pass.previous # None
                              /\ pass.previous.commit = checkpoint.commit
  /\ pc \in AfterSelection =>
       IF pass.baseline THEN ~Reachable(pass.previous)
       ELSE pass.previous.commit <= pass.commit

\* What is still to do before the stored results are those of the selected commit.
Pending(d) ==
  \/ d \in pass.todo
  \/ d \in pass.deleted
  \/ pc = "clean" /\ pass.baseline

PassOK ==
  /\ pc = "select" /\ Reachable(pass.previous) =>
       \A d \in Docs : Accounted(d, pass.previous.commit)
  /\ pc \in AfterSelection =>
       /\ \A d \in Docs : Pending(d) \/ RowMatches(d, pass.commit)
       /\ \A d \in pass.deleted : Doc(d, pass.commit) = None
       /\ pc \notin {"clean", "validate"} => pass.todo = {}
       /\ pc # "clean" \/ pass.baseline => pass.deleted = {}
       /\ pc = "clean" /\ pass.baseline => pass.todo = Present(pass.commit)

IInv == TypeOK /\ Untouched /\ CheckpointOK /\ PassOK /\ NothingForgotten

-----------------------------------------------------------------------------
(* History only grows *)

LEMMA CommitsStep ==
  ASSUME TypeOK, [Next]_vars
  PROVE  UNCHANGED commits \/ \E s \in Snapshot : commits' = Append(commits, s)
<1>1. ASSUME NEW d \in Docs, ExternalRemoval(d)
      PROVE  \E s \in Snapshot : commits' = Append(commits, s)
  <2>1. head \in 1 .. head
    BY <1>1 DEF ExternalRemoval, Unborn, TypeOK, head
  <2>2. [commits[head] EXCEPT !.docs[d] = None] \in Snapshot
    BY <2>1, InputsType DEF Snapshot, Tree
  <2> QED
    BY <1>1, <2>2 DEF ExternalRemoval
<1>2. ASSUME NEW downloaded \in SUBSET Docs, NEW failures \in FailureMap,
             NEW tree \in Tree, NEW keys \in Keys,
             StartSync(downloaded, failures, tree, keys)
      PROVE  UNCHANGED commits \/ \E s \in Snapshot : commits' = Append(commits, s)
  <2>1. [docs |-> tree, keys |-> keys] \in Snapshot
    BY DEF Snapshot
  <2> QED
    BY <1>2, <2>1 DEF StartSync
<1> QED
  BY <1>1, <1>2
  DEF Next, Environment, Sync, Work, vars, durable, Reconfigure, RemoveRepository,
      Revalidate, LoadCheckpoint, SelectInputs, SelectionFails, DeleteAllRows,
      DeleteRow, ValidateOne, RecordVersions, SaveRetrievalErrors, SaveSummary,
      Publish, Interrupt

\* What was committed stays, and what a scan found a later scan finds as well.
LEMMA Growth ==
  ASSUME TypeOK, [Next]_vars
  PROVE  /\ head \in Nat /\ head' \in Nat /\ head <= head' /\ head' <= head + 1
         /\ \A i \in 1 .. head : commits'[i] = commits[i]
<1>1. CASE UNCHANGED commits
  BY <1>1 DEF TypeOK, head
<1>2. ASSUME NEW s \in Snapshot, commits' = Append(commits, s)
      PROVE  /\ head \in Nat /\ head' = head + 1
             /\ \A i \in 1 .. head : commits'[i] = commits[i]
  BY <1>2 DEF TypeOK, head
<1> QED
  BY <1>1, <1>2, CommitsStep

LEMMA TouchedGrows ==
  ASSUME TypeOK, [Next]_vars, NEW i \in 1 .. head, NEW j \in i .. head,
         NEW l \in j .. head', NEW d \in Docs
  PROVE  /\ d \in Touched(i, j) => d \in Touched(i, l)'
         /\ d \in Rewritten(i, j) => d \in Rewritten(i, l)'
<1>1. head \in Nat /\ head' \in Nat /\ head <= head'
  BY Growth
<1>2. \A k \in i + 1 .. j : Doc(d, k)' = Doc(d, k) /\ Doc(d, k - 1)' = Doc(d, k - 1)
  BY <1>1, Growth DEF Doc
<1>3. ASSUME d \in Touched(i, j)
      PROVE  d \in Touched(i, l)'
  BY <1>1, <1>2, <1>3 DEF Touched
<1>4. ASSUME d \in Rewritten(i, j)
      PROVE  d \in Rewritten(i, l)'
  BY <1>1, <1>2, <1>4 DEF Rewritten
<1> QED
  BY <1>3, <1>4

LEMMA UntouchedStep ==
  ASSUME TypeOK, Untouched, [Next]_vars
  PROVE  Untouched'
<1>0. /\ head \in Nat /\ head' \in Nat /\ head <= head' /\ head' <= head + 1
      /\ \A k \in 1 .. head : \A d : Doc(d, k)' = Doc(d, k)
  BY Growth DEF Doc
<1> SUFFICES ASSUME NEW j \in 1 .. head', NEW i \in 1 .. j, NEW d \in Docs
             PROVE  /\ d \notin Touched(i, j)' => Doc(d, j)' = Doc(d, i)'
                    /\ d \notin Rewritten(i, j)' => Text(Doc(d, j))' = Text(Doc(d, i))'
  BY DEF Untouched
<1>1. CASE j <= head
  <2>1. /\ i \in 1 .. head /\ j \in i .. head /\ j \in j .. head' /\ j \in 1 .. head
    BY <1>0, <1>1
  <2>2. /\ d \in Touched(i, j) => d \in Touched(i, j)'
        /\ d \in Rewritten(i, j) => d \in Rewritten(i, j)'
    BY <2>1, TouchedGrows
  <2>3. Doc(d, j)' = Doc(d, j) /\ Doc(d, i)' = Doc(d, i)
    BY <1>0, <2>1
  <2> QED
    BY <2>1, <2>2, <2>3 DEF Untouched, Text
<1>2. CASE i = j
  BY <1>2
<1>3. CASE j = head + 1 /\ i <= head
  <2>1. /\ i \in 1 .. head /\ head \in i .. head /\ j \in head .. head' /\ head \in 1 .. head
    BY <1>0, <1>3
  <2>2. /\ d \in Touched(i, head) => d \in Touched(i, j)'
        /\ d \in Rewritten(i, head) => d \in Rewritten(i, j)'
    BY <2>1, TouchedGrows
  <2>3. /\ d \notin Touched(i, head) => Doc(d, head) = Doc(d, i)
        /\ d \notin Rewritten(i, head) => Text(Doc(d, head)) = Text(Doc(d, i))
    BY <2>1 DEF Untouched
  <2>4. j \in i + 1 .. j /\ j - 1 = head
    BY <1>0, <1>3
  <2>5. /\ d \notin Touched(i, j)' => Doc(d, j)' = Doc(d, j - 1)'
        /\ d \notin Rewritten(i, j)' => Text(Doc(d, j))' = Text(Doc(d, j - 1))'
    BY <2>4 DEF Touched, Rewritten
  <2> QED
    BY <1>0, <2>1, <2>2, <2>3, <2>4, <2>5 DEF Text
<1> QED
  BY <1>0, <1>1, <1>2, <1>3

\* A row computed from a later commit than i is the result of commit i too, unless
\* the scan back to i finds the advisory.
LEMMA LaterResult ==
  ASSUME TypeOK, Untouched, NEW d \in Docs, NEW row,
         NEW j \in 1 .. head, NEW i \in 1 .. j, ResultOf(row, Doc(d, j))
  PROVE  ResultOf(row, Doc(d, i)) \/ d \in Touched(i, head)
<1>1. head \in Nat
  BY DEF TypeOK, head
<1>2. d \in Touched(i, j) => d \in Touched(i, head)
  BY <1>1 DEF Touched
<1>3. d \notin Touched(i, j) => Doc(d, j) = Doc(d, i)
  BY <1>1 DEF Untouched
<1> QED
  BY <1>2, <1>3

-----------------------------------------------------------------------------
(* What the steps of a pass leave alone *)

LEMMA DirtiedKeeps ==
  ASSUME NEW c \in Checkpoint \cup {None}, Dirtied(c) # None
  PROVE  c # None /\ Dirtied(c).commit = c.commit
BY DEF Dirtied, Checkpoint

\* The steps between the selection and the publication.
MidPass ==
  \/ DeleteAllRows
  \/ \E d \in Docs : DeleteRow(d)
  \/ \E d \in Docs : ValidateOne(d)
  \/ RecordVersions
  \/ SaveRetrievalErrors
  \/ SaveSummary

LEMMA MidPassKeeps ==
  ASSUME TypeOK, MidPass
  PROVE  /\ pc \in AfterSelection /\ pc' \in AfterSelection
         /\ UNCHANGED <<commits, root>>
         /\ pass'.previous = pass.previous
         /\ pass'.commit = pass.commit
         /\ pass'.baseline = pass.baseline
         /\ checkpoint' # None => /\ checkpoint # None
                                 /\ checkpoint'.commit = checkpoint.commit
<1>1. CASE DeleteAllRows
  BY <1>1 DEF DeleteAllRows, AfterClean, AfterSelection, Steps
<1>2. ASSUME NEW d \in Docs, DeleteRow(d)
      PROVE  /\ pc \in AfterSelection /\ pc' \in AfterSelection
             /\ UNCHANGED <<commits, root>>
             /\ pass' = [pass EXCEPT !.deleted = @ \ {d}]
             /\ checkpoint' # None => /\ checkpoint # None
                                     /\ checkpoint'.commit = checkpoint.commit
  BY <1>2, DirtiedKeeps DEF TypeOK, DeleteRow, AfterClean, AfterSelection, Steps
<1>3. ASSUME NEW d \in Docs, ValidateOne(d)
      PROVE  /\ pc \in AfterSelection /\ pc' \in AfterSelection
             /\ UNCHANGED <<commits, root>>
             /\ pass' = [pass EXCEPT !.todo = @ \ {d}]
             /\ checkpoint' # None => /\ checkpoint # None
                                     /\ checkpoint'.commit = checkpoint.commit
  BY <1>3, DirtiedKeeps DEF TypeOK, ValidateOne, AfterSelection, Steps
<1>4. CASE RecordVersions
  BY <1>4 DEF RecordVersions, AfterSelection, Steps
<1>5. CASE SaveRetrievalErrors
  <2>1. /\ pc \in AfterSelection /\ pc' \in AfterSelection
        /\ UNCHANGED <<commits, root>>
        /\ pass'.previous = pass.previous
        /\ pass'.commit = pass.commit
        /\ pass'.baseline = pass.baseline
    BY <1>5 DEF SaveRetrievalErrors, AfterSelection, Steps, TypeOK, Pass
  <2>2. checkpoint' = Dirtied(checkpoint) \/ UNCHANGED checkpoint
    BY <1>5 DEF SaveRetrievalErrors
  <2> QED
    BY <2>1, <2>2, DirtiedKeeps DEF TypeOK
<1>6. CASE SaveSummary
  BY <1>6 DEF SaveSummary, AfterSelection, Steps
<1> QED
  BY <1>1, <1>2, <1>3, <1>4, <1>5, <1>6 DEF MidPass, TypeOK, Pass

\* Every other step leaves the rows alone; it ends a pass, starts one, or happens
\* outside.
LEMMA OtherSteps ==
  ASSUME TypeOK, [Next]_vars, ~MidPass, ~Publish
  PROVE  /\ UNCHANGED rows
         /\ checkpoint' = checkpoint \/ checkpoint' = None
         /\ root' \in Nat /\ root <= root'
         /\ \/ UNCHANGED <<root, pc, pass>>
            \/ LoadCheckpoint
            \/ SelectInputs
            \/ pc' \in {"idle", "load"}
<1>1. root \in Nat /\ head \in Nat
  BY DEF TypeOK, head
<1>2. CASE RemoveRepository
  BY <1>1, <1>2 DEF RemoveRepository, Unborn, durable
<1>3. CASE Sync
  BY <1>1, <1>3 DEF Sync, StartSync, durable
<1>4. CASE Reconfigure
  BY <1>1, <1>4 DEF Reconfigure, durable
<1>5. CASE \E d \in Docs : ExternalRemoval(d)
  BY <1>1, <1>5 DEF ExternalRemoval, durable
<1>6. CASE LoadCheckpoint
  BY <1>1, <1>6 DEF LoadCheckpoint
<1>7. CASE SelectInputs
  <2>1. UNCHANGED <<root, rows, checkpoint>>
    BY <1>7 DEF SelectInputs, durable
  <2> QED
    BY <1>1, <1>7, <2>1
<1>8. CASE SelectionFails
  BY <1>1, <1>8 DEF SelectionFails, durable
<1>9. CASE Revalidate
  BY <1>1, <1>9 DEF Revalidate, durable
<1>10. CASE Interrupt
  BY <1>1, <1>10 DEF Interrupt, durable
<1>11. CASE UNCHANGED vars
  BY <1>1, <1>11 DEF vars
<1> QED
  BY <1>2, <1>3, <1>4, <1>5, <1>6, <1>7, <1>8, <1>9, <1>10, <1>11
  DEF Next, Environment, Work, MidPass

-----------------------------------------------------------------------------
(* One step preserves the invariant *)

LEMMA CheckpointStep ==
  ASSUME TypeOK, TypeOK', CheckpointOK, [Next]_vars
  PROVE  CheckpointOK'
<1>0. /\ head \in Nat /\ head' \in Nat /\ head <= head' /\ root \in Nat \ {0}
      /\ 1 .. head \subseteq 1 .. head'
  BY Growth DEF TypeOK
<1>1. CASE MidPass
  BY <1>0, <1>1, MidPassKeeps DEF CheckpointOK, Reachable
<1>2. CASE Publish
  <2>1. pc' = "idle" /\ checkpoint'.commit = pass.commit /\ pass.commit \in root .. head
    BY <1>2 DEF Publish, TypeOK, AfterSelection, Steps
  <2> QED
    BY <1>0, <2>1 DEF CheckpointOK, AfterSelection
<1>3. CASE ~MidPass /\ ~Publish
  <2>1. checkpoint' # None => checkpoint # None /\ checkpoint'.commit = checkpoint.commit
    BY <1>3, OtherSteps
  <2>2. CASE UNCHANGED <<root, pc, pass>>
    BY <1>0, <2>1, <2>2 DEF CheckpointOK, Reachable
  <2>3. CASE LoadCheckpoint
    <3>1. pass'.previous = checkpoint /\ pc' = "select"
      BY <2>3 DEF LoadCheckpoint, TypeOK, Pass
    <3> QED
      BY <1>0, <2>1, <3>1 DEF CheckpointOK, AfterSelection
  <2>4. CASE SelectInputs
    <3>1. /\ pc = "select" /\ UNCHANGED <<commits, root>> /\ pass'.commit = head
          /\ pass'.baseline = Baseline /\ pass'.previous = pass.previous
      BY <2>4 DEF SelectInputs, TypeOK, Pass
    <3>2. IF pass'.baseline THEN ~Reachable(pass'.previous)
          ELSE pass'.previous.commit <= pass'.commit
      <4>1. CASE Baseline
        BY <3>1, <4>1 DEF Baseline
      <4>2. CASE ~Baseline
        <5>1. pass.previous # None
          BY <4>2 DEF Baseline, Reachable
        <5>2. pass.previous.commit \in 1 .. head
          BY <3>1, <5>1 DEF CheckpointOK
        <5> QED
          BY <1>0, <3>1, <4>2, <5>2
      <4> QED
        BY <4>1, <4>2
    <3>3. Reachable(pass.previous)' <=> Reachable(pass'.previous)
      BY <3>1 DEF Reachable
    <3> QED
      BY <1>0, <2>1, <3>1, <3>2, <3>3 DEF CheckpointOK
  <2>5. CASE pc' \in {"idle", "load"}
    BY <1>0, <2>1, <2>5 DEF CheckpointOK, AfterSelection
  <2> QED
    BY <1>3, <2>2, <2>3, <2>4, <2>5, OtherSteps
<1> QED
  BY <1>1, <1>2, <1>3

\* As long as the rows stay, history can only account for more.
LEMMA AccountedKept ==
  ASSUME TypeOK, [Next]_vars, UNCHANGED rows,
         NEW c \in 1 .. head, NEW d \in Docs, Accounted(d, c)
  PROVE  Accounted(d, c)'
<1>1. /\ head \in Nat /\ head' \in Nat /\ head <= head'
      /\ \A k \in 1 .. head : commits'[k] = commits[k]
  BY Growth
<1>2. CASE RowMatches(d, c)
  BY <1>1, <1>2 DEF Accounted, RowMatches, Doc
<1>3. CASE d \in Touched(c, head)
  <2>1. PICK k \in c + 1 .. head : Doc(d, k) # Doc(d, k - 1)
    BY <1>3 DEF Touched
  <2>2. k \in c + 1 .. head' /\ commits'[k] = commits[k] /\ commits'[k - 1] = commits[k - 1]
    BY <1>1
  <2> QED
    BY <2>1, <2>2 DEF Accounted, Touched, Doc
<1> QED
  BY <1>2, <1>3 DEF Accounted

\* A validated row is a row.
LEMMA ValidatedResult ==
  ASSUME TypeOK, NEW d \in Docs, ValidateOne(d)
  PROVE  ResultOf(rows'[d], Doc(d, pass.commit))
<1>1. rows'[d] = [input |-> Doc(d, pass.commit), under |-> pass.fingerprint, error |-> None]
  BY DEF ValidateOne, TypeOK, Rows
<1>2. pass.commit \in 1 .. head /\ pass.fingerprint \in Fingerprint
  BY DEF ValidateOne, TypeOK, AfterSelection, Steps, head
<1>3. rows'[d] \in Row
  BY <1>1, <1>2, InputsType DEF Row
<1> QED
  BY <1>1, <1>3, NoneAssumption DEF ResultOf

\* Recording a retrieval failure does not touch what was validated.
LEMMA MarkingKeepsResult ==
  ASSUME TypeOK, SaveRetrievalErrors, NEW d \in Docs, NEW content,
         ResultOf(rows[d], content)
  PROVE  ResultOf(rows'[d], content)
<1>1. CASE rows'[d] = rows[d]
  BY <1>1
<1>2. CASE rows[d] = None /\ rows'[d] = [input |-> None, under |-> None,
                                        error |-> pass.failures[d]]
  BY <1>2 DEF ResultOf
<1>3. CASE rows[d] # None /\ d \in DOMAIN pass.failures
           /\ rows'[d] = [rows[d] EXCEPT !.error = pass.failures[d]]
  <2>1. rows[d] \in Row /\ pass.failures[d] \in Errors
    BY <1>3 DEF TypeOK, Rows, Pass, FailureMap
  <2>2. rows'[d] \in Row /\ rows'[d].input = rows[d].input
    BY <1>3, <2>1 DEF Row
  <2> QED
    BY <1>3, <2>2, NoneAssumption DEF ResultOf
<1> QED
  BY <1>1, <1>2, <1>3 DEF SaveRetrievalErrors

LEMMA NothingForgottenStep ==
  ASSUME IInv, [Next]_vars
  PROVE  NothingForgotten'
<1>0. /\ TypeOK /\ Untouched /\ CheckpointOK /\ PassOK /\ NothingForgotten
      /\ head \in Nat /\ root \in Nat \ {0}
  BY DEF IInv, TypeOK, head
<1> SUFFICES ASSUME Reachable(checkpoint)', NEW d \in Docs
             PROVE  Accounted(d, checkpoint.commit)'
  BY DEF NothingForgotten, Accounted
<1>1. CASE ~MidPass /\ ~Publish
  <2>1. /\ checkpoint # None /\ checkpoint' = checkpoint /\ UNCHANGED rows
        /\ root <= root' /\ root' \in Nat
    BY <1>0, <1>1, OtherSteps DEF Reachable
  <2>2. PICK c \in 1 .. head : c = checkpoint.commit
    BY <1>0, <2>1 DEF CheckpointOK
  <2>3. Reachable(checkpoint)
    BY <1>0, <2>1, <2>2 DEF Reachable
  <2>4. Accounted(d, c)
    BY <1>0, <2>2, <2>3 DEF NothingForgotten, Accounted
  <2>5. Accounted(d, c)'
    BY <1>0, <2>1, <2>4, AccountedKept
  <2> QED
    BY <2>1, <2>2, <2>5 DEF Accounted, RowMatches, Touched, Doc
<1>2. CASE Publish
  <2>1. /\ pc = "publish" /\ checkpoint'.commit = pass.commit
        /\ UNCHANGED <<commits, rows>>
    BY <1>2 DEF Publish
  <2>2. pass.todo = {} /\ pass.deleted = {}
    BY <1>0, <2>1 DEF PassOK, AfterSelection, Steps
  <2>3. RowMatches(d, pass.commit)
    BY <1>0, <2>1, <2>2 DEF PassOK, Pending, AfterSelection, Steps
  <2> QED
    BY <2>1, <2>3 DEF Accounted, RowMatches, Doc
<1>3. CASE MidPass
  <2>1. /\ pc \in AfterSelection /\ UNCHANGED <<commits, root>>
        /\ checkpoint # None /\ checkpoint'.commit = checkpoint.commit
    BY <1>0, <1>3, MidPassKeeps DEF Reachable
  <2>2. PICK c \in 1 .. head : c = checkpoint.commit
    BY <1>0, <2>1 DEF CheckpointOK
  <2>3. Reachable(checkpoint)
    BY <2>1 DEF Reachable
  <2>4. ResultOf(rows[d], Doc(d, c)) \/ d \in Touched(c, head)
    BY <1>0, <2>2, <2>3 DEF NothingForgotten, RowMatches
  <2>5. /\ ~pass.baseline
        /\ pass.commit \in 1 .. head /\ c \in 1 .. pass.commit
    BY <1>0, <2>1, <2>2, <2>3 DEF CheckpointOK, TypeOK, Reachable
  <2>6. ASSUME ResultOf(rows'[d], Doc(d, pass.commit))
        PROVE  ResultOf(rows'[d], Doc(d, c)) \/ d \in Touched(c, head)
    BY <1>0, <2>5, <2>6, LaterResult
  <2>7. ResultOf(rows'[d], Doc(d, c)) \/ d \in Touched(c, head)
    <3>1. CASE DeleteAllRows
      BY <2>5, <3>1 DEF DeleteAllRows
    <3>2. ASSUME NEW e \in Docs, DeleteRow(e)
          PROVE  ResultOf(rows'[d], Doc(d, c)) \/ d \in Touched(c, head)
      <4>1. CASE e = d
        <5>1. Doc(d, pass.commit) = None
          BY <1>0, <2>1, <3>2, <4>1 DEF DeleteRow, PassOK
        <5>2. rows'[d] = None
          BY <1>0, <3>2, <4>1 DEF DeleteRow, TypeOK, Rows
        <5> QED
          BY <2>6, <5>1, <5>2 DEF ResultOf
      <4>2. CASE e # d
        BY <1>0, <2>4, <3>2, <4>2 DEF DeleteRow, TypeOK, Rows
      <4> QED
        BY <4>1, <4>2
    <3>3. ASSUME NEW e \in Docs, ValidateOne(e)
          PROVE  ResultOf(rows'[d], Doc(d, c)) \/ d \in Touched(c, head)
      <4>1. CASE e = d
        BY <1>0, <2>6, <3>3, <4>1, ValidatedResult
      <4>2. CASE e # d
        BY <1>0, <2>4, <3>3, <4>2 DEF ValidateOne, TypeOK, Rows
      <4> QED
        BY <4>1, <4>2
    <3>4. CASE RecordVersions \/ SaveSummary
      BY <2>4, <3>4 DEF RecordVersions, SaveSummary
    <3>5. CASE SaveRetrievalErrors
      BY <1>0, <2>4, <3>5, MarkingKeepsResult
    <3> QED
      BY <1>3, <3>1, <3>2, <3>3, <3>4, <3>5 DEF MidPass
  <2> QED
    BY <2>1, <2>2, <2>7 DEF Accounted, RowMatches, Touched, Doc, head
<1> QED
  BY <1>1, <1>2, <1>3

\* What a selection leaves out needs no work.
LEMMA SelectionComplete ==
  ASSUME TypeOK, Untouched, CheckpointOK, PassOK, SelectInputs, NEW d \in Docs
  PROVE  \/ d \in Selected \cup Removed
         \/ Baseline
         \/ ResultOf(rows[d], Doc(d, head))
<1> SUFFICES ASSUME ~Baseline, ~ResultOf(rows[d], Doc(d, head))
             PROVE  d \in Selected \cup Removed
  OBVIOUS
<1>1. /\ pc = "select" /\ Reachable(pass.previous) /\ head \in Nat
  BY DEF SelectInputs, Baseline, TypeOK, head
<1>2. PICK c \in 1 .. head : c = pass.previous.commit
  BY <1>1 DEF CheckpointOK, Reachable
<1>3. head \in 1 .. head /\ head \in c .. head /\ c \in 1 .. head
  BY <1>1, <1>2
<1>4. d \in Touched(c, head)
  <2>1. ResultOf(rows[d], Doc(d, c)) \/ d \in Touched(c, head)
    BY <1>1, <1>2 DEF PassOK, Accounted, RowMatches
  <2>2. d \notin Touched(c, head) => Doc(d, head) = Doc(d, c)
    BY <1>1, <1>3 DEF Untouched
  <2> QED
    BY <2>1, <2>2
<1>5. CASE Doc(d, head) # None
  BY <1>2, <1>4, <1>5 DEF Selected, Changes, Present
<1>6. CASE Doc(d, head) = None
  <2>1. PICK k \in c + 1 .. head : Doc(d, k) # Doc(d, k - 1)
    BY <1>4 DEF Touched
  <2>2. /\ k \in 1 .. head /\ k - 1 \in 1 .. head /\ c \in 1 .. k - 1 /\ k - 1 \in Nat
    BY <1>1, <1>2, <2>1
  <2>3. SUFFICES ASSUME d \notin Rewritten(c, head) PROVE FALSE
    BY <1>2, <1>6 DEF Removed, ChangedHistory, Present
  <2>4. /\ d \notin Rewritten(k, head)
        /\ d \notin Rewritten(k - 1, head)
    BY <1>1, <1>2, <2>2, <2>3 DEF Rewritten
  <2>5. /\ Text(Doc(d, head)) = Text(Doc(d, k))
        /\ Text(Doc(d, head)) = Text(Doc(d, k - 1))
    BY <1>1, <1>3, <2>2, <2>4 DEF Untouched
  <2>6. Doc(d, k) \in Inputs \cup {None} /\ Doc(d, k - 1) \in Inputs \cup {None}
    BY <2>2, InputsType
  <2>7. Text(Doc(d, k)) = None /\ Text(Doc(d, k - 1)) = None
    BY <1>6, <2>5 DEF Text
  <2>8. Doc(d, k) = None /\ Doc(d, k - 1) = None
    BY <2>6, <2>7, NoneAssumption DEF Text, Inputs
  <2> QED
    BY <2>1, <2>8
<1> QED
  BY <1>5, <1>6

LEMMA SelectionStartsPass ==
  ASSUME TypeOK, Untouched, CheckpointOK, PassOK, SelectInputs
  PROVE  PassOK'
<1>1. /\ pc = "select" /\ UNCHANGED <<commits, root, rows>>
      /\ pass'.commit = head /\ pass'.baseline = Baseline
      /\ pass'.todo = Selected /\ pass'.deleted = Removed
      /\ pc' = IF Baseline \/ Removed # {} THEN "clean"
               ELSE IF Selected # {} THEN "validate" ELSE "versions"
  BY DEF SelectInputs, TypeOK, Pass, durable
<1>2. pc' # "select" /\ (pc' = "clean" <=> Baseline \/ Removed # {})
      /\ (pc' \notin {"clean", "validate"} => Selected = {})
  BY <1>1
<1>3. ASSUME NEW d \in Docs
      PROVE  Pending(d)' \/ RowMatches(d, pass.commit)'
  <2>1. CASE d \in Selected \cup Removed
    BY <1>1, <2>1 DEF Pending
  <2>2. CASE Baseline
    BY <1>1, <1>2, <2>2 DEF Pending
  <2>3. CASE ResultOf(rows[d], Doc(d, head))
    BY <1>1, <2>3 DEF RowMatches, Doc
  <2> QED
    BY <2>1, <2>2, <2>3, SelectionComplete
<1>4. ASSUME NEW d \in Removed
      PROVE  Doc(d, pass.commit)' = None
  BY <1>1, <1>4 DEF Removed, ChangedHistory, Rewritten, Present, Doc
<1>5. Baseline => /\ Removed = {}
                  /\ Selected = Present(head)
                  /\ Present(pass.commit)' = Present(head)
  BY <1>1 DEF Removed, ChangedHistory, Selected, Full, Present, Doc
<1> QED
  BY <1>1, <1>2, <1>3, <1>4, <1>5 DEF PassOK

\* Steps outside a pass, and steps of the pass that touch neither rows nor the
\* list of what is pending.
LEMMA PassUndisturbed ==
  ASSUME TypeOK, CheckpointOK, PassOK, [Next]_vars,
         UNCHANGED <<root, rows, pass>>,
         pc' = pc \/ (pc \in AfterSelection \ {"clean", "validate"}
                     /\ pc' \in AfterSelection \ {"clean", "validate"})
  PROVE  PassOK'
<1>0. /\ head \in Nat /\ root \in Nat \ {0}
      /\ \A k \in 1 .. head : \A d : Doc(d, k)' = Doc(d, k)
  BY Growth DEF TypeOK, Doc
<1>1. ASSUME pc' = "select", Reachable(pass.previous)', NEW d \in Docs
      PROVE  Accounted(d, pass.previous.commit)'
  <2>1. pc = "select" /\ Reachable(pass.previous)
    BY <1>1 DEF AfterSelection, Reachable
  <2>2. PICK c \in 1 .. head : c = pass.previous.commit
    BY <2>1 DEF CheckpointOK, Reachable
  <2>3. Accounted(d, c)
    BY <2>1, <2>2 DEF PassOK, Accounted, RowMatches, Touched
  <2>4. Accounted(d, c)'
    BY <2>3, AccountedKept
  <2> QED
    BY <2>2, <2>4 DEF Accounted, RowMatches, Touched, Doc
<1>2. ASSUME pc' \in AfterSelection
      PROVE  /\ \A d \in Docs : Pending(d)' \/ RowMatches(d, pass.commit)'
             /\ \A d \in pass'.deleted : Doc(d, pass.commit)' = None
             /\ pc' \notin {"clean", "validate"} => pass'.todo = {}
             /\ pc' # "clean" \/ pass'.baseline => pass'.deleted = {}
             /\ pc' = "clean" /\ pass'.baseline => pass'.todo = Present(pass.commit)'
  <2>1. pc \in AfterSelection /\ (pc' = "clean" <=> pc = "clean")
        /\ (pc' \notin {"clean", "validate"} => pc \notin {"clean", "validate"})
    BY <1>2
  <2>2. PICK c \in 1 .. head : c = pass.commit
    BY <1>0, <2>1 DEF TypeOK
  <2>3. \A d : Doc(d, pass.commit)' = Doc(d, pass.commit)
    BY <1>0, <2>2 DEF Doc
  <2>4. \A d : Pending(d)' = Pending(d)
    BY <2>1 DEF Pending
  <2>5. \A d \in Docs : Pending(d)' \/ RowMatches(d, pass.commit)'
    BY <2>1, <2>3, <2>4 DEF PassOK, RowMatches
  <2>6. Present(pass.commit)' = Present(pass.commit)
    BY <2>3 DEF Present
  <2> QED
    BY <2>1, <2>3, <2>5, <2>6 DEF PassOK
<1> QED
  BY <1>1, <1>2 DEF PassOK

LEMMA MidPassAdvances ==
  ASSUME TypeOK, PassOK, MidPass, ~RecordVersions, ~SaveSummary
  PROVE  PassOK'
<1>0. /\ pc \in AfterSelection /\ pc' \in AfterSelection
      /\ UNCHANGED commits /\ pass'.commit = pass.commit
      /\ pass'.baseline = pass.baseline
  BY MidPassKeeps
<1>1. /\ \A d : Doc(d, pass.commit)' = Doc(d, pass.commit)
      /\ Present(pass.commit)' = Present(pass.commit)
      /\ pc' # "select"
  BY <1>0 DEF Doc, Present, AfterSelection
<1> SUFFICES /\ \A d \in Docs :
                  \/ d \in pass'.todo \cup pass'.deleted
                  \/ pc' = "clean" /\ pass.baseline
                  \/ ResultOf(rows'[d], Doc(d, pass.commit))
             /\ \A d \in pass'.deleted : Doc(d, pass.commit) = None
             /\ pc' \notin {"clean", "validate"} => pass'.todo = {}
             /\ pc' # "clean" \/ pass.baseline => pass'.deleted = {}
             /\ pc' = "clean" /\ pass.baseline => pass'.todo = Present(pass.commit)
  BY <1>0, <1>1 DEF PassOK, Pending, RowMatches
<1>2. CASE DeleteAllRows
  <2>1. /\ pc = "clean" /\ pass.baseline /\ rows' = NoRows
        /\ pc' = AfterClean /\ pass' = pass
    BY <1>2 DEF DeleteAllRows
  <2>2. pass.todo = Present(pass.commit) /\ pass.deleted = {}
    BY <1>0, <2>1 DEF PassOK
  <2>3. pc' # "clean" /\ (pc' \notin {"clean", "validate"} => pass.todo = {})
    BY <2>1 DEF AfterClean
  <2>4. \A d \in Docs : d \in pass.todo \/ ResultOf(rows'[d], Doc(d, pass.commit))
    BY <2>1, <2>2 DEF Present, ResultOf, NoRows
  <2> QED
    BY <2>1, <2>2, <2>3, <2>4
<1>3. ASSUME NEW e \in Docs, DeleteRow(e)
      PROVE  /\ \A d \in Docs :
                  \/ d \in pass'.todo \cup pass'.deleted
                  \/ ResultOf(rows'[d], Doc(d, pass.commit))
             /\ \A d \in pass'.deleted : Doc(d, pass.commit) = None
             /\ pc' \notin {"clean", "validate"} => pass'.todo = {}
             /\ pc' # "clean" => pass'.deleted = {}
             /\ ~pass.baseline
  <2>1. /\ pc = "clean" /\ ~pass.baseline /\ e \in pass.deleted
        /\ rows' = [rows EXCEPT ![e] = None]
        /\ pass' = [pass EXCEPT !.deleted = @ \ {e}]
        /\ pc' = IF pass.deleted = {e} THEN AfterClean ELSE "clean"
    BY <1>3 DEF DeleteRow
  <2>2. pass'.todo = pass.todo /\ pass'.deleted = pass.deleted \ {e}
    BY <2>1 DEF TypeOK, Pass
  <2>3. /\ \A d \in pass.deleted : Doc(d, pass.commit) = None
        /\ \A d \in Docs : \/ d \in pass.todo \cup pass.deleted
                           \/ ResultOf(rows[d], Doc(d, pass.commit))
    BY <1>0, <2>1 DEF PassOK, Pending, RowMatches
  <2>4. \A d \in Docs : rows'[d] = IF d = e THEN None ELSE rows[d]
    BY <2>1 DEF TypeOK, Rows
  <2>5. ResultOf(rows'[e], Doc(e, pass.commit))
    BY <2>1, <2>3, <2>4 DEF ResultOf
  <2>6. ASSUME NEW d \in Docs
        PROVE  \/ d \in pass'.todo \cup pass'.deleted
               \/ ResultOf(rows'[d], Doc(d, pass.commit))
    BY <2>2, <2>3, <2>4, <2>5
  <2>7. /\ pc' \notin {"clean", "validate"} => pass.todo = {}
        /\ pc' # "clean" => pass.deleted = {e}
    BY <2>1 DEF AfterClean
  <2> QED
    BY <2>1, <2>2, <2>3, <2>6, <2>7
<1>4. ASSUME NEW e \in Docs, ValidateOne(e)
      PROVE  /\ \A d \in Docs :
                  \/ d \in pass'.todo
                  \/ ResultOf(rows'[d], Doc(d, pass.commit))
             /\ pass'.deleted = {}
             /\ pc' \notin {"clean", "validate"} => pass'.todo = {}
             /\ pc' # "clean"
  <2>1. /\ pc = "validate" /\ pass' = [pass EXCEPT !.todo = @ \ {e}]
        /\ pc' = IF pass.todo = {e} THEN "versions" ELSE "validate"
        /\ \A d \in Docs \ {e} : rows'[d] = rows[d]
    BY <1>4 DEF ValidateOne, TypeOK, Rows
  <2>2. pass'.todo = pass.todo \ {e} /\ pass'.deleted = pass.deleted
    BY <2>1 DEF TypeOK, Pass
  <2>3. /\ pass.deleted = {}
        /\ \A d \in Docs : d \in pass.todo \/ ResultOf(rows[d], Doc(d, pass.commit))
    BY <1>0, <2>1 DEF PassOK, Pending, RowMatches
  <2>4. ResultOf(rows'[e], Doc(e, pass.commit))
    BY <1>4, ValidatedResult
  <2>5. ASSUME NEW d \in Docs
        PROVE  d \in pass'.todo \/ ResultOf(rows'[d], Doc(d, pass.commit))
    BY <2>1, <2>2, <2>3, <2>4
  <2> QED
    BY <2>1, <2>2, <2>3, <2>5
<1>5. CASE SaveRetrievalErrors
  <2>1. /\ pc = "failures" /\ pc' = "summary"
        /\ pass'.todo = pass.todo /\ pass'.deleted = pass.deleted
    BY <1>5 DEF SaveRetrievalErrors, TypeOK, Pass
  <2>2. /\ pass.todo = {} /\ pass.deleted = {}
        /\ \A d \in Docs : ResultOf(rows[d], Doc(d, pass.commit))
    BY <1>0, <2>1 DEF PassOK, Pending, RowMatches
  <2>3. \A d \in Docs : ResultOf(rows'[d], Doc(d, pass.commit))
    BY <1>5, <2>2, MarkingKeepsResult
  <2> QED
    BY <2>1, <2>2, <2>3
<1> QED
  BY <1>2, <1>3, <1>4, <1>5 DEF MidPass

LEMMA PassStep ==
  ASSUME IInv, [Next]_vars
  PROVE  PassOK'
<1>0. TypeOK /\ Untouched /\ CheckpointOK /\ PassOK /\ NothingForgotten
  BY DEF IInv
<1>1. CASE MidPass
  <2>1. CASE RecordVersions
    BY <1>0, <2>1, PassUndisturbed DEF RecordVersions, AfterSelection, Steps
  <2>2. CASE SaveSummary
    BY <1>0, <2>2, PassUndisturbed DEF SaveSummary, AfterSelection, Steps
  <2> QED
    BY <1>0, <1>1, <2>1, <2>2, MidPassAdvances
<1>2. CASE Publish
  BY <1>2 DEF Publish, PassOK, AfterSelection
<1>3. CASE ~MidPass /\ ~Publish
  <2>0. UNCHANGED rows
    BY <1>0, <1>3, OtherSteps
  <2>1. CASE UNCHANGED <<root, pc, pass>>
    BY <1>0, <2>0, <2>1, PassUndisturbed
  <2>2. CASE LoadCheckpoint
    <3>1. pc' = "select" /\ pass'.previous = checkpoint /\ UNCHANGED <<commits, root>>
      BY <1>0, <2>2 DEF LoadCheckpoint, TypeOK, Pass
    <3>2. ASSUME Reachable(pass.previous)', NEW d \in Docs
          PROVE  Accounted(d, pass.previous.commit)'
      <4>1. Reachable(checkpoint)
        BY <3>1, <3>2 DEF Reachable
      <4>2. Accounted(d, checkpoint.commit)
        BY <1>0, <4>1 DEF NothingForgotten, Accounted
      <4> QED
        BY <2>0, <3>1, <4>2 DEF Accounted, RowMatches, Touched, Doc, head
    <3> QED
      BY <3>1, <3>2 DEF PassOK, AfterSelection
  <2>3. CASE SelectInputs
    BY <1>0, <2>3, SelectionStartsPass
  <2>4. CASE pc' \in {"idle", "load"}
    BY <2>4 DEF PassOK, AfterSelection
  <2> QED
    BY <1>0, <1>3, <2>1, <2>2, <2>3, <2>4, OtherSteps
<1> QED
  BY <1>1, <1>2, <1>3

-----------------------------------------------------------------------------
(* Theorems *)

LEMMA InvInit == Init => IInv
<1> SUFFICES ASSUME Init PROVE IInv
  OBVIOUS
<1>1. TypeOK
  BY TypeInit
<1>2. pc = "idle"
  BY DEF Init
<1>3. PassOK
  BY <1>2 DEF PassOK, AfterSelection
<1>4. CASE Fresh
  BY <1>1, <1>2, <1>3, <1>4
  DEF IInv, Fresh, Untouched, CheckpointOK, NothingForgotten, Reachable, AfterSelection, head
<1>5. CASE Upgraded
  <2>1. PICK s \in Snapshot :
          /\ commits = <<s>>
          /\ checkpoint.commit = 1
          /\ rows = [d \in Docs |->
                      IF s.docs[d] = None THEN None
                      ELSE [input |-> s.docs[d], error |-> None,
                            under |-> [policy |-> 0, keys |-> s.keys]]]
    BY <1>5 DEF Upgraded
  <2>2. head = 1 /\ \A d \in Docs : Doc(d, 1) = s.docs[d]
    BY <2>1 DEF head, Doc
  <2>3. Untouched
    <3>1. \A j \in 1 .. head : \A i \in 1 .. j : i = j
      BY <2>2
    <3> QED
      BY <3>1 DEF Untouched
  <2>4. CheckpointOK
    BY <1>2, <2>1, <2>2 DEF CheckpointOK, AfterSelection
  <2>5. \A d \in Docs : RowMatches(d, 1)
    <3>1. SUFFICES ASSUME NEW d \in Docs, s.docs[d] # None PROVE rows[d] # None
      BY <2>1, <2>2 DEF RowMatches, ResultOf
    <3>2. rows[d] = [input |-> s.docs[d], error |-> None,
                     under |-> [policy |-> 0, keys |-> s.keys]]
      BY <2>1, <3>1
    <3>3. [policy |-> 0, keys |-> s.keys] \in Fingerprint /\ s.docs[d] \in Inputs
      BY <3>1, ProcessingAssumption DEF Fingerprint, Policies, Snapshot, Tree
    <3>4. rows[d] \in Row
      BY <3>2, <3>3 DEF Row
    <3> QED
      BY <3>4, NoneAssumption
  <2> QED
    BY <1>1, <1>3, <2>1, <2>3, <2>4, <2>5 DEF IInv, NothingForgotten
<1> QED
  BY <1>4, <1>5 DEF Init

LEMMA InvStep == IInv /\ [Next]_vars => IInv'
<1> SUFFICES ASSUME IInv, [Next]_vars PROVE IInv'
  OBVIOUS
<1>1. TypeOK'
  BY TypeStep DEF IInv
<1>2. Untouched'
  BY UntouchedStep DEF IInv
<1>3. CheckpointOK'
  BY <1>1, CheckpointStep DEF IInv
<1>4. PassOK'
  BY PassStep
<1>5. NothingForgotten'
  BY NothingForgottenStep
<1> QED
  BY <1>1, <1>2, <1>3, <1>4, <1>5 DEF IInv

THEOREM Invariance == Spec => []IInv
BY InvInit, InvStep, PTL DEF Spec

\* Whatever passes die and whatever is committed meanwhile, an advisory whose
\* stored result is out of date is found by the next history scan.
THEOREM NeverForgotten == Spec => []NothingForgotten
<1>1. IInv => NothingForgotten
  BY DEF IInv
<1> QED
  BY <1>1, Invariance, PTL

\* A pass publishes its checkpoint only when every advisory of the commit has the
\* result of its content there, and no other advisory has one.
THEOREM CompleteWhenPublished == Spec => PublishedResultsComplete
<1>1. ASSUME IInv, Publish
      PROVE  \A d \in Docs : RowMatches(d, pass.commit)
  <2>1. pc = "publish" /\ PassOK
    BY <1>1 DEF Publish, IInv
  <2> QED
    BY <2>1 DEF PassOK, Pending, AfterSelection, Steps
<1>2. IInv /\ [Next]_vars =>
        [Publish => \A d \in Docs : RowMatches(d, pass.commit)]_vars
  BY <1>1
<1> QED
  BY <1>2, Invariance, PTL DEF Spec, PublishedResultsComplete

-----------------------------------------------------------------------------
(* The published summary *)

\* A pass that has changed nothing started from a clean checkpoint and so from a
\* summary of the rows as they are; one that has, rebuilds it before it publishes.
SummaryOK ==
  /\ SummaryFresh
  /\ pc = "select" /\ ~pass.force => checkpoint = pass.previous
  /\ pc \in {"clean", "validate"} => pass.changed
  /\ pc \in {"versions", "failures", "summary"} /\ ~pass.changed => summary = rows
  /\ pc = "publish" => summary = rows

LEMMA DirtiedIsDirty ==
  ASSUME NEW c \in Checkpoint \cup {None}, Dirtied(c) # None
  PROVE  Dirtied(c).dirty
BY DEF Dirtied, Checkpoint

LEMMA SummaryInit == Init => SummaryOK
BY DEF Init, Fresh, Upgraded, SummaryOK, SummaryFresh, Reachable

LEMMA SummaryStep ==
  ASSUME IInv, SummaryOK, [Next]_vars
  PROVE  SummaryOK'
<1>0. TypeOK /\ CheckpointOK
  BY DEF IInv
<1>1. CASE ~MidPass /\ ~Publish
  <2>1. UNCHANGED rows /\ (checkpoint' = checkpoint \/ checkpoint' = None)
        /\ root \in Nat /\ root' \in Nat /\ root <= root'
    BY <1>0, <1>1, OtherSteps DEF TypeOK
  <2>2. UNCHANGED summary
    BY <1>1
    DEF Next, Environment, Work, MidPass, vars, durable, Reconfigure, ExternalRemoval,
        RemoveRepository, Sync, StartSync, Revalidate, LoadCheckpoint, SelectInputs,
        SelectionFails, Interrupt
  <2>3. SummaryFresh'
    <3>1. SUFFICES ASSUME Reachable(checkpoint)', ~checkpoint'.dirty
                   PROVE  summary' = rows'
      BY DEF SummaryFresh
    <3>2. checkpoint' = checkpoint /\ checkpoint # None
      BY <2>1, <3>1 DEF Reachable
    <3>3. checkpoint.commit \in Nat
      BY <1>0, <3>2 DEF TypeOK, Checkpoint
    <3>4. Reachable(checkpoint)
      BY <2>1, <3>1, <3>2, <3>3 DEF Reachable
    <3> QED
      BY <2>1, <2>2, <3>1, <3>2, <3>4 DEF SummaryOK, SummaryFresh
  <2>4. CASE UNCHANGED <<root, pc, pass>>
    <3>1. checkpoint' = checkpoint
      BY <1>1, <2>4
      DEF Next, Environment, Work, MidPass, vars, durable, Reconfigure, ExternalRemoval,
          RemoveRepository, Sync, StartSync, Revalidate, LoadCheckpoint, SelectInputs,
          SelectionFails, Interrupt
    <3> QED
      BY <2>1, <2>2, <2>3, <2>4, <3>1 DEF SummaryOK
  <2>5. CASE LoadCheckpoint
    <3>1. /\ pc' = "select" /\ pass'.previous = checkpoint /\ pass'.force = pass.force
          /\ ~pass.force => checkpoint' = checkpoint
      BY <1>0, <2>5 DEF LoadCheckpoint, TypeOK, Pass
    <3> QED
      BY <2>3, <3>1 DEF SummaryOK
  <2>6. CASE SelectInputs
    <3>1. /\ pc = "select" /\ UNCHANGED checkpoint
          /\ pc' = IF Baseline \/ Removed # {} THEN "clean"
                   ELSE IF Selected # {} THEN "validate" ELSE "versions"
          /\ pass'.changed = (\/ pass.previous # None /\ pass.previous.dirty
                              \/ Full \/ Selected # {} \/ Removed # {})
      BY <1>0, <2>6 DEF SelectInputs, TypeOK, Pass, durable
    <3>2. ASSUME ~pass'.changed
          PROVE  summary = rows
      <4>1. ~Full /\ (pass.previous = None \/ ~pass.previous.dirty)
        BY <3>1, <3>2
      <4>2. ~pass.force /\ Reachable(pass.previous)
        BY <4>1 DEF Full, Baseline
      <4>3. checkpoint = pass.previous
        BY <3>1, <4>2 DEF SummaryOK
      <4> QED
        BY <4>1, <4>2, <4>3 DEF SummaryOK, SummaryFresh, Reachable
    <3>3. pc' \in {"clean", "validate", "versions"}
      BY <3>1
    <3>4. pc' \in {"clean", "validate"} => pass'.changed
      BY <3>1 DEF Full
    <3> QED
      BY <2>1, <2>2, <2>3, <3>2, <3>3, <3>4 DEF SummaryOK
  <2>7. CASE pc' \in {"idle", "load"}
    BY <2>3, <2>7 DEF SummaryOK
  <2> QED
    BY <1>0, <1>1, <2>4, <2>5, <2>6, <2>7, OtherSteps
<1>2. CASE Publish
  BY <1>2 DEF Publish, SummaryOK, SummaryFresh
<1>3. CASE DeleteAllRows
  <2>1. /\ pc = "clean" /\ pass.baseline /\ pc' \in {"validate", "versions"}
        /\ UNCHANGED <<root, checkpoint, pass>>
    BY <1>3 DEF DeleteAllRows, AfterClean
  <2>2. ~Reachable(checkpoint)
    BY <1>0, <2>1 DEF CheckpointOK, Reachable, AfterSelection, Steps
  <2>3. pass.changed
    BY <2>1 DEF SummaryOK
  <2> QED
    BY <2>1, <2>2, <2>3 DEF SummaryOK, SummaryFresh, Reachable
<1>4. ASSUME NEW d \in Docs, DeleteRow(d)
      PROVE  SummaryOK'
  <2>1. /\ pc = "clean" /\ pc' \in {"clean", "validate", "versions"}
        /\ pass'.changed = pass.changed /\ UNCHANGED <<root, summary>>
        /\ rows' = [rows EXCEPT ![d] = None]
        /\ checkpoint' = IF rows[d] # None THEN Dirtied(checkpoint) ELSE checkpoint
    BY <1>0, <1>4 DEF DeleteRow, AfterClean, TypeOK, Pass
  <2>2. pass'.changed
    BY <2>1 DEF SummaryOK
  <2>3. CASE rows[d] # None
    BY <1>0, <2>1, <2>2, <2>3, DirtiedIsDirty DEF SummaryOK, SummaryFresh, Reachable, TypeOK
  <2>4. CASE rows[d] = None
    <3>1. rows' = rows
      BY <1>0, <2>1, <2>4 DEF TypeOK, Rows
    <3> QED
      BY <2>1, <2>2, <2>4, <3>1 DEF SummaryOK, SummaryFresh, Reachable
  <2> QED
    BY <2>3, <2>4
<1>5. ASSUME NEW d \in Docs, ValidateOne(d)
      PROVE  SummaryOK'
  <2>1. /\ pc = "validate" /\ pc' \in {"validate", "versions"}
        /\ pass'.changed = pass.changed /\ checkpoint' = Dirtied(checkpoint)
    BY <1>0, <1>5 DEF ValidateOne, TypeOK, Pass
  <2>2. pass'.changed
    BY <2>1 DEF SummaryOK
  <2> QED
    BY <1>0, <2>1, <2>2, DirtiedIsDirty DEF SummaryOK, SummaryFresh, Reachable, TypeOK
<1>6. CASE RecordVersions
  BY <1>6 DEF RecordVersions, SummaryOK, SummaryFresh, Reachable
<1>7. CASE SaveRetrievalErrors
  <2>1. /\ pc = "failures" /\ pc' = "summary" /\ UNCHANGED <<root, summary>>
        /\ \/ checkpoint' = Dirtied(checkpoint) /\ pass'.changed
           \/ UNCHANGED <<rows, checkpoint>> /\ pass'.changed = pass.changed
    <3>1. rows \in Rows
      BY <1>0 DEF TypeOK
    <3>2. (\A d \in Docs : rows'[d] = rows[d]) => rows' = rows
      BY <1>7, <3>1 DEF SaveRetrievalErrors, Rows
    <3> QED
      BY <1>0, <1>7, <3>2 DEF SaveRetrievalErrors, TypeOK, Pass
  <2> QED
    BY <1>0, <2>1, DirtiedIsDirty DEF SummaryOK, SummaryFresh, Reachable, TypeOK
<1>8. CASE SaveSummary
  BY <1>8 DEF SaveSummary, SummaryOK, SummaryFresh, Reachable
<1> QED
  BY <1>1, <1>2, <1>3, <1>4, <1>5, <1>6, <1>7, <1>8 DEF MidPass

\* A clean checkpoint vouches for summary.json, however many passes died after
\* they wrote rows and before they rebuilt it.
THEOREM SummaryNeverStale == Spec => []SummaryFresh
<1>1. IInv /\ SummaryOK /\ [Next]_vars => SummaryOK'
  BY SummaryStep
<1>2. SummaryOK => SummaryFresh
  BY DEF SummaryOK
<1> QED
  BY <1>1, <1>2, SummaryInit, Invariance, PTL DEF Spec

-----------------------------------------------------------------------------
(* The fingerprint of the published results *)

\* d has a result of content.
Stored(d) == rows[d] # None /\ rows[d].input # None

\* The policy of the running job, or the one the next job takes up.
InEffect == IF pc = "idle" THEN policy ELSE pass.policy

\* The keys of a commit are those of its predecessor or later ones.
KeysGrow ==
  \A j \in root .. head : \A i \in root .. j : commits[i].keys <= commits[j].keys

Within(u, c) ==
  /\ u \in Fingerprint
  /\ c.policy <= u.policy /\ u.policy <= InEffect
  /\ c.keys <= u.keys /\ u.keys <= commits[head].keys

\* Passes that died left results under fingerprints between the checkpoint's and
\* the one a pass would have now.
Band ==
  Reachable(checkpoint) =>
    /\ checkpoint.fingerprint.policy <= InEffect
    /\ checkpoint.fingerprint.keys = commits[checkpoint.commit].keys
    /\ \A d \in Docs : Stored(d) => Within(rows[d].under, checkpoint.fingerprint)

\* A pass that is not full has the fingerprint of the checkpoint, and so has
\* everything in between; one that is full stores every result anew.
PassUnder ==
  pc \in AfterSelection =>
    /\ pass.fingerprint = [policy |-> pass.policy, keys |-> commits[pass.commit].keys]
    /\ \A d \in Docs : Stored(d) => Pending(d) \/ rows[d].under = pass.fingerprint

UnderOK ==
  /\ KeysGrow
  /\ pc # "idle" => pass.policy <= policy
  /\ pc = "select" /\ ~pass.force => checkpoint = pass.previous
  /\ Band
  /\ PassUnder

LEMMA UnderInit == Init => UnderOK
<1> SUFFICES ASSUME Init PROVE UnderOK
  OBVIOUS
<1>1. pc = "idle" /\ root = 1 /\ policy = 0 /\ InEffect = 0
  BY DEF Init, InEffect
<1>2. CASE Fresh
  <2>1. head = 0
    BY <1>2 DEF Fresh, head
  <2> QED
    BY <1>1, <1>2, <2>1
    DEF Fresh, UnderOK, KeysGrow, Band, PassUnder, Reachable, AfterSelection
<1>3. CASE Upgraded
  <2>1. PICK s \in Snapshot :
          /\ commits = <<s>>
          /\ checkpoint = [commit |-> 1, dirty |-> FALSE,
                           fingerprint |-> [policy |-> 0, keys |-> s.keys]]
          /\ rows = [d \in Docs |->
                      IF s.docs[d] = None THEN None
                      ELSE [input |-> s.docs[d], error |-> None,
                            under |-> [policy |-> 0, keys |-> s.keys]]]
    BY <1>3 DEF Upgraded
  <2>2. head = 1 /\ commits[1] = s /\ s.keys \in Keys /\ s.keys \in Nat
    BY <2>1, ProcessingAssumption DEF head, Snapshot, Keys
  <2>3. KeysGrow
    <3>1. \A j \in root .. head : \A i \in root .. j : i = 1 /\ j = 1
      BY <1>1, <2>2
    <3> QED
      BY <2>2, <3>1 DEF KeysGrow
  <2>4. [policy |-> 0, keys |-> s.keys] \in Fingerprint
    BY <2>2, ProcessingAssumption DEF Fingerprint, Policies
  <2>5. \A d \in Docs : Stored(d) => rows[d].under = [policy |-> 0, keys |-> s.keys]
    BY <2>1 DEF Stored
  <2>6. Band
    BY <1>1, <2>1, <2>2, <2>4, <2>5 DEF Band, Within
  <2> QED
    BY <1>1, <2>3, <2>6 DEF UnderOK, PassUnder, AfterSelection
<1> QED
  BY <1>2, <1>3 DEF Init

LEMMA RootGrows ==
  ASSUME TypeOK, [Next]_vars
  PROVE  root \in Nat \ {0} /\ root' \in Nat /\ root <= root'
<1>1. root \in Nat \ {0}
  BY DEF TypeOK
<1>2. CASE MidPass
  BY <1>1, <1>2, MidPassKeeps
<1>3. CASE Publish
  BY <1>1, <1>3 DEF Publish
<1> QED
  BY <1>1, <1>2, <1>3, OtherSteps

LEMMA KeysAppended ==
  ASSUME TypeOK, KeysGrow, UNCHANGED root, NEW s \in Snapshot,
         commits' = Append(commits, s), ~Unborn => s.keys >= commits[head].keys
  PROVE  KeysGrow'
<1>1. /\ head \in Nat /\ head' = head + 1 /\ root \in Nat \ {0}
      /\ \A i \in 1 .. head : commits'[i] = commits[i]
      /\ commits'[head + 1] = s
  BY DEF TypeOK, head
<1>2. /\ s.keys \in Nat
      /\ \A i \in 1 .. head : commits[i].keys \in Nat
  BY InputsType, ProcessingAssumption DEF Snapshot, Keys
<1> SUFFICES ASSUME NEW j \in root .. head', NEW i \in root .. j
             PROVE  commits'[i].keys <= commits'[j].keys
  BY DEF KeysGrow
<1>3. CASE j <= head
  <2>1. j \in root .. head /\ i \in 1 .. head /\ j \in 1 .. head
    BY <1>1, <1>3
  <2> QED
    BY <1>1, <2>1 DEF KeysGrow
<1>4. CASE i = j
  <2>1. j = head + 1 \/ j \in 1 .. head
    BY <1>1
  <2>2. commits'[j].keys \in Nat
    BY <1>1, <1>2, <2>1
  <2>3. \A n \in Nat : n <= n
    OBVIOUS
  <2> QED
    BY <1>4, <2>2, <2>3
<1>5. CASE j = head + 1 /\ i <= head
  <2>1. i \in 1 .. head /\ head \in 1 .. head /\ head \in root .. head /\ i \in root .. head
    BY <1>1, <1>5
  <2>2. ~Unborn
    BY <1>1, <2>1 DEF Unborn
  <2>3. commits[i].keys <= commits[head].keys
    BY <2>1 DEF KeysGrow
  <2>4. /\ commits[i].keys \in Nat /\ commits[head].keys \in Nat
        /\ commits[head].keys <= s.keys
    BY <1>2, <2>1, <2>2
  <2>5. commits[i].keys <= s.keys
    BY <1>2, <2>3, <2>4
  <2> QED
    BY <1>1, <1>5, <2>1, <2>5
<1>6. j <= head \/ i = j \/ (j = head + 1 /\ i <= head)
  BY <1>1
<1> QED
  BY <1>3, <1>4, <1>5, <1>6

LEMMA KeysStep ==
  ASSUME ~Reverts, TypeOK, KeysGrow, [Next]_vars
  PROVE  KeysGrow'
<1>1. ASSUME UNCHANGED commits
      PROVE  KeysGrow'
  <2>1. root \in Nat \ {0} /\ root' \in Nat /\ root <= root'
    BY RootGrows
  <2>2. UNCHANGED head
    BY <1>1 DEF head
  <2>3. head \in Nat
    BY DEF TypeOK, head
  <2> QED
    BY <1>1, <2>1, <2>2, <2>3 DEF KeysGrow
<1>2. ASSUME NEW d \in Docs, ExternalRemoval(d)
      PROVE  KeysGrow'
  <2>1. head \in 1 .. head
    BY <1>2 DEF ExternalRemoval, Unborn, TypeOK, head
  <2>2. PICK s : s = [commits[head] EXCEPT !.docs[d] = None]
    OBVIOUS
  <2>3. /\ s \in Snapshot /\ s.keys = commits[head].keys
        /\ commits[head].keys \in Nat
    BY <2>1, <2>2, InputsType, ProcessingAssumption DEF Snapshot, Tree, Keys
  <2>4. commits' = Append(commits, s) /\ UNCHANGED root
    BY <1>2, <2>2 DEF ExternalRemoval
  <2>5. s.keys >= commits[head].keys
    BY <2>3
  <2> QED
    BY <2>3, <2>4, <2>5, KeysAppended
<1>3. ASSUME NEW downloaded \in SUBSET Docs, NEW failures \in FailureMap,
             NEW tree \in Tree, NEW keys \in Keys,
             StartSync(downloaded, failures, tree, keys)
      PROVE  KeysGrow'
  <2>1. [docs |-> tree, keys |-> keys] \in Snapshot
    BY DEF Snapshot
  <2>2. ~Unborn => keys >= commits[head].keys
    BY <1>3 DEF StartSync, KeysMayBecome
  <2>3. UNCHANGED root
    BY <1>3 DEF StartSync
  <2>4. UNCHANGED commits \/ commits' = Append(commits, [docs |-> tree, keys |-> keys])
    BY <1>3 DEF StartSync
  <2> QED
    BY <1>1, <2>1, <2>2, <2>3, <2>4, KeysAppended
<1> QED
  BY <1>1, <1>2, <1>3
  DEF Next, Environment, Sync, Work, vars, durable, Reconfigure, RemoveRepository,
      Revalidate, LoadCheckpoint, SelectInputs, SelectionFails, DeleteAllRows,
      DeleteRow, ValidateOne, RecordVersions, SaveRetrievalErrors, SaveSummary,
      Publish, Interrupt

\* The policy in effect is never an earlier one, also when a job takes over what
\* is configured or ends.
LEMMA PolicyStep ==
  ASSUME ~Reverts, TypeOK, TypeOK', pc # "idle" => pass.policy <= policy, [Next]_vars
  PROVE  /\ InEffect \in Nat /\ InEffect' \in Nat /\ InEffect <= InEffect'
         /\ pc' # "idle" => pass'.policy <= policy'
<1>1. /\ policy \in Nat /\ policy' \in Nat
      /\ pass.policy \in Nat /\ pass'.policy \in Nat
  BY ProcessingAssumption DEF TypeOK, Pass, Policies
<1>2. CASE UNCHANGED <<pc, pass>> /\ policy <= policy'
  BY <1>1, <1>2 DEF InEffect
<1>3. CASE UNCHANGED policy /\ pc # "idle" /\ pass'.policy = pass.policy /\ pc' # "idle"
  BY <1>1, <1>3 DEF InEffect
<1>4. CASE UNCHANGED policy /\ pc' = "idle"
  BY <1>1, <1>4 DEF InEffect
<1>5. CASE UNCHANGED policy /\ pc = "idle" /\ pass'.policy = policy
  BY <1>1, <1>5 DEF InEffect
<1>6. CASE Reconfigure
  <2>1. PICK p \in Policies : p > policy /\ policy' = p
    BY <1>6 DEF Reconfigure
  <2>2. UNCHANGED <<pc, pass>>
    BY <1>6 DEF Reconfigure
  <2> QED
    BY <1>1, <1>2, <2>1, <2>2, ProcessingAssumption DEF Policies
<1>7. CASE RemoveRepository \/ UNCHANGED vars \/ \E d \in Docs : ExternalRemoval(d)
  <2>1. UNCHANGED <<policy, pc, pass>>
    BY <1>7 DEF RemoveRepository, ExternalRemoval, vars
  <2> QED
    BY <1>1, <1>2, <2>1
<1>8. CASE Sync \/ Revalidate
  <2>1. UNCHANGED policy /\ pc = "idle"
    BY <1>8 DEF Sync, StartSync, Revalidate
  <2>2. \E force, downloaded, failures : pass' = NewPass(force, downloaded, failures)
    BY <1>8 DEF Sync, StartSync, Revalidate
  <2>3. pass'.policy = policy
    BY <2>2 DEF NewPass
  <2> QED
    BY <1>5, <2>1, <2>3
<1>9. CASE SelectionFails \/ Publish \/ Interrupt
  BY <1>4, <1>9 DEF SelectionFails, Publish, Interrupt
<1>10. CASE LoadCheckpoint \/ SelectInputs
  BY <1>3, <1>10 DEF LoadCheckpoint, SelectInputs, TypeOK, Pass
<1>11. CASE MidPass
  <2>1. UNCHANGED policy /\ pass'.policy = pass.policy
    BY <1>11
    DEF MidPass, DeleteAllRows, DeleteRow, ValidateOne, RecordVersions,
        SaveRetrievalErrors, SaveSummary, TypeOK, Pass
  <2>2. pc # "idle" /\ pc' # "idle"
    BY <1>11, MidPassKeeps DEF AfterSelection
  <2> QED
    BY <1>3, <2>1, <2>2
<1> QED
  BY <1>6, <1>7, <1>8, <1>9, <1>10, <1>11 DEF Next, Environment, Work, MidPass

\* Until the next publication, a checkpoint that can be reached is the one that
\* could be reached before.
LEMMA CheckpointSame ==
  ASSUME TypeOK, CheckpointOK, [Next]_vars, ~Publish, Reachable(checkpoint)'
  PROVE  /\ Reachable(checkpoint)
         /\ checkpoint'.fingerprint = checkpoint.fingerprint
         /\ checkpoint'.commit = checkpoint.commit
         /\ checkpoint.commit \in root' .. head
         /\ checkpoint.fingerprint \in Fingerprint
<1>1. root \in Nat \ {0} /\ root' \in Nat /\ root <= root' /\ head \in Nat
  BY RootGrows DEF TypeOK, head
<1>2. checkpoint' \in {checkpoint, Dirtied(checkpoint), None}
  <2>1. CASE MidPass
    BY <2>1
    DEF MidPass, DeleteAllRows, DeleteRow, ValidateOne, RecordVersions,
        SaveRetrievalErrors, SaveSummary
  <2>2. CASE ~MidPass
    BY <2>2, OtherSteps
  <2> QED
    BY <2>1, <2>2
<1>3. checkpoint' # None
  BY DEF Reachable
<1>4. checkpoint # None /\ checkpoint \in Checkpoint
  BY <1>2, <1>3 DEF Dirtied, TypeOK
<1>5. /\ checkpoint'.fingerprint = checkpoint.fingerprint
      /\ checkpoint'.commit = checkpoint.commit
  BY <1>2, <1>3, <1>4 DEF Dirtied, Checkpoint
<1>6. checkpoint.commit \in 1 .. head /\ checkpoint.commit >= root'
  BY <1>4, <1>5 DEF CheckpointOK, Reachable
<1> QED
  BY <1>1, <1>4, <1>5, <1>6 DEF Reachable, Checkpoint

\* What was between the checkpoint and the present stays there.
LEMMA WithinKept ==
  ASSUME ~Reverts, TypeOK, TypeOK', CheckpointOK, UnderOK, [Next]_vars, ~Publish,
         Reachable(checkpoint)'
  PROVE  /\ checkpoint'.fingerprint.policy <= InEffect'
         /\ checkpoint'.fingerprint.keys = commits'[checkpoint'.commit].keys
         /\ \A u : Within(u, checkpoint.fingerprint) => Within(u, checkpoint.fingerprint)'
<1>1. /\ Reachable(checkpoint)
      /\ checkpoint'.fingerprint = checkpoint.fingerprint
      /\ checkpoint'.commit = checkpoint.commit
      /\ checkpoint.commit \in root' .. head
      /\ checkpoint.fingerprint \in Fingerprint
  BY CheckpointSame
<1>2. /\ InEffect \in Nat /\ InEffect' \in Nat /\ InEffect <= InEffect'
  BY PolicyStep DEF UnderOK
<1>3. /\ root' \in Nat \ {0} /\ head \in Nat /\ head' \in Nat /\ head <= head'
      /\ \A i \in 1 .. head : commits'[i] = commits[i]
  BY Growth, RootGrows
<1>4. /\ head \in 1 .. head /\ head \in root' .. head' /\ head' \in root' .. head'
      /\ head \in root' .. head'
      /\ checkpoint.commit \in 1 .. head
  BY <1>1, <1>3
<1>5. commits[head].keys <= commits'[head'].keys
  <2>1. KeysGrow'
    BY KeysStep DEF UnderOK
  <2>2. commits'[head].keys <= commits'[head'].keys
    BY <1>4, <2>1 DEF KeysGrow
  <2> QED
    BY <1>3, <1>4, <2>2
<1>6. commits[head].keys \in Nat /\ commits'[head'].keys \in Nat
  <2>1. head' \in 1 .. head' /\ TypeOK'
    BY <1>3, <1>4
  <2>2. commits'[head'] \in Snapshot
    BY <2>1 DEF TypeOK, head
  <2>3. commits[head].keys \in Keys
    BY <1>4, InputsType
  <2> QED
    BY <2>2, <2>3, ProcessingAssumption DEF Snapshot, Keys
<1>7. /\ checkpoint.fingerprint.policy <= InEffect
      /\ checkpoint.fingerprint.keys = commits[checkpoint.commit].keys
      /\ checkpoint.fingerprint.policy \in Nat
  BY <1>1, ProcessingAssumption DEF UnderOK, Band, Fingerprint, Policies
<1>8. ASSUME NEW u, Within(u, checkpoint.fingerprint)
      PROVE  Within(u, checkpoint.fingerprint)'
  <2>1. /\ u \in Fingerprint /\ u.policy \in Nat /\ u.keys \in Nat
        /\ checkpoint.fingerprint.policy <= u.policy /\ u.policy <= InEffect
        /\ checkpoint.fingerprint.keys <= u.keys /\ u.keys <= commits[head].keys
    BY <1>8, ProcessingAssumption DEF Within, Fingerprint, Policies, Keys
  <2>2. u.policy <= InEffect' /\ u.keys <= commits'[head'].keys
    BY <1>2, <1>5, <1>6, <2>1
  <2> QED
    BY <1>1, <2>1, <2>2 DEF Within
<1> QED
  BY <1>1, <1>2, <1>3, <1>4, <1>7, <1>8

\* A step that stores no result keeps the fingerprints between the two, ...
LEMMA BandKept ==
  ASSUME ~Reverts, TypeOK, TypeOK', CheckpointOK, UnderOK, [Next]_vars, ~Publish,
         \A d \in Docs : Stored(d)' => Stored(d) /\ rows'[d].under = rows[d].under
  PROVE  Band'
<1> SUFFICES ASSUME Reachable(checkpoint)'
             PROVE  /\ checkpoint'.fingerprint.policy <= InEffect'
                    /\ checkpoint'.fingerprint.keys = commits'[checkpoint'.commit].keys
                    /\ \A d \in Docs :
                         Stored(d)' => Within(rows[d].under, checkpoint.fingerprint)'
  BY DEF Band
<1>1. Reachable(checkpoint)
  BY CheckpointSame
<1>2. \A d \in Docs : Stored(d) => Within(rows[d].under, checkpoint.fingerprint)
  BY <1>1 DEF UnderOK, Band
<1>3. ASSUME NEW d \in Docs, Stored(d)'
      PROVE  Within(rows[d].under, checkpoint.fingerprint)'
  <2>1. PICK u : u = rows[d].under /\ u = rows'[d].under
    BY <1>3
  <2>2. Within(u, checkpoint.fingerprint)
    BY <1>2, <1>3, <2>1
  <2>3. Within(u, checkpoint.fingerprint)'
    BY <2>2, WithinKept
  <2> QED
    BY <2>1, <2>3 DEF Within
<1> QED
  BY <1>3, WithinKept

\* ... a validation adds one, that of the pass, ...
LEMMA BandValidated ==
  ASSUME ~Reverts, TypeOK, TypeOK', CheckpointOK, UnderOK, NEW e \in Docs,
         ValidateOne(e)
  PROVE  Band'
<1> USE DEF Next, Work
<1>1. /\ pc = "validate" /\ pc' \in {"validate", "versions"}
      /\ UNCHANGED <<commits, root, policy>>
      /\ \A d \in Docs \ {e} : rows'[d] = rows[d]
      /\ rows'[e].under = pass.fingerprint
      /\ pass'.policy = pass.policy
  BY DEF ValidateOne, TypeOK, Rows, Pass
<1>2. ~Publish
  BY <1>1 DEF Publish
<1> SUFFICES ASSUME Reachable(checkpoint)'
             PROVE  /\ checkpoint'.fingerprint.policy <= InEffect'
                    /\ checkpoint'.fingerprint.keys = commits'[checkpoint'.commit].keys
                    /\ \A d \in Docs :
                         Stored(d)' => Within(rows[d].under, checkpoint.fingerprint)'
  BY DEF Band
<1>3. /\ Reachable(checkpoint)
      /\ checkpoint'.fingerprint = checkpoint.fingerprint
      /\ checkpoint.commit \in root .. head
  BY <1>1, <1>2, CheckpointSame
<1>4. /\ checkpoint.fingerprint.policy <= InEffect
      /\ checkpoint.fingerprint.keys = commits[checkpoint.commit].keys
      /\ \A d \in Docs : Stored(d) => Within(rows[d].under, checkpoint.fingerprint)
  BY <1>3 DEF UnderOK, Band
<1>5. /\ pc \in AfterSelection
      /\ pass.commit \in root .. head
      /\ pass.fingerprint \in Fingerprint
      /\ pass.fingerprint = [policy |-> pass.policy, keys |-> commits[pass.commit].keys]
  BY <1>1 DEF AfterSelection, Steps, TypeOK, UnderOK, PassUnder
<1>6. checkpoint.commit <= pass.commit
  <2>1. pass.previous # None /\ pass.previous.commit = checkpoint.commit
    BY <1>3, <1>5 DEF CheckpointOK, Reachable
  <2>2. ~pass.baseline
    BY <1>3, <1>5, <2>1 DEF CheckpointOK, Reachable
  <2> QED
    BY <1>5, <2>1, <2>2 DEF CheckpointOK
<1>7. /\ head \in Nat /\ root \in Nat \ {0} /\ head \in root .. head
      /\ checkpoint.commit \in root .. pass.commit /\ pass.commit \in root .. head
  BY <1>3, <1>5, <1>6, RootGrows DEF TypeOK, head
<1>8. /\ checkpoint.fingerprint.keys <= pass.fingerprint.keys
      /\ pass.fingerprint.keys <= commits[head].keys
  BY <1>4, <1>5, <1>7 DEF UnderOK, KeysGrow
<1>9. InEffect = pass.policy /\ InEffect \in Nat
  BY <1>1, ProcessingAssumption DEF InEffect, TypeOK, Pass, Policies
<1>10. Within(pass.fingerprint, checkpoint.fingerprint)
  BY <1>4, <1>5, <1>8, <1>9 DEF Within
<1>11. ASSUME NEW d \in Docs, Stored(d)'
       PROVE  Within(rows[d].under, checkpoint.fingerprint)'
  <2>1. PICK u : u = rows'[d].under
    OBVIOUS
  <2>2. Within(u, checkpoint.fingerprint)
    BY <1>1, <1>4, <1>10, <1>11, <2>1 DEF Stored
  <2>3. Within(u, checkpoint.fingerprint)'
    BY <1>2, <2>2, WithinKept
  <2> QED
    BY <2>1, <2>3 DEF Within
<1> QED
  BY <1>2, <1>11, WithinKept

\* ... and a publication closes the gap.
LEMMA BandPublished ==
  ASSUME TypeOK, UnderOK, IInv, Publish
  PROVE  Band'
<1>1. /\ pc = "publish" /\ pc' = "idle" /\ UNCHANGED <<commits, root, policy, rows>>
      /\ checkpoint'.commit = pass.commit /\ checkpoint'.fingerprint = pass.fingerprint
  BY DEF Publish
<1>2. /\ pc \in AfterSelection
      /\ pass.commit \in root .. head
      /\ pass.fingerprint \in Fingerprint
      /\ pass.fingerprint = [policy |-> pass.policy, keys |-> commits[pass.commit].keys]
      /\ pass.policy <= policy
  BY <1>1 DEF AfterSelection, Steps, TypeOK, UnderOK, PassUnder
<1>3. \A d \in Docs : Stored(d) => rows[d].under = pass.fingerprint
  <2>1. pass.todo = {} /\ pass.deleted = {}
    BY <1>1, <1>2 DEF IInv, PassOK
  <2> QED
    BY <1>1, <1>2, <2>1 DEF UnderOK, PassUnder, Pending
<1>4. pass.fingerprint.keys <= commits[head].keys
  <2>1. head \in root .. head
    BY <1>2 DEF TypeOK, head
  <2> QED
    BY <1>2, <2>1 DEF UnderOK, KeysGrow
<1>5. /\ InEffect' = policy /\ pass.fingerprint.policy <= policy
      /\ pass.fingerprint.policy \in Nat /\ pass.fingerprint.keys \in Nat
  BY <1>1, <1>2, ProcessingAssumption DEF InEffect, Fingerprint, Policies, Keys
<1>6. UNCHANGED head
  BY <1>1 DEF head
<1>7. \A d \in Docs : Stored(d)' => rows'[d].under = pass.fingerprint
  BY <1>1, <1>3 DEF Stored
<1> QED
  BY <1>1, <1>2, <1>4, <1>5, <1>6, <1>7 DEF Band, Within

\* Recording a retrieval failure keeps results, and adds none.
LEMMA MarkingKeepsUnder ==
  ASSUME TypeOK, SaveRetrievalErrors, NEW d \in Docs, Stored(d)'
  PROVE  Stored(d) /\ rows'[d].under = rows[d].under
<1>1. CASE rows'[d] = rows[d]
  BY <1>1 DEF Stored
<1>2. CASE rows[d] = None /\ rows'[d] = [input |-> None, under |-> None,
                                        error |-> pass.failures[d]]
  BY <1>2 DEF Stored
<1>3. CASE rows[d] # None /\ rows'[d] = [rows[d] EXCEPT !.error = pass.failures[d]]
  <2>1. rows[d] \in Row
    BY <1>3 DEF TypeOK, Rows
  <2> QED
    BY <1>3, <2>1 DEF Row, Stored
<1> QED
  BY <1>1, <1>2, <1>3 DEF SaveRetrievalErrors

\* Inputs of a pass that is not full were stored by a pass with its fingerprint;
\* of a full one they are pending, and what is not an input is not stored.
LEMMA SelectionUnder ==
  ASSUME IInv, IInv', UnderOK, SelectInputs
  PROVE  PassUnder'
<1>1. /\ pc = "select" /\ UNCHANGED <<commits, root, rows, checkpoint>>
      /\ pc' \in AfterSelection
      /\ pass'.commit = head /\ pass'.fingerprint = HeadFingerprint
      /\ pass'.policy = pass.policy /\ pass'.baseline = Baseline
      /\ pass'.todo = Selected /\ pass'.deleted = Removed
      /\ pc' = "clean" <=> Baseline \/ Removed # {}
      /\ ~Unborn
  BY DEF SelectInputs, IInv, TypeOK, Pass, durable, AfterSelection, Steps
<1>2. HeadFingerprint \in Fingerprint
  BY <1>1, SelectionType DEF IInv
<1>3. pass'.fingerprint = [policy |-> pass'.policy, keys |-> commits'[pass'.commit].keys]
  BY <1>1 DEF HeadFingerprint
<1>4. ASSUME NEW d \in Docs, Stored(d)'
      PROVE  Pending(d)' \/ rows'[d].under = pass'.fingerprint
  <2>1. CASE Baseline
    BY <1>1, <2>1 DEF Pending
  <2>2. CASE Full /\ ~Baseline
    <3>1. Pending(d)' \/ RowMatches(d, pass.commit)'
      BY <1>1 DEF IInv, PassOK
    <3>2. RowMatches(d, pass.commit)' => ResultOf(rows[d], Doc(d, head))
      BY <1>1 DEF RowMatches, Doc
    <3>3. ResultOf(rows[d], Doc(d, head)) => Doc(d, head) # None
      BY <1>1, <1>4 DEF ResultOf, Stored
    <3>4. Doc(d, head) # None => d \in Selected
      BY <2>2 DEF Selected, Present
    <3> QED
      BY <1>1, <3>1, <3>2, <3>3, <3>4 DEF Pending
  <2>3. CASE ~Full
    <3>1. /\ Reachable(pass.previous) /\ ~pass.force
          /\ pass.previous.fingerprint = HeadFingerprint
      BY <2>3 DEF Full, Baseline
    <3>2. checkpoint = pass.previous
      BY <1>1, <3>1 DEF UnderOK
    <3>3. Within(rows[d].under, HeadFingerprint)
      BY <1>1, <1>4, <3>1, <3>2 DEF UnderOK, Band, Reachable, Stored
    <3>4. /\ InEffect = HeadFingerprint.policy
          /\ commits[head].keys = HeadFingerprint.keys
      BY <1>1 DEF InEffect, HeadFingerprint
    <3>5. PICK u \in Fingerprint : u = rows[d].under
      BY <3>3 DEF Within
    <3>6. /\ u.policy \in Nat /\ HeadFingerprint.policy \in Nat
          /\ u.keys \in Nat /\ HeadFingerprint.keys \in Nat
      BY <1>2, ProcessingAssumption DEF Fingerprint, Policies, Keys
    <3>7. u.policy = HeadFingerprint.policy /\ u.keys = HeadFingerprint.keys
      BY <3>3, <3>4, <3>5, <3>6 DEF Within
    <3>8. u = HeadFingerprint
      BY <1>2, <3>7 DEF Fingerprint
    <3> QED
      BY <1>1, <3>5, <3>8
  <2> QED
    BY <2>1, <2>2, <2>3
<1> QED
  BY <1>3, <1>4 DEF PassUnder

LEMMA MidPassUnder ==
  ASSUME TypeOK, UnderOK, MidPass
  PROVE  PassUnder'
<1>1. /\ pc \in AfterSelection /\ pc' \in AfterSelection
      /\ UNCHANGED commits
      /\ pass'.commit = pass.commit /\ pass'.baseline = pass.baseline
  BY MidPassKeeps
<1>2. pass'.fingerprint = pass.fingerprint /\ pass'.policy = pass.policy
  BY DEF MidPass, DeleteAllRows, DeleteRow, ValidateOne, RecordVersions,
         SaveRetrievalErrors, SaveSummary, TypeOK, Pass
<1>3. /\ pass.fingerprint = [policy |-> pass.policy, keys |-> commits[pass.commit].keys]
      /\ \A d \in Docs : Stored(d) => Pending(d) \/ rows[d].under = pass.fingerprint
  BY <1>1 DEF UnderOK, PassUnder
<1> SUFFICES ASSUME NEW d \in Docs, Stored(d)'
             PROVE  Pending(d)' \/ rows'[d].under = pass.fingerprint
  BY <1>1, <1>2, <1>3 DEF PassUnder
<1>4. CASE DeleteAllRows
  BY <1>4 DEF DeleteAllRows, NoRows, Stored
<1>5. ASSUME NEW e \in Docs, DeleteRow(e)
      PROVE  Pending(d)' \/ rows'[d].under = pass.fingerprint
  <2>1. /\ pc = "clean" /\ ~pass.baseline
        /\ rows' = [rows EXCEPT ![e] = None]
        /\ pass'.todo = pass.todo /\ pass'.deleted = pass.deleted \ {e}
    BY <1>5 DEF DeleteRow, TypeOK, Pass
  <2>2. d # e /\ rows'[d] = rows[d]
    BY <2>1 DEF TypeOK, Rows, Stored
  <2> QED
    BY <1>3, <2>1, <2>2 DEF Pending, Stored
<1>6. ASSUME NEW e \in Docs, ValidateOne(e)
      PROVE  Pending(d)' \/ rows'[d].under = pass.fingerprint
  <2>1. /\ pc = "validate"
        /\ pass'.todo = pass.todo \ {e} /\ pass'.deleted = pass.deleted
        /\ rows'[e].under = pass.fingerprint
        /\ d # e => rows'[d] = rows[d]
    BY <1>6 DEF ValidateOne, TypeOK, Rows, Pass
  <2> QED
    BY <1>3, <2>1 DEF Pending, Stored
<1>7. CASE RecordVersions \/ SaveSummary
  <2>1. UNCHANGED <<rows, pass>> /\ pc # "clean"
    BY <1>7 DEF RecordVersions, SaveSummary
  <2> QED
    BY <1>3, <2>1 DEF Pending, Stored
<1>8. CASE SaveRetrievalErrors
  <2>1. /\ pc # "clean"
        /\ pass'.todo = pass.todo /\ pass'.deleted = pass.deleted
    BY <1>8 DEF SaveRetrievalErrors, TypeOK, Pass
  <2>2. Stored(d) /\ rows'[d].under = rows[d].under
    BY <1>8, MarkingKeepsUnder
  <2> QED
    BY <1>3, <2>1, <2>2 DEF Pending
<1> QED
  BY <1>4, <1>5, <1>6, <1>7, <1>8 DEF MidPass

LEMMA UnderStep ==
  ASSUME ~Reverts, IInv, IInv', UnderOK, [Next]_vars
  PROVE  UnderOK'
<1>0. TypeOK /\ TypeOK' /\ CheckpointOK
  BY DEF IInv
<1>1. KeysGrow'
  BY <1>0, KeysStep DEF UnderOK
<1>2. pc' # "idle" => pass'.policy <= policy'
  BY <1>0, PolicyStep DEF UnderOK
<1>3. CASE MidPass
  <2>1. PassUnder'
    BY <1>0, <1>3, MidPassUnder
  <2>2. pc' # "select" /\ ~Publish
    BY <1>0, <1>3, MidPassKeeps
    DEF AfterSelection, Publish, MidPass, DeleteAllRows, DeleteRow, ValidateOne,
        RecordVersions, SaveRetrievalErrors, SaveSummary
  <2>3. CASE \E e \in Docs : ValidateOne(e)
    <3>1. Band'
      BY <1>0, <2>3, BandValidated
    <3> QED
      BY <1>1, <1>2, <2>1, <2>2, <3>1 DEF UnderOK
  <2>4. CASE ~\E e \in Docs : ValidateOne(e)
    <3>1. ASSUME NEW d \in Docs, Stored(d)'
          PROVE  Stored(d) /\ rows'[d].under = rows[d].under
      <4>1. CASE SaveRetrievalErrors
        BY <1>0, <3>1, <4>1, MarkingKeepsUnder
      <4>2. CASE ~SaveRetrievalErrors
        <5>1. rows'[d] = rows[d] \/ rows'[d] = None
          BY <1>0, <1>3, <2>4, <4>2
          DEF MidPass, DeleteAllRows, DeleteRow, RecordVersions, SaveSummary, NoRows,
              TypeOK, Rows
        <5> QED
          BY <3>1, <5>1 DEF Stored
      <4> QED
        BY <4>1, <4>2
    <3>2. Band'
      BY <1>0, <2>2, <3>1, BandKept
    <3> QED
      BY <1>1, <1>2, <2>1, <2>2, <3>2 DEF UnderOK
  <2> QED
    BY <2>3, <2>4
<1>4. CASE Publish
  <2>1. Band'
    BY <1>0, <1>4, BandPublished
  <2>2. pc' = "idle"
    BY <1>4 DEF Publish
  <2> QED
    BY <1>1, <1>2, <2>1, <2>2 DEF UnderOK, PassUnder, AfterSelection
<1>5. CASE ~MidPass /\ ~Publish
  <2>1. UNCHANGED rows
    BY <1>0, <1>5, OtherSteps
  <2>2. Band'
    BY <1>0, <1>5, <2>1, BandKept DEF Stored
  <2>3. CASE UNCHANGED <<root, pc, pass>>
    <3>1. checkpoint' = checkpoint
      BY <1>5, <2>3
      DEF Next, Environment, Work, MidPass, vars, durable, Reconfigure, ExternalRemoval,
          RemoveRepository, Sync, StartSync, Revalidate, LoadCheckpoint, SelectInputs,
          SelectionFails, Interrupt
    <3>2. PassUnder'
      <4>1. SUFFICES ASSUME pc \in AfterSelection PROVE PassUnder'
        BY <2>3 DEF PassUnder
      <4>2. pass.commit \in 1 .. head
        BY <1>0, <4>1 DEF TypeOK, head
      <4>3. commits'[pass.commit] = commits[pass.commit]
        BY <1>0, <4>2, Growth
      <4> QED
        BY <2>1, <2>3, <4>1, <4>3 DEF UnderOK, PassUnder, Pending, Stored
    <3> QED
      BY <1>1, <1>2, <2>2, <2>3, <3>1, <3>2 DEF UnderOK
  <2>4. CASE LoadCheckpoint
    <3>1. /\ pc' = "select" /\ pass'.previous = checkpoint /\ pass'.force = pass.force
          /\ ~pass.force => checkpoint' = checkpoint
      BY <1>0, <2>4 DEF LoadCheckpoint, TypeOK, Pass
    <3> QED
      BY <1>1, <1>2, <2>2, <3>1 DEF UnderOK, PassUnder, AfterSelection
  <2>5. CASE SelectInputs
    <3>1. PassUnder'
      BY <2>5, SelectionUnder
    <3>2. pc' # "select"
      BY <2>5 DEF SelectInputs
    <3> QED
      BY <1>1, <1>2, <2>2, <3>1, <3>2 DEF UnderOK
  <2>6. CASE pc' \in {"idle", "load"}
    BY <1>1, <1>2, <2>2, <2>6 DEF UnderOK, PassUnder, AfterSelection
  <2> QED
    BY <1>0, <1>5, <2>3, <2>4, <2>5, <2>6, OtherSteps
<1> QED
  BY <1>3, <1>4, <1>5

\* Every published result was computed under the validator, policy and keys the
\* checkpoint names, unless an earlier policy or key set comes back.
THEOREM PublishedFingerprintTrue ==
  ASSUME ~Reverts
  PROVE  Spec => PublishedUnderFingerprint
<1>1. ASSUME IInv, UnderOK, Publish, NEW d \in Docs,
             rows[d] # None /\ rows[d].input # None
      PROVE  rows[d].under = pass.fingerprint
  <2>1. pc = "publish" /\ pass.todo = {} /\ pass.deleted = {}
    BY <1>1 DEF Publish, IInv, PassOK, AfterSelection, Steps
  <2> QED
    BY <1>1, <2>1 DEF UnderOK, PassUnder, Pending, Stored, AfterSelection, Steps
<1>2. IInv /\ UnderOK /\ [Next]_vars =>
        [Publish => \A d \in Docs : rows[d] # None /\ rows[d].input # None
                                      => rows[d].under = pass.fingerprint]_vars
  BY <1>1
<1>3. IInv /\ IInv' /\ UnderOK /\ [Next]_vars => UnderOK'
  BY UnderStep
<1> QED
  BY <1>2, <1>3, UnderInit, Invariance, PTL DEF Spec, PublishedUnderFingerprint

-----------------------------------------------------------------------------
(* The recorded versions *)

\* Nothing is recorded that the present history does not hold.
Sound == versions \subseteq History

\* What is recorded up to commit c is what happened between some commit and c.
Complete(c) ==
  \/ Upgrade /\ versions = {}
  \/ \E i \in root - 1 .. c :
       /\ {v \in versions : v[1] <= c} = VersionsAfter(i, c)
       /\ i = root - 1 \/ Unrecoverable(i)

\* A pass adds to versions that are complete up to the checkpoint it selected
\* against what the scan back to it finds.
VersionsOK ==
  /\ Reachable(checkpoint) => Sound /\ Complete(checkpoint.commit)
  /\ pc \in AfterSelection \cup {"select"} /\ Reachable(pass.previous) =>
       Sound /\ Complete(pass.previous.commit)
  /\ pc \in {"failures", "summary", "publish"} => Sound /\ Complete(pass.commit)
  /\ pc \in AfterSelection /\ ~pass.baseline =>
       pass.history = Rewritten(pass.previous.commit, pass.commit)

LEMMA VersionsSplit ==
  ASSUME NEW i \in Nat, NEW j \in i .. head, NEW k \in j .. head, head \in Nat
  PROVE  /\ VersionsAfter(i, k) = VersionsAfter(i, j) \cup VersionsAfter(j, k)
         /\ {v \in VersionsAfter(i, k) : v[1] <= j} = VersionsAfter(i, j)
         /\ {v \in VersionsAfter(i, k) : v[1] > j} = VersionsAfter(j, k)
BY DEF VersionsAfter

\* Commits that are there stay what they are, and so do the versions they hold.
LEMMA VersionsStay ==
  ASSUME TypeOK, [Next]_vars, UNCHANGED root
  PROVE  /\ \A i \in Nat : \A j \in i .. head :
              i >= root - 1 => VersionsAfter(i, j)' = VersionsAfter(i, j)
         /\ \A k \in 1 .. head : Present(k)' = Present(k)
         /\ History \subseteq History'
<1>1. /\ head \in Nat /\ head' \in Nat /\ head <= head' /\ root \in Nat \ {0}
      /\ \A k \in 1 .. head : \A d : Doc(d, k)' = Doc(d, k)
  BY Growth DEF TypeOK, Doc
<1>2. ASSUME NEW k \in root .. head, NEW d \in Docs
      PROVE  Adds(k, d)' = Adds(k, d)
  <2>1. k \in 1 .. head /\ (k # root => k - 1 \in 1 .. head)
    BY <1>1
  <2> QED
    BY <1>1, <2>1 DEF Adds
<1>3. ASSUME NEW i \in Nat, NEW j \in i .. head, i >= root - 1
      PROVE  VersionsAfter(i, j)' = VersionsAfter(i, j)
  <2>1. \A k \in i + 1 .. j : k \in root .. head
    BY <1>1, <1>3
  <2> QED
    BY <1>2, <2>1 DEF VersionsAfter
<1>4. History \subseteq History'
  <2>1. \A k \in root - 1 + 1 .. head : k \in root .. head /\ k \in root - 1 + 1 .. head'
    BY <1>1
  <2> QED
    BY <1>2, <2>1 DEF History, VersionsAfter
<1>5. \A k \in 1 .. head : Present(k)' = Present(k)
  BY <1>1 DEF Present
<1> QED
  BY <1>3, <1>4, <1>5

LEMMA UnrecoverableStays ==
  ASSUME TypeOK, [Next]_vars, UNCHANGED root, NEW i \in Nat, Unrecoverable(i)
  PROVE  Unrecoverable(i)'
<1>1. head \in Nat /\ head' \in Nat /\ head <= head'
  BY Growth
<1>2. PICK k \in i + 1 .. head : Present(k) = {}
  BY DEF Unrecoverable
<1>3. k \in 1 .. head /\ k \in i + 1 .. head'
  BY <1>1
<1>4. Present(k)' = {}
  BY <1>2, <1>3, VersionsStay
<1> QED
  BY <1>3, <1>4 DEF Unrecoverable

\* A step that records nothing leaves complete what is complete.
LEMMA VersionsKept ==
  ASSUME TypeOK, [Next]_vars, UNCHANGED <<root, versions>>, Sound,
         NEW c \in root .. head, Complete(c)
  PROVE  Sound' /\ Complete(c)'
<1>1. head \in Nat /\ root \in Nat \ {0}
  BY DEF TypeOK, head
<1>2. Sound'
  BY VersionsStay DEF Sound
<1>3. CASE Upgrade /\ versions = {}
  BY <1>2, <1>3 DEF Complete
<1>4. ASSUME NEW i \in root - 1 .. c,
             {v \in versions : v[1] <= c} = VersionsAfter(i, c),
             i = root - 1 \/ Unrecoverable(i)
      PROVE  Complete(c)'
  <2>1. i \in Nat /\ c \in i .. head /\ i >= root - 1
    BY <1>1
  <2>2. VersionsAfter(i, c)' = VersionsAfter(i, c)
    BY <2>1, VersionsStay
  <2>3. i = root - 1 \/ Unrecoverable(i)'
    BY <1>4, <2>1, UnrecoverableStays
  <2> QED
    BY <1>4, <2>2, <2>3 DEF Complete
<1> QED
  BY <1>2, <1>3, <1>4 DEF Complete

\* If there is nothing new, what was complete is complete up to the newer commit.
LEMMA EmptyScanComplete ==
  ASSUME TypeOK, Sound, NEW p \in root .. head, Complete(p),
         NEW c \in p .. head
  PROVE  VersionsAfter(p, c) = {} => Complete(c)
<1>1. head \in Nat /\ root \in Nat \ {0} /\ p \in Nat /\ c \in Nat
  BY DEF TypeOK, head
<1>0. ASSUME NEW i \in root - 1 .. p
      PROVE  VersionsAfter(i, c) = VersionsAfter(i, p) \cup VersionsAfter(p, c)
  <2>1. i \in Nat /\ p \in i .. head /\ c \in p .. head
    BY <1>1
  <2> QED
    BY <1>1, <2>1, VersionsSplit
<1> HAVE VersionsAfter(p, c) = {}
<1>2. ASSUME NEW i \in root - 1 .. p,
             {v \in versions : v[1] <= p} = VersionsAfter(i, p),
             i = root - 1 \/ Unrecoverable(i)
      PROVE  Complete(c)
  <2>1. /\ root - 1 \in Nat /\ i \in Nat /\ p \in i .. head /\ c \in p .. head
        /\ head \in c .. head /\ c \in root - 1 .. head /\ p \in root - 1 .. head
        /\ i \in root - 1 .. c
    BY <1>1
  <2>2. VersionsAfter(i, c) = VersionsAfter(i, p)
    BY <1>0
  <2>3. {v \in History : v[1] <= c} = VersionsAfter(root - 1, c)
    BY <1>1, <2>1, VersionsSplit DEF History
  <2>4. VersionsAfter(root - 1, c) = VersionsAfter(root - 1, p)
    <3>1. root - 1 \in root - 1 .. p
      BY <1>1
    <3> QED
      BY <1>0, <3>1
  <2>5. \A v \in VersionsAfter(root - 1, p) : v[1] \in Nat /\ v[1] <= p
    BY <1>1 DEF VersionsAfter
  <2>6. \A v \in versions : v[1] <= c => v[1] <= p
    BY <2>3, <2>4, <2>5 DEF Sound
  <2>7. \A v \in versions : v[1] \in Nat
    BY <1>1 DEF Sound, History, VersionsAfter
  <2>8. {v \in versions : v[1] <= c} = {v \in versions : v[1] <= p}
    BY <1>1, <2>6, <2>7
  <2> QED
    BY <1>2, <2>1, <2>2, <2>8 DEF Complete
<1> QED
  BY <1>2 DEF Complete

\* With all of the present history recorded, every part of it is complete.
LEMMA HistoryComplete ==
  ASSUME TypeOK, versions' = History, UNCHANGED <<commits, root>>
  PROVE  Sound' /\ \A c \in root .. head : Complete(c)'
<1>1. head \in Nat /\ root \in Nat \ {0}
  BY DEF TypeOK, head
<1>2. History' = History /\ head' = head
  BY DEF History, VersionsAfter, Adds, Doc, head
<1>3. ASSUME NEW c \in root .. head
      PROVE  Complete(c)'
  <2>1. root - 1 \in Nat /\ c \in root - 1 .. head /\ head \in c .. head
        /\ root - 1 \in root - 1 .. c
    BY <1>1
  <2>2. {v \in History : v[1] <= c} = VersionsAfter(root - 1, c)
    BY <1>1, <2>1, VersionsSplit DEF History
  <2>3. VersionsAfter(root - 1, c)' = VersionsAfter(root - 1, c)
    BY DEF VersionsAfter, Adds, Doc
  <2> QED
    BY <2>1, <2>2, <2>3 DEF Complete
<1> QED
  BY <1>2, <1>3 DEF Sound

\* What the scan finds, added to versions that are complete up to its start p,
\* makes them complete up to any later commit.
LEMMA ScannedComplete ==
  ASSUME TypeOK, Sound, NEW p \in root .. head, Complete(p),
         UNCHANGED <<commits, root>>,
         versions' = versions \cup VersionsAfter(p, head),
         Upgrade /\ versions = {} => Unrecoverable(p)
  PROVE  Sound' /\ \A c \in p .. head : Complete(c)'
<1>1. head \in Nat /\ root \in Nat \ {0} /\ p \in Nat
  BY DEF TypeOK, head
<1>2. /\ History' = History /\ head' = head
      /\ \A i \in Nat : Unrecoverable(i)' = Unrecoverable(i)
      /\ \A i \in Nat, c \in Nat : VersionsAfter(i, c)' = VersionsAfter(i, c)
  BY DEF History, VersionsAfter, Adds, Doc, head, Unrecoverable, Present
<1>3. /\ root - 1 \in Nat /\ p \in root - 1 .. head /\ head \in p .. head
  BY <1>1
<1>4. VersionsAfter(p, head) \subseteq History
  BY <1>1, <1>3, VersionsSplit DEF History
<1>5. Sound'
  BY <1>2, <1>4 DEF Sound
<1>6. ASSUME NEW c \in p .. head, NEW i \in root - 1 .. p,
             {v \in versions : v[1] <= p} = VersionsAfter(i, p),
             i = root - 1 \/ Unrecoverable(i)
      PROVE  Complete(c)'
  <2>1. /\ i \in Nat /\ c \in Nat /\ p \in i .. head /\ c \in p .. head
        /\ head \in c .. head /\ c \in p .. head
    BY <1>1
  <2>2. VersionsAfter(i, c) = VersionsAfter(i, p) \cup VersionsAfter(p, c)
    BY <1>1, <2>1, VersionsSplit
  <2>3. {v \in VersionsAfter(p, head) : v[1] <= c} = VersionsAfter(p, c)
    BY <1>1, <2>1, VersionsSplit
  <2>4. {v \in History : v[1] > p} = VersionsAfter(p, head)
    BY <1>1, <1>3, VersionsSplit DEF History
  <2>5. \A v \in History : v[1] \in Nat
    BY <1>1 DEF History, VersionsAfter
  <2>6. \A v \in versions : v[1] \in Nat /\ (v[1] > p => v \in VersionsAfter(p, head))
    BY <2>4, <2>5 DEF Sound
  <2>7. \A v \in VersionsAfter(p, head) : v[1] \in Nat /\ v[1] > p
    BY <1>1 DEF VersionsAfter
  <2>8. {v \in versions' : v[1] <= c} = VersionsAfter(i, c)
    <3>1. \A v \in versions' : v[1] <= c <=> v \in VersionsAfter(i, p) \cup VersionsAfter(p, c)
      BY <1>1, <1>6, <2>1, <2>3, <2>6, <2>7
    <3>2. VersionsAfter(i, p) \cup VersionsAfter(p, c) \subseteq versions'
      BY <1>6, <2>3
    <3> QED
      BY <2>2, <3>1, <3>2
  <2>9. i \in root - 1 .. c
    BY <1>1, <2>1
  <2> QED
    BY <1>2, <1>6, <2>1, <2>8, <2>9 DEF Complete
<1>7. ASSUME NEW c \in p .. head, Upgrade, versions = {}
      PROVE  Complete(c)'
  <2>1. /\ c \in Nat /\ c \in p .. head /\ head \in c .. head /\ p \in root - 1 .. c
    BY <1>1
  <2>2. {v \in VersionsAfter(p, head) : v[1] <= c} = VersionsAfter(p, c)
    BY <1>1, <2>1, VersionsSplit
  <2>3. versions' = VersionsAfter(p, head)
    BY <1>7
  <2> QED
    BY <1>1, <1>2, <1>7, <2>1, <2>2, <2>3 DEF Complete
<1> QED
  BY <1>5, <1>6, <1>7 DEF Complete

\* The commits a pass that is no baseline works with.
LEMMA PassCommits ==
  ASSUME TypeOK, CheckpointOK, pc \in AfterSelection, ~pass.baseline
  PROVE  /\ Reachable(pass.previous)
         /\ pass.previous.commit \in root .. pass.commit
         /\ pass.commit \in root .. head /\ pass.previous.commit \in root .. head
         /\ head \in Nat /\ root \in Nat \ {0}
         /\ checkpoint # None => checkpoint.commit = pass.previous.commit
<1>1. Reachable(pass.previous) /\ pass.commit \in root .. head
      /\ head \in Nat /\ root \in Nat \ {0}
  BY DEF TypeOK, head
<1>2. /\ pass.previous.commit \in 1 .. head /\ pass.previous.commit <= pass.commit
      /\ checkpoint # None => checkpoint.commit = pass.previous.commit
  BY <1>1 DEF CheckpointOK, Reachable
<1> QED
  BY <1>1, <1>2 DEF Reachable

LEMMA VersionsRecorded ==
  ASSUME IInv, VersionsOK, RecordVersions
  PROVE  VersionsOK'
<1>0. TypeOK /\ CheckpointOK /\ PassOK
  BY DEF IInv
<1>1. /\ pc = "versions" /\ pc' = "failures" /\ pc \in AfterSelection
      /\ UNCHANGED <<commits, root, checkpoint, pass>>
      /\ pass.commit \in root .. head
  BY <1>0 DEF RecordVersions, AfterSelection, Steps, TypeOK
<1>2. pass.history' = pass.history
      /\ (~pass.baseline => pass.history = Rewritten(pass.previous.commit, pass.commit))
  BY <1>1 DEF VersionsOK
<1>3. Rewritten(pass.previous.commit, pass.commit)' = Rewritten(pass.previous.commit, pass.commit)
  BY <1>1 DEF Rewritten, Doc
<1>4. CASE versions' = History /\ (pass.baseline => ~Reachable(pass.previous))
  <2>1. Sound' /\ \A c \in root .. head : Complete(c)'
    BY <1>0, <1>1, <1>4, HistoryComplete
  <2>2. checkpoint # None => checkpoint.commit \in 1 .. head
    BY <1>0 DEF CheckpointOK
  <2>3. pass.previous # None => pass.previous.commit \in 1 .. head
    BY <1>0, <1>1 DEF CheckpointOK
  <2>4. head \in Nat /\ root \in Nat \ {0}
    BY <1>0 DEF TypeOK, head
  <2>5. /\ Reachable(checkpoint)' => Complete(checkpoint.commit)'
        /\ Reachable(pass.previous)' => Complete(pass.previous.commit)'
        /\ Complete(pass.commit)'
    BY <1>1, <2>1, <2>2, <2>3, <2>4 DEF Reachable, Complete
  <2> QED
    BY <1>1, <1>2, <1>3, <2>1, <2>5 DEF VersionsOK
<1>5. CASE /\ ~pass.baseline /\ ~(versions = {} /\ rows # NoRows)
           /\ versions' = IF pass.history # {}
                          THEN versions \cup VersionsAfter(pass.previous.commit, head)
                          ELSE versions
  <2>1. PICK p \in root .. head : p = pass.previous.commit
    BY <1>0, <1>1, <1>5, PassCommits
  <2>2. /\ pass.commit \in p .. head /\ Reachable(pass.previous) /\ p \in p .. head
        /\ checkpoint # None => checkpoint.commit = p
        /\ head \in Nat /\ root \in Nat \ {0}
    BY <1>0, <1>1, <1>5, <2>1, PassCommits
  <2>3. Sound /\ Complete(p)
    BY <1>1, <2>1, <2>2 DEF VersionsOK, Complete
  <2>4. CASE pass.history # {}
    <3>1. Upgrade /\ versions = {} => Unrecoverable(p)
      <4>1. SUFFICES ASSUME Upgrade, rows = NoRows PROVE Unrecoverable(p)
        BY <1>5
      <4>2. pass.commit \in p + 1 .. head
        <5>1. PICK d \in Docs, k \in p + 1 .. pass.commit : TRUE
          BY <1>2, <1>5, <2>1, <2>4 DEF Rewritten
        <5> QED
          BY <2>2, <5>1
      <4>3. \A d \in Docs : RowMatches(d, pass.commit)
        BY <1>0, <1>1 DEF PassOK, Pending
      <4>4. Present(pass.commit) = {}
        BY <4>1, <4>3 DEF Present, RowMatches, ResultOf, NoRows
      <4> QED
        BY <4>1, <4>2, <4>4 DEF Unrecoverable
    <3>2. versions' = versions \cup VersionsAfter(p, head)
      BY <1>5, <2>1, <2>4
    <3>3. Sound' /\ \A c \in p .. head : Complete(c)'
      BY <1>0, <1>1, <2>3, <3>1, <3>2, ScannedComplete
    <3>4. /\ Reachable(checkpoint)' => Complete(checkpoint.commit)'
          /\ Complete(pass.previous.commit)' /\ Complete(pass.commit)'
      BY <1>1, <2>1, <2>2, <3>3 DEF Reachable, Complete
    <3> QED
      BY <1>1, <1>2, <1>3, <3>3, <3>4 DEF VersionsOK
  <2>5. CASE pass.history = {}
    <3>1. VersionsAfter(p, pass.commit) = {}
      <4>1. Rewritten(p, pass.commit) = {}
        BY <1>2, <1>5, <2>1, <2>5
      <4>2. \A k \in p + 1 .. pass.commit : k # root
        BY <2>1, <2>2
      <4> QED
        BY <4>1, <4>2 DEF VersionsAfter, Adds, Rewritten
    <3>2. UNCHANGED <<commits, root, versions>>
      BY <1>1, <1>5, <2>5
    <3>3. Complete(pass.commit)
      BY <1>0, <2>2, <2>3, <3>1, EmptyScanComplete
    <3>4. Sound' /\ \A c : Complete(c)' = Complete(c)
      BY <2>3, <3>2
      DEF Sound, Complete, History, VersionsAfter, Adds, Doc, head, Unrecoverable, Present
    <3>5. /\ Reachable(checkpoint)' => Complete(checkpoint.commit)'
          /\ Complete(pass.previous.commit)' /\ Complete(pass.commit)'
      BY <1>1, <2>1, <2>2, <2>3, <3>3, <3>4 DEF Reachable, Complete
    <3> QED
      BY <1>1, <1>2, <1>3, <3>4, <3>5 DEF VersionsOK
  <2> QED
    BY <2>4, <2>5
<1>6. pass.baseline => ~Reachable(pass.previous)
  BY <1>0, <1>1 DEF CheckpointOK
<1> QED
  BY <1>4, <1>5, <1>6 DEF RecordVersions

\* Within a pass the repository stays the same one.
LEMMA RootStep ==
  ASSUME TypeOK, [Next]_vars
  PROVE  UNCHANGED root \/ (root' = head + 1 /\ pc' = "idle")
<1>1. CASE MidPass
  BY <1>1, MidPassKeeps
<1>2. CASE ~MidPass
  BY <1>2
  DEF Next, Environment, Work, MidPass, vars, durable, Reconfigure, ExternalRemoval,
      RemoveRepository, Sync, StartSync, Revalidate, LoadCheckpoint, SelectInputs,
      SelectionFails, Interrupt, Publish
<1> QED
  BY <1>1, <1>2

LEMMA RecordsVersions ==
  ASSUME [Next]_vars, ~RecordVersions
  PROVE  UNCHANGED versions
BY DEF Next, Environment, Work, vars, durable, Reconfigure, ExternalRemoval,
       RemoveRepository, Sync, StartSync, Revalidate, LoadCheckpoint, SelectInputs,
       SelectionFails, Interrupt, Publish, DeleteAllRows, DeleteRow, ValidateOne,
       SaveRetrievalErrors, SaveSummary

\* What a pass is about, in every step of it but the selection.
LEMMA PassStays ==
  ASSUME TypeOK, [Next]_vars, ~SelectInputs, pc' \in AfterSelection
  PROVE  /\ pc \in AfterSelection
         /\ pc' \in {"failures", "summary", "publish"} =>
              pc \in {"failures", "summary", "publish"} \/ RecordVersions
         /\ pass'.previous = pass.previous /\ pass'.commit = pass.commit
         /\ pass'.baseline = pass.baseline /\ pass'.history = pass.history
<1>1. CASE MidPass
  <2>1. /\ pc \in AfterSelection
        /\ pass'.previous = pass.previous /\ pass'.commit = pass.commit
        /\ pass'.baseline = pass.baseline
    BY <1>1, MidPassKeeps
  <2>2. /\ pass'.history = pass.history
        /\ pc' \in {"failures", "summary", "publish"} =>
              pc \in {"failures", "summary", "publish"} \/ RecordVersions
    BY <1>1
    DEF MidPass, DeleteAllRows, DeleteRow, ValidateOne, RecordVersions,
        SaveRetrievalErrors, SaveSummary, TypeOK, Pass, AfterClean
  <2> QED
    BY <2>1, <2>2
<1>2. CASE ~MidPass
  <2>1. ~Publish
    BY DEF Publish, AfterSelection
  <2>2. UNCHANGED <<pc, pass>>
    BY <1>2, <2>1, OtherSteps DEF LoadCheckpoint, AfterSelection
  <2> QED
    BY <2>2
<1> QED
  BY <1>1, <1>2

LEMMA VersionsStep ==
  ASSUME IInv, IInv', VersionsOK, [Next]_vars
  PROVE  VersionsOK'
<1>0. TypeOK /\ TypeOK' /\ CheckpointOK
  BY DEF IInv
<1>1. CASE RecordVersions
  BY <1>1, VersionsRecorded
<1>2. CASE ~RecordVersions
  <2>0. /\ UNCHANGED versions
        /\ head \in Nat /\ root \in Nat \ {0}
        /\ UNCHANGED root \/ (root' = head + 1 /\ pc' = "idle")
    BY <1>0, <1>2, RecordsVersions, RootStep DEF TypeOK, head
  <2>1. ASSUME Reachable(checkpoint)'
        PROVE  Sound' /\ Complete(checkpoint.commit)'
    <3>1. CASE Publish
      <4>1. /\ pc = "publish" /\ pc \in AfterSelection
            /\ UNCHANGED root /\ checkpoint'.commit = pass.commit
        BY <3>1 DEF Publish, AfterSelection, Steps
      <4>2. PICK c \in root .. head : c = pass.commit
        BY <1>0, <4>1 DEF TypeOK
      <4>3. Sound /\ Complete(c)
        BY <4>1, <4>2 DEF VersionsOK, Complete
      <4>4. Sound' /\ Complete(c)'
        BY <1>0, <2>0, <4>1, <4>3, VersionsKept
      <4> QED
        BY <4>1, <4>2, <4>4 DEF Complete
    <3>2. CASE ~Publish
      <4>1. PICK c : c = checkpoint.commit
        OBVIOUS
      <4>2. /\ Reachable(checkpoint) /\ checkpoint'.commit = c
            /\ c \in root' .. head
        BY <1>0, <2>1, <3>2, <4>1, CheckpointSame
      <4>3. UNCHANGED root /\ c \in root .. head
        BY <2>0, <4>2
      <4>4. Sound /\ Complete(c)
        BY <4>1, <4>2 DEF VersionsOK, Complete
      <4>5. Sound' /\ Complete(c)'
        BY <1>0, <2>0, <4>3, <4>4, VersionsKept
      <4> QED
        BY <4>2, <4>5 DEF Complete
    <3> QED
      BY <3>1, <3>2
  <2>2. ASSUME pc' = "select", Reachable(pass.previous)'
        PROVE  Sound' /\ Complete(pass.previous.commit)'
    <3>0. UNCHANGED root
      BY <2>0, <2>2
    <3>1. \/ pass'.previous = pass.previous /\ pc = "select"
          \/ pass'.previous = checkpoint
      <4>1. ~MidPass /\ ~Publish
        BY <1>0, <2>2, MidPassKeeps DEF Publish, AfterSelection
      <4>2. ~SelectInputs
        BY <2>2 DEF SelectInputs
      <4>3. UNCHANGED <<pc, pass>> \/ LoadCheckpoint
        BY <1>0, <2>2, <4>1, <4>2, OtherSteps
      <4> QED
        BY <1>0, <2>2, <4>3 DEF LoadCheckpoint, TypeOK, Pass
    <3>2. PICK c : c = pass'.previous.commit
      OBVIOUS
    <3>3. pass'.previous # None /\ c >= root
      BY <2>2, <3>0, <3>2 DEF Reachable
    <3>4. c \in 1 .. head
      BY <1>0, <3>1, <3>2, <3>3 DEF CheckpointOK
    <3>5. Sound /\ Complete(c)
      BY <3>1, <3>2, <3>3 DEF VersionsOK, Complete, Reachable
    <3>6. c \in root .. head
      BY <2>0, <3>3, <3>4
    <3>7. Sound' /\ Complete(c)'
      BY <1>0, <2>0, <3>0, <3>5, <3>6, VersionsKept
    <3> QED
      BY <3>2, <3>7 DEF Complete
  <2>3. CASE SelectInputs
    <3>1. /\ pc = "select" /\ UNCHANGED <<commits, root>>
          /\ pc' \in AfterSelection
          /\ pc' \in {"clean", "validate", "versions"}
          /\ pass'.previous = pass.previous /\ pass'.commit = head
          /\ pass'.baseline = Baseline /\ pass'.history = ChangedHistory
      BY <1>0, <2>3 DEF SelectInputs, TypeOK, Pass, AfterSelection, Steps
    <3>2. ASSUME Reachable(pass.previous)'
          PROVE  Sound' /\ Complete(pass.previous.commit)'
      <4>1. PICK c : c = pass.previous.commit
        OBVIOUS
      <4>2. Reachable(pass.previous) /\ c >= root
        BY <3>1, <3>2, <4>1 DEF Reachable
      <4>3. c \in 1 .. head
        BY <1>0, <3>1, <4>1, <4>2 DEF CheckpointOK, Reachable
      <4>4. Sound /\ Complete(c)
        BY <3>1, <4>1, <4>2 DEF VersionsOK, Complete
      <4>5. c \in root .. head
        BY <2>0, <4>2, <4>3
      <4>6. Sound' /\ Complete(c)'
        BY <1>0, <2>0, <3>1, <4>4, <4>5, VersionsKept
      <4> QED
        BY <3>1, <4>1, <4>6 DEF Complete
    <3>3. ~pass'.baseline => pass'.history = Rewritten(pass.previous.commit, pass.commit)'
      BY <3>1 DEF ChangedHistory, Rewritten, Doc
    <3> QED
      BY <2>1, <3>1, <3>2, <3>3 DEF VersionsOK
  <2>4. CASE ~SelectInputs /\ pc' \in AfterSelection
    <3>0. UNCHANGED root
      BY <2>0, <2>4 DEF AfterSelection
    <3>1. /\ pc \in AfterSelection
          /\ pc' \in {"failures", "summary", "publish"} =>
               pc \in {"failures", "summary", "publish"}
          /\ pass'.previous = pass.previous /\ pass'.commit = pass.commit
          /\ pass'.baseline = pass.baseline /\ pass'.history = pass.history
      BY <1>0, <1>2, <2>4, PassStays
    <3>2. ASSUME Reachable(pass.previous)'
          PROVE  Sound' /\ Complete(pass.previous.commit)'
      <4>1. PICK c : c = pass.previous.commit
        OBVIOUS
      <4>2. Reachable(pass.previous) /\ c >= root
        BY <3>0, <3>1, <3>2, <4>1 DEF Reachable
      <4>3. c \in 1 .. head
        BY <1>0, <3>1, <4>1, <4>2 DEF CheckpointOK, Reachable
      <4>4. Sound /\ Complete(c)
        BY <3>1, <4>1, <4>2 DEF VersionsOK, Complete
      <4>5. c \in root .. head
        BY <2>0, <4>2, <4>3
      <4>6. Sound' /\ Complete(c)'
        BY <1>0, <2>0, <3>0, <4>4, <4>5, VersionsKept
      <4> QED
        BY <3>1, <4>1, <4>6 DEF Complete
    <3>3. ASSUME pc' \in {"failures", "summary", "publish"}
          PROVE  Sound' /\ Complete(pass.commit)'
      <4>1. PICK c \in root .. head : c = pass.commit
        BY <1>0, <3>1 DEF TypeOK
      <4>2. Sound /\ Complete(c)
        BY <3>1, <3>3, <4>1 DEF VersionsOK, Complete
      <4>3. Sound' /\ Complete(c)'
        BY <1>0, <2>0, <3>0, <4>2, VersionsKept
      <4> QED
        BY <3>1, <4>1, <4>3 DEF Complete
    <3>4. ASSUME ~pass'.baseline
          PROVE  pass'.history = Rewritten(pass.previous.commit, pass.commit)'
      <4>1. pass.history = Rewritten(pass.previous.commit, pass.commit)
        BY <3>1, <3>4 DEF VersionsOK
      <4>2. /\ pass.previous.commit \in root .. pass.commit
            /\ pass.commit \in root .. head
        BY <1>0, <3>1, <3>4, PassCommits
      <4>3. \A k \in pass.previous.commit + 1 .. pass.commit :
              k \in 1 .. head /\ k - 1 \in 1 .. head
        BY <2>0, <4>2
      <4>4. \A k \in 1 .. head : \A d : Doc(d, k)' = Doc(d, k)
        BY <1>0, Growth DEF Doc
      <4>5. Rewritten(pass.previous.commit, pass.commit)'
              = Rewritten(pass.previous.commit, pass.commit)
        BY <3>1, <4>3, <4>4 DEF Rewritten
      <4> QED
        BY <3>1, <4>1, <4>5
    <3> QED
      BY <2>1, <2>4, <3>2, <3>3, <3>4 DEF VersionsOK, AfterSelection
  <2>5. CASE pc' \notin AfterSelection
    BY <2>1, <2>2, <2>5 DEF VersionsOK, AfterSelection, Steps
  <2> QED
    BY <2>3, <2>4, <2>5
<1> QED
  BY <1>1, <1>2

LEMMA VersionsInit == Init => VersionsOK
<1> SUFFICES ASSUME Init PROVE VersionsOK
  OBVIOUS
<1>1. /\ pc = "idle" /\ versions = {}
      /\ Reachable(checkpoint) => Upgrade
  BY DEF Init, Fresh, Reachable
<1> QED
  BY <1>1 DEF VersionsOK, AfterSelection, Complete, Sound

\* The versions up to the checkpoint are those of git, whatever passes died, others
\* removed, or was deleted; what an upgraded database may lack is all before a
\* commit that left no advisory.
THEOREM VersionsAlwaysMatch == Spec => []VersionsMatchHistory
<1>1. VersionsOK => VersionsMatchHistory
  BY DEF VersionsOK, VersionsMatchHistory, Complete
<1>2. IInv /\ IInv' /\ VersionsOK /\ [Next]_vars => VersionsOK'
  BY VersionsStep
<1> QED
  BY <1>1, <1>2, VersionsInit, Invariance, PTL DEF Spec

-----------------------------------------------------------------------------
(* What a pass shows of retrieval *)

\* An advisory that was downloaded again is validated anew or has no failure to
\* lose; the failures of the run are marked last.
OutcomeOK ==
  pc \in AfterSelection =>
    /\ \A d \in Present(pass.commit) :
         d \in pass.downloaded \ DOMAIN pass.failures /\ Failed(d) => d \in pass.todo
    /\ pc \in {"summary", "publish"} =>
         \A d \in DOMAIN pass.failures : rows[d] # None /\ rows[d].error = pass.failures[d]

LEMMA OutcomeSelected ==
  ASSUME TypeOK, SelectInputs
  PROVE  OutcomeOK'
<1>1. /\ UNCHANGED <<commits, rows>> /\ pc' \in {"clean", "validate", "versions"}
      /\ pass'.commit = head /\ pass'.downloaded = pass.downloaded
      /\ pass'.failures = pass.failures /\ pass'.todo = Selected
  BY DEF SelectInputs, TypeOK, Pass, AfterClean, durable
<1>2. ASSUME NEW d \in Present(head), d \in pass.downloaded, Failed(d)
      PROVE  d \in Selected
  BY <1>2 DEF Selected, Recovered, Failures, Present
<1>3. \A d : Failed(d)' <=> Failed(d)
  BY <1>1 DEF Failed
<1>4. Present(pass.commit)' = Present(head)
  BY <1>1 DEF Present, Doc
<1> QED
  BY <1>1, <1>2, <1>3, <1>4 DEF OutcomeOK

LEMMA OutcomeMarked ==
  ASSUME TypeOK, SaveRetrievalErrors, NEW d \in Docs
  PROVE  /\ d \in DOMAIN pass.failures => rows'[d] # None /\ rows'[d].error = pass.failures[d]
         /\ d \notin DOMAIN pass.failures => rows'[d] = rows[d]
<1>1. PICK r \in Row \cup {None} : r = rows[d]
  BY DEF TypeOK, Rows
<1>2. PICK n \in BOOLEAN :
        n <=> d \in DOMAIN pass.failures /\ (r = None \/ r.error # pass.failures[d])
  OBVIOUS
<1>3. rows'[d] = IF n
                 THEN IF r = None
                      THEN [input |-> None, under |-> None, error |-> pass.failures[d]]
                      ELSE [r EXCEPT !.error = pass.failures[d]]
                 ELSE r
  BY <1>1, <1>2 DEF SaveRetrievalErrors
<1>4. ASSUME d \in DOMAIN pass.failures
      PROVE  rows'[d] # None /\ rows'[d].error = pass.failures[d]
  <2>1. pass.failures[d] \in Errors
    BY <1>4 DEF TypeOK, Pass, FailureMap
  <2>2. CASE ~n
    BY <1>2, <1>3, <1>4, <2>2
  <2>3. CASE n /\ r = None
    <3>1. [input |-> None, under |-> None, error |-> pass.failures[d]] \in Row
      BY <2>1 DEF Row
    <3> QED
      BY <1>3, <2>3, <3>1, NoneAssumption
  <2>4. CASE n /\ r # None
    <3>1. PICK e : e = [r EXCEPT !.error = pass.failures[d]]
      OBVIOUS
    <3>2. e \in Row /\ e.error = pass.failures[d]
      BY <2>1, <2>4, <3>1 DEF Row
    <3> QED
      BY <1>3, <2>4, <3>1, <3>2, NoneAssumption
  <2> QED
    BY <2>2, <2>3, <2>4
<1>5. d \notin DOMAIN pass.failures => rows'[d] = rows[d]
  BY <1>1, <1>2, <1>3
<1> QED
  BY <1>4, <1>5

LEMMA OutcomeMidPass ==
  ASSUME TypeOK, PassOK, OutcomeOK, MidPass
  PROVE  OutcomeOK'
<1>1. /\ pc \in AfterSelection /\ pc' \in AfterSelection
      /\ UNCHANGED commits /\ pass'.commit = pass.commit
  BY MidPassKeeps
<1>2. /\ pass'.downloaded = pass.downloaded /\ pass'.failures = pass.failures
      /\ Present(pass.commit)' = Present(pass.commit)
  BY <1>1
  DEF MidPass, DeleteAllRows, DeleteRow, ValidateOne, RecordVersions,
      SaveRetrievalErrors, SaveSummary, TypeOK, Pass, Present, Doc
<1>3. \A d \in Present(pass.commit) :
        d \in pass.downloaded \ DOMAIN pass.failures /\ Failed(d) => d \in pass.todo
  BY <1>1 DEF OutcomeOK
<1>4. Present(pass.commit) \subseteq Docs
  BY DEF Present
<1>5. DOMAIN pass.failures \subseteq Docs
  BY DEF TypeOK, Pass, FailureMap
<1>6. CASE DeleteAllRows
  BY <1>1, <1>2, <1>4, <1>6 DEF DeleteAllRows, OutcomeOK, AfterClean, Failed, NoRows
<1>7. ASSUME NEW e \in Docs, DeleteRow(e) PROVE OutcomeOK'
  <2>1. /\ rows' = [rows EXCEPT ![e] = None] /\ pass'.todo = pass.todo
        /\ pc' \in {"clean", "validate", "versions"}
    BY <1>7 DEF DeleteRow, AfterClean, TypeOK, Pass
  <2>2. \A d \in Docs : Failed(d)' => Failed(d)
    BY <2>1 DEF Failed, TypeOK, Rows
  <2> QED
    BY <1>2, <1>3, <1>4, <2>1, <2>2 DEF OutcomeOK
<1>8. ASSUME NEW e \in Docs, ValidateOne(e) PROVE OutcomeOK'
  <2>1. /\ pass'.todo = pass.todo \ {e} /\ pc' \in {"validate", "versions"}
        /\ \A d \in Docs \ {e} : rows'[d] = rows[d]
    BY <1>8 DEF ValidateOne, TypeOK, Pass, Rows
  <2>2. rows'[e] = [input |-> Doc(e, pass.commit), under |-> pass.fingerprint, error |-> None]
    BY <1>8 DEF ValidateOne, TypeOK, Rows
  <2>3. ~Failed(e)' /\ \A d \in Docs \ {e} : Failed(d)' => Failed(d)
    BY <2>1, <2>2 DEF Failed
  <2> QED
    BY <1>2, <1>3, <1>4, <2>1, <2>3 DEF OutcomeOK
<1>9. CASE RecordVersions
  BY <1>1, <1>2, <1>3, <1>9 DEF RecordVersions, OutcomeOK, Failed
<1>10. CASE SaveRetrievalErrors
  <2>1. pass'.todo = pass.todo
    BY <1>10 DEF SaveRetrievalErrors, TypeOK, Pass
  <2>2. \A d \in Docs \ DOMAIN pass.failures : Failed(d)' => Failed(d)
    BY <1>10, OutcomeMarked DEF Failed
  <2>3. \A d \in DOMAIN pass.failures : rows'[d] # None /\ rows'[d].error = pass.failures[d]
    BY <1>5, <1>10, OutcomeMarked
  <2> QED
    BY <1>2, <1>3, <1>4, <2>1, <2>2, <2>3 DEF OutcomeOK
<1>11. CASE SaveSummary
  BY <1>1, <1>2, <1>3, <1>11 DEF SaveSummary, OutcomeOK, Failed
<1> QED
  BY <1>6, <1>7, <1>8, <1>9, <1>10, <1>11 DEF MidPass

LEMMA OutcomeStep ==
  ASSUME IInv, OutcomeOK, [Next]_vars
  PROVE  OutcomeOK'
<1>0. TypeOK /\ PassOK
  BY DEF IInv
<1>1. CASE MidPass
  BY <1>0, <1>1, OutcomeMidPass
<1>2. CASE SelectInputs
  BY <1>0, <1>2, OutcomeSelected
<1>3. CASE ~MidPass /\ ~SelectInputs
  <2>1. CASE pc' \notin AfterSelection
    BY <2>1 DEF OutcomeOK
  <2>2. CASE pc' \in AfterSelection
    <3>1. ~Publish /\ ~LoadCheckpoint /\ pc' \notin {"idle", "load"}
      BY <2>2 DEF Publish, LoadCheckpoint, AfterSelection
    <3>2. UNCHANGED <<rows, pc, pass>>
      BY <1>0, <1>3, <3>1, OtherSteps
    <3>3. PICK c \in 1 .. head : c = pass.commit
      BY <1>0, <2>2, <3>2 DEF TypeOK, head
    <3>4. Present(pass.commit)' = Present(pass.commit)
      BY <1>0, <3>2, <3>3, Growth DEF Present, Doc
    <3> QED
      BY <2>2, <3>2, <3>4 DEF OutcomeOK, Failed
  <2> QED
    BY <2>1, <2>2
<1> QED
  BY <1>1, <1>2, <1>3

\* What a completed pass shows of retrieval is what its own run met: its failures
\* are marked although older content was validated in the same pass, and an
\* advisory it downloaded has none (documents.rs save_retrieval_errors,
\* git_processing.rs include_recovered_downloads).
THEOREM OutcomeAlwaysShown == Spec => RetrievalOutcomeShown
<1>1. Init => OutcomeOK
  BY DEF Init, OutcomeOK, AfterSelection
<1>2. ASSUME IInv, OutcomeOK, Publish
      PROVE  /\ \A d \in DOMAIN pass.failures :
                  rows[d] # None /\ rows[d].error = pass.failures[d]
             /\ \A d \in pass.downloaded \ DOMAIN pass.failures :
                  d \in Present(pass.commit) => ~Failed(d)
  <2>1. pc = "publish" /\ pass.todo = {}
    BY <1>2 DEF Publish, IInv, PassOK, AfterSelection, Steps
  <2> QED
    BY <1>2, <2>1 DEF OutcomeOK, AfterSelection, Steps
<1>3. IInv /\ OutcomeOK /\ [Next]_vars =>
        [Publish =>
           /\ \A d \in DOMAIN pass.failures :
                rows[d] # None /\ rows[d].error = pass.failures[d]
           /\ \A d \in pass.downloaded \ DOMAIN pass.failures :
                d \in Present(pass.commit) => ~Failed(d)]_vars
  BY <1>2
<1>4. IInv /\ OutcomeOK /\ [Next]_vars => OutcomeOK'
  BY OutcomeStep
<1> QED
  BY <1>1, <1>3, <1>4, Invariance, PTL DEF Spec, RetrievalOutcomeShown

=============================================================================
