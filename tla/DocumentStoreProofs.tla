------------------------ MODULE DocumentStoreProofs ------------------------
(***************************************************************************)
(* Theorems about the document store and its readers, for every set of     *)
(* documents, files, profiles and tests and every number of passes: types, *)
(* one row per document, the tables that belong to a row, the page and the *)
(* filters of a request, the verdict, the versions a diff compares, and    *)
(* (last) the versions a history of many commits and passes leaves.        *)
(***************************************************************************)
EXTENDS DocumentReaders, VersionHistory, Integers, SequenceTheorems, FiniteSetTheorems,
        WellFoundedInduction, TLAPS

\* A pass that starts from nothing has no failures and no usable checkpoint
\* while it deletes.
PassInv ==
  /\ pass \in {"delete_vulns", "delete_rows"} => failures = {} /\ checkpoint \in {"none", "unreachable"}
  /\ pass = "delete_rows" => vulns = {}

\* What belongs to row r is stored with it, or deleted.
Attached(r) == FailuresOf(r.id) \in {{}, OwnFailures(r)} /\ CvesOf(r.id) \in {{}, OwnCves(r)}
Complete(r) == FailuresOf(r.id) = OwnFailures(r) /\ CvesOf(r.id) = OwnCves(r)

\* Unlike the checkpoint says, a pass past its deletions has everything too.
ChildrenInv ==
  /\ \A r \in rows : r.id < nextId
  /\ {x.row : x \in failures \cup vulns} \subseteq IdsOf(rows)
  /\ \A r \in rows : Attached(r)
  /\ checkpoint \in {"clean", "dirty"} \/ pass \in {"clean", "validate", "recorded"} =>
       \A r \in rows : Complete(r)

\* Rows on their way to a reader.
PageInv ==
  request.at = "failures" =>
    \A r \in request.rows : r.id < nextId /\ FailuresOf(r.id) \in {{}, OwnFailures(r)}

\* A row carries the outcome of its file, or that of a failed download on top.
OutcomeOf(r) ==
  /\ r.of.kind # "uncheckable"
  /\ r.profiles = Result(r.url, r.of).profiles
  /\ \/ r.checks = Checks(r.of) /\ r.retrieval_error = Result(r.url, r.of).retrieval_error
     \/ /\ r.checks["retrieval"] \in {"failed", "missing"}
        /\ r.retrieval_error = TRUE

OutcomeInv == \A r \in rows : r.of # None => OutcomeOf(r)

\* The versions are those of the first commits, one for each, in order.
Reached(n) ==
  /\ \A v \in versions : v.commit \in 1 .. n
  /\ \A i \in 1 .. n : \E v \in versions : v.commit = i

VersionsInv ==
  /\ \E n \in 0 .. Len(log) : Reached(n)
  /\ \A v \in versions : v.id < nextVersion /\ v.url = log[v.commit]
  /\ \A v, w \in versions : v.commit < w.commit => v.id < w.id
  /\ \A v, w \in versions : v.commit = w.commit => v = w

DiffInv == request.at = "newer" /\ ~request.rebuilt => request.old \in versions

-----------------------------------------------------------------------------
(* Results of files *)

LEMMA StoreFacts ==
  /\ Files \subseteq File /\ None \notin File /\ None \notin Columns
  /\ None \notin {"match", "mismatch", "valid", "invalid"}
  /\ NameId \in [Urls -> Ids] /\ Lossy \in [Ids -> Ids]
  /\ IsFiniteSet(Tests) /\ IsFiniteSet(Severities)
  /\ LegacyResults \subseteq LegacyResult
<1>1. Severities = {"error"} \cup {"warning"} \cup {"info"}
  BY DEF Severities
<1>2. IsFiniteSet(Severities)
  BY <1>1, FS_EmptySet, FS_Singleton, FS_Union
<1> QED
  BY <1>2, StoreAssumption

LEMMA IssuesFinite ==
  ASSUME NEW f \in File, NEW p \in Profiles
  PROVE  /\ f.issues[p] \subseteq Tests \X Severities
         /\ IsFiniteSet(f.issues[p])
<1>1. f.issues[p] \in SUBSET (Tests \X Severities)
  BY DEF File
<1>2. IsFiniteSet(Tests \X Severities)
  BY StoreFacts, FS_Product
<1> QED
  BY <1>1, <1>2, FS_Subset

LEMMA ColumnsType ==
  ASSUME NEW f \in File, NEW p \in Profiles
  PROVE  [issues  |-> [v \in Severities |-> Cardinality({i \in f.issues[p] : i[2] = v})],
          tests   |-> Cardinality(Tests),
          failing |-> Cardinality({i[1] : i \in f.issues[p]})] \in Columns
<1>1. \A v \in Severities : Cardinality({i \in f.issues[p] : i[2] = v}) \in Nat
  <2> TAKE v \in Severities
  <2>1. IsFiniteSet({i \in f.issues[p] : i[2] = v})
    BY IssuesFinite, FS_Subset
  <2> QED
    BY <2>1, FS_CardinalityType
<1>2. Cardinality(Tests) \in Nat
  BY StoreFacts, FS_CardinalityType
<1>3. Cardinality({i[1] : i \in f.issues[p]}) \in Nat
  <2>1. {i[1] : i \in f.issues[p]} \subseteq Tests
    BY IssuesFinite
  <2> QED
    BY <2>1, StoreFacts, FS_Subset, FS_CardinalityType
<1> QED
  BY <1>1, <1>2, <1>3 DEF Columns

LEMMA DetailType ==
  ASSUME NEW f \in File, NEW p \in Profiles
  PROVE  Detail(f, p) \in Columns \cup {None}
BY ColumnsType DEF Detail

LEMMA StatusTypes ==
  ASSUME NEW f \in File
  PROVE  /\ Checks(f) \in [Stages -> Statuses]
         /\ Unevaluated \in [Stages -> Statuses]
<1>1. Unevaluated \in [Stages -> Statuses]
  BY DEF Unevaluated, Statuses
<1>2. SignatureStatus(f) \in Statuses /\ DigestStatus(f) \in Statuses
  BY DEF SignatureStatus, DigestStatus, Statuses
<1> QED
  BY <1>1, <1>2 DEF Checks, Statuses, Stages

LEMMA ResultTypes ==
  ASSUME NEW f \in File, NEW u \in Urls
  PROVE  /\ Result(u, f).url = u /\ Result(u, f).tid \in Ids
         /\ Result(u, f).checks \in [Stages -> Statuses]
         /\ Result(u, f).profiles \in [Profiles -> Columns \cup {None}]
         /\ Result(u, f).failing \subseteq FailedTest
         /\ Result(u, f).cves \subseteq Cves
         /\ Result(u, f).retrieval_error \in BOOLEAN
<1>1. TrackingId(u, f) \in Ids
  BY StoreFacts DEF TrackingId, File
<1>2. f.cves \subseteq Cves
  BY DEF File
<1> QED
  BY <1>1, <1>2, StatusTypes, DetailType DEF Result

LEMMA RowTypes ==
  ASSUME NEW f \in File, NEW u \in Urls, NEW id \in Nat
  PROVE  RowOf(id, Result(u, f), f) \in Row
BY ResultTypes DEF RowOf, Row

LEMMA StubTypes ==
  ASSUME NEW u \in Urls, NEW id \in Nat, NEW status \in {"failed", "missing"}
  PROVE  Stub(id, u, status) \in Row
<1>1. [Unevaluated EXCEPT !["retrieval"] = status] \in [Stages -> Statuses]
  BY DEF Unevaluated, Statuses, Stages
<1>2. Unprofiled \in [Profiles -> Columns \cup {None}]
  BY DEF Unprofiled
<1> QED
  BY <1>1, <1>2, StoreFacts DEF Stub, Row

LEMMA FailsTypes ==
  ASSUME NEW r \in Row, NEW status \in {"failed", "missing"}
  PROVE  /\ Fails(r, status) \in Row
         /\ Fails(r, status).id = r.id /\ Fails(r, status).url = r.url
         /\ Fails(r, status).tid = r.tid /\ Fails(r, status).of = r.of
         /\ Fails(r, status).profiles = r.profiles
         /\ Fails(r, status).checks["retrieval"] = status
         /\ Fails(r, status).retrieval_error = TRUE
<1>1. /\ [Unevaluated EXCEPT !["retrieval"] = status] \in [Stages -> Statuses]
      /\ [Unevaluated EXCEPT !["retrieval"] = status]["retrieval"] = status
  BY DEF Unevaluated, Statuses, Stages
<1> QED
  BY <1>1 DEF Fails, Row

LEMMA LegacyTypes ==
  ASSUME NEW u \in Urls, NEW l \in LegacyResults
  PROVE  /\ LegacyRow(u, l) \in Row
         /\ LegacyRow(u, l).id = 1 /\ LegacyRow(u, l).of = None
<1>1. Converted(l) \in [Stages -> Statuses]
  BY DEF Converted, Stages, Statuses
<1>2. Unprofiled \in [Profiles -> Columns \cup {None}]
  BY DEF Unprofiled
<1> QED
  BY <1>1, <1>2, StoreFacts DEF LegacyRow, Row

\* The last commit of a set of versions that reach the first n.
LEMMA SinceReached ==
  ASSUME NEW kept, kept \subseteq Version, NEW n \in Nat,
         \A v \in kept : v.commit \in 1 .. n,
         \A i \in 1 .. n : \E v \in kept : v.commit = i
  PROVE  Since(kept) = n
<1> DEFINE S == {0} \cup {v.commit : v \in kept}
<1>1. \A i \in S : i \in 0 .. n
  OBVIOUS
<1>2. n \in S
  <2>1. CASE n = 0
    BY <2>1
  <2>2. CASE n # 0
    <3>1. n \in 1 .. n
      BY <2>2
    <3> QED
      BY <3>1
  <2> QED
    BY <2>1, <2>2
<1>3. \A m \in S : (\A y \in S : m >= y) => m = n
  BY <1>1, <1>2
<1>4. \A y \in S : n >= y
  BY <1>1
<1> HIDE DEF S
<1>5. Max(S) = n
  BY <1>2, <1>3, <1>4 DEF Max
<1> QED
  BY <1>5 DEF Since, S

-----------------------------------------------------------------------------
(* Rows and what belongs to them *)

StoreInv == TypeOK /\ OneRowPerDocument /\ PassInv /\ ChildrenInv /\ PageInv /\ OutcomeInv

\* A request that reads a page is not disturbed.
LEMMA ObserveRequest ==
  ASSUME TypeOK, Observe, versions' \subseteq Version
  PROVE  /\ request' \in Requested
         /\ request'.at = "failures" => request' = request
<1>1. CASE request.at = "newer"
  <2>1. request \in [at : {"newer"}, old : Version, rebuilt : BOOLEAN]
    BY <1>1 DEF TypeOK, Requested, NoRequest
  <2> QED
    BY <1>1, <2>1 DEF Observe, TypeOK, Requested
<1>2. CASE request.at # "newer"
  BY <1>2 DEF Observe, TypeOK
<1> QED
  BY <1>1, <1>2

LEMMA PageKept ==
  ASSUME TypeOK, PageInv, Observe, versions' \subseteq Version, nextId' \in Nat, nextId <= nextId',
         \A id \in Nat : id < nextId => FailuresOf(id)' \in {{}, FailuresOf(id)}
  PROVE  PageInv'
<1> SUFFICES ASSUME request'.at = "failures", NEW r \in request.rows
             PROVE  r.id < nextId' /\ FailuresOf(r.id)' \in {{}, OwnFailures(r)}
  BY ObserveRequest DEF PageInv, OwnFailures
<1>1. request.at = "failures"
  BY ObserveRequest
<1>2. r \in Row
  BY <1>1 DEF TypeOK, Requested, NoRequest
<1>3. r.id \in Nat
  BY <1>2 DEF Row
<1>4. r.id < nextId /\ FailuresOf(r.id) \in {{}, OwnFailures(r)}
  BY <1>1 DEF PageInv
<1> QED
  BY <1>3, <1>4 DEF TypeOK

LEMMA Deleted ==
  ASSUME NEW ids, Delete(ids)
  PROVE  \A id : /\ FailuresOf(id)' = IF id \in ids THEN {} ELSE FailuresOf(id)
                 /\ CvesOf(id)' = IF id \in ids THEN {} ELSE CvesOf(id)
BY DEF Delete, FailuresOf, CvesOf

LEMMA RowIds ==
  ASSUME TypeOK
  PROVE  \A r \in rows : r.id \in Nat /\ r.url \in Urls /\ r.tid \in Ids
BY DEF TypeOK, Row

LEMMA UnchangedStore ==
  ASSUME StoreInv, Observe, TypeOK', PassInv', UNCHANGED store,
         checkpoint' \in {"clean", "dirty"} \/ pass' \in {"clean", "validate", "recorded"} =>
           checkpoint \in {"clean", "dirty"} \/ pass \in {"clean", "validate", "recorded"}
  PROVE  StoreInv'
<1>1. UNCHANGED <<rows, failures, vulns, nextId>>
  BY DEF store
<1>2. OneRowPerDocument' /\ OutcomeInv'
  BY <1>1 DEF StoreInv, OneRowPerDocument, OutcomeInv, OutcomeOf
<1>3. \A id : FailuresOf(id)' = FailuresOf(id) /\ CvesOf(id)' = CvesOf(id)
  BY <1>1 DEF FailuresOf, CvesOf
<1>4. ChildrenInv'
  BY <1>1, <1>3 DEF StoreInv, ChildrenInv, Attached, Complete, OwnFailures, OwnCves
<1>5. PageInv'
  <2>1. versions' \subseteq Version /\ nextId \in Nat /\ TypeOK /\ PageInv
    BY DEF TypeOK, StoreInv
  <2> QED
    BY <1>1, <1>3, <2>1, PageKept
<1> QED
  BY <1>2, <1>4, <1>5 DEF StoreInv

LEMMA StepBeginPass ==
  ASSUME StoreInv, BeginPass, Observe
  PROVE  StoreInv'
<1>1. UNCHANGED <<rows, vulns, nextId, log, versions, nextVersion, members>> /\ versions' \subseteq Version
  BY DEF BeginPass, recorded, StoreInv, TypeOK
<1>2. pass = "idle" /\ checkpoint' \in Checkpoints /\ baseline' \in BOOLEAN
      /\ pass' \in {"delete_vulns", "clean"}
  <2>1. checkpoint \in Checkpoints
    BY DEF StoreInv, TypeOK
  <2>2. checkpoint' = checkpoint \/ checkpoint' = "none"
    BY DEF BeginPass
  <2>3. baseline' = TRUE \/ baseline' = FALSE
    BY DEF BeginPass
  <2> QED
    BY <2>1, <2>2, <2>3 DEF BeginPass, Checkpoints
<1>3. failures' \in {{}, failures}
  BY DEF BeginPass
<1>4. TypeOK'
  BY <1>1, <1>2, <1>3, ObserveRequest DEF StoreInv, TypeOK, Passes
<1>5. PassInv'
  BY DEF BeginPass, PassInv
<1>6. CASE failures' = failures /\ (checkpoint \in {"clean", "dirty"} \/ pass' = "delete_vulns")
  <2>1. UNCHANGED store
    BY <1>1, <1>6 DEF store
  <2>2. pass' = "delete_vulns" => checkpoint' \notin {"clean", "dirty"}
    BY <1>5 DEF PassInv
  <2> QED
    BY <1>2, <1>4, <1>5, <1>6, <2>1, <2>2, UnchangedStore
<1>7. CASE failures' = {} /\ pass' = "delete_vulns"
  <2>1. checkpoint' \notin {"clean", "dirty"}
    BY <1>5, <1>7 DEF PassInv
  <2>2. \A id : FailuresOf(id)' = {} /\ CvesOf(id)' = CvesOf(id)
    BY <1>1, <1>7 DEF FailuresOf, CvesOf
  <2>3. OneRowPerDocument' /\ OutcomeInv'
    BY <1>1 DEF StoreInv, OneRowPerDocument, OutcomeInv, OutcomeOf
  <2>4. ChildrenInv'
    BY <1>1, <1>2, <1>7, <2>1, <2>2 DEF StoreInv, ChildrenInv, Attached, OwnFailures, OwnCves, IdsOf
  <2>5. PageInv'
    BY <1>1, <2>2, PageKept DEF StoreInv, TypeOK
  <2> QED
    BY <1>4, <1>5, <2>3, <2>4, <2>5 DEF StoreInv
<1>8. \/ failures' = failures /\ checkpoint \in {"clean", "dirty"}
      \/ failures' = {} /\ pass' = "delete_vulns"
  BY DEF BeginPass, StoreInv, TypeOK, Checkpoints
<1> QED
  BY <1>6, <1>7, <1>8

LEMMA StepDeleteVulns ==
  ASSUME StoreInv, DeleteVulns, Observe
  PROVE  StoreInv'
<1>1. /\ UNCHANGED <<rows, failures, nextId, log, versions, nextVersion, members, checkpoint, baseline>>
      /\ versions' \subseteq Version
  BY DEF DeleteVulns, recorded, StoreInv, TypeOK
<1>2. TypeOK'
  BY <1>1, ObserveRequest DEF DeleteVulns, StoreInv, TypeOK, Passes
<1>3. checkpoint' \notin {"clean", "dirty"} /\ pass' = "delete_rows" /\ failures' = {} /\ vulns' = {}
  BY <1>1 DEF DeleteVulns, StoreInv, PassInv
<1>4. \A id : FailuresOf(id)' = {} /\ CvesOf(id)' = {}
  BY <1>3 DEF FailuresOf, CvesOf
<1>5. OneRowPerDocument' /\ OutcomeInv' /\ PassInv'
  BY <1>1, <1>3 DEF StoreInv, OneRowPerDocument, OutcomeInv, OutcomeOf, PassInv, TypeOK, Checkpoints
<1>6. ChildrenInv'
  BY <1>1, <1>3, <1>4 DEF StoreInv, ChildrenInv, Attached, OwnFailures, OwnCves, IdsOf
<1>7. PageInv'
  BY <1>1, <1>4, PageKept DEF StoreInv, TypeOK
<1> QED
  BY <1>2, <1>5, <1>6, <1>7 DEF StoreInv

LEMMA StepDeleteRows ==
  ASSUME StoreInv, DeleteRows, Observe
  PROVE  StoreInv'
<1>1. /\ UNCHANGED <<failures, vulns, nextId, log, versions, nextVersion, members, checkpoint, baseline>>
      /\ versions' \subseteq Version
  BY DEF DeleteRows, recorded, StoreInv, TypeOK
<1>2. TypeOK'
  BY <1>1, ObserveRequest DEF DeleteRows, StoreInv, TypeOK, Passes
<1>3. rows' = {} /\ pass' = "clean" /\ failures' = {} /\ vulns' = {}
  BY <1>1 DEF DeleteRows, StoreInv, PassInv
<1>4. OneRowPerDocument' /\ OutcomeInv' /\ PassInv' /\ ChildrenInv'
  BY <1>3 DEF OneRowPerDocument, OutcomeInv, PassInv, ChildrenInv, IdsOf
<1>5. \A id : FailuresOf(id)' = {}
  BY <1>3 DEF FailuresOf
<1>6. PageInv'
  BY <1>1, <1>5, PageKept DEF StoreInv, TypeOK
<1> QED
  BY <1>2, <1>4, <1>6 DEF StoreInv

\* Rows are deleted with all that belongs to them.
LEMMA DeletedRows ==
  ASSUME StoreInv, NEW gone \in SUBSET rows, Delete(IdsOf(gone)), rows' = rows \ gone,
         nextId' = nextId
  PROVE  /\ OneRowPerDocument' /\ OutcomeInv'
         /\ failures' \subseteq failures /\ vulns' \subseteq vulns
         /\ \A r \in rows' : r.id < nextId'
         /\ {x.row : x \in failures' \cup vulns'} \subseteq IdsOf(rows')
         /\ \A r \in rows' : /\ FailuresOf(r.id)' = FailuresOf(r.id)
                             /\ CvesOf(r.id)' = CvesOf(r.id)
         /\ \A id \in Nat : id < nextId => FailuresOf(id)' \in {{}, FailuresOf(id)}
<1>1. OneRowPerDocument' /\ OutcomeInv'
  BY DEF StoreInv, OneRowPerDocument, OutcomeInv, OutcomeOf
<1>2. \A r \in rows' : r.id \notin IdsOf(gone)
  BY DEF StoreInv, OneRowPerDocument, IdsOf
<1>3. {x.row : x \in failures' \cup vulns'} \subseteq IdsOf(rows')
  BY DEF Delete, StoreInv, ChildrenInv, IdsOf
<1>4. failures' \subseteq failures /\ vulns' \subseteq vulns
  BY DEF Delete
<1>5. \A id : /\ FailuresOf(id)' = IF id \in IdsOf(gone) THEN {} ELSE FailuresOf(id)
             /\ CvesOf(id)' = IF id \in IdsOf(gone) THEN {} ELSE CvesOf(id)
  BY Deleted
<1>6. \A r \in rows' : r.id < nextId'
  BY DEF StoreInv, ChildrenInv
<1> QED
  BY <1>1, <1>2, <1>3, <1>4, <1>5, <1>6

LEMMA StepDeleteUrls ==
  ASSUME StoreInv, DeleteUrls, Observe
  PROVE  StoreInv'
<1>1. PICK gone \in SUBSET rows : rows' = rows \ gone /\ Delete(IdsOf(gone))
  BY DEF DeleteUrls
<1>2. /\ UNCHANGED <<nextId, log, versions, nextVersion, members, pass, baseline>>
      /\ versions' \subseteq Version /\ pass = "clean"
  BY DEF DeleteUrls, recorded, StoreInv, TypeOK
<1>3. checkpoint' \in Checkpoints
  BY DEF DeleteUrls, Dirtied, StoreInv, TypeOK, Checkpoints
<1>4. TypeOK'
  BY <1>1, <1>2, <1>3, DeletedRows, ObserveRequest DEF StoreInv, TypeOK
<1>5. PassInv'
  BY <1>2 DEF PassInv
<1>6. ChildrenInv'
  BY <1>1, <1>2, DeletedRows DEF StoreInv, ChildrenInv, Attached, Complete, OwnFailures, OwnCves
<1>7. PageInv'
  BY <1>1, <1>2, DeletedRows, PageKept DEF StoreInv, TypeOK
<1> QED
  BY <1>1, <1>2, <1>4, <1>5, <1>6, <1>7, DeletedRows DEF StoreInv

\* A result is inserted under a fresh id after the rows it replaces are gone.
LEMMA Inserted ==
  ASSUME StoreInv, NEW u \in Urls, NEW f \in Files, f.kind # "uncheckable",
         Insert(nextId, Result(u, f), f), nextId' = nextId + 1
  PROVE  /\ rows' \subseteq Row
         /\ failures' \subseteq [row : Nat, failed : FailedTest]
         /\ vulns' \subseteq [row : Nat, cve : Cves]
         /\ OneRowPerDocument' /\ OutcomeInv'
         /\ \A r \in rows' : r.id < nextId'
         /\ {x.row : x \in failures' \cup vulns'} \subseteq IdsOf(rows')
         /\ \A r \in rows' :
              \/ Complete(r)'
              \/ r \in rows /\ FailuresOf(r.id)' = FailuresOf(r.id) /\ CvesOf(r.id)' = CvesOf(r.id)
         /\ \A id \in Nat : id < nextId => FailuresOf(id)' \in {{}, FailuresOf(id)}
<1> DEFINE doc == Result(u, f)
           gone == Replaced(doc)
           new == RowOf(nextId, doc, f)
<1>1. f \in File /\ nextId \in Nat /\ f # None
  BY StoreFacts DEF StoreInv, TypeOK
<1>2. /\ doc.url = u /\ doc.tid \in Ids /\ doc.failing \subseteq FailedTest /\ doc.cves \subseteq Cves
      /\ new \in Row /\ new.id = nextId /\ new.url = u /\ new.tid = doc.tid /\ new.of = f
      /\ new.checks = doc.checks /\ new.profiles = doc.profiles
      /\ new.retrieval_error = doc.retrieval_error /\ doc.checks = Checks(f)
  <2>1. doc.checks = Checks(f)
    BY DEF Result
  <2>2. new.id = nextId /\ new.url = doc.url /\ new.tid = doc.tid /\ new.of = f
        /\ new.checks = doc.checks /\ new.profiles = doc.profiles
        /\ new.retrieval_error = doc.retrieval_error
    BY DEF RowOf
  <2> QED
    BY <1>1, <2>1, <2>2, ResultTypes, RowTypes
<1>3. /\ rows' = (rows \ gone) \cup {new}
      /\ failures' = {x \in failures : x.row \notin IdsOf(gone)} \cup [row : {nextId}, failed : doc.failing]
      /\ vulns' = {x \in vulns : x.row \notin IdsOf(gone)} \cup [row : {nextId}, cve : doc.cves]
  BY DEF Insert
<1>4. gone \subseteq rows
  BY DEF Replaced
<1>5. \A r \in rows \ gone : r.url # u /\ r.tid # doc.tid
  BY <1>2 DEF Replaced
<1>6. /\ \A r \in rows : r \in Row /\ r.id \in Nat /\ r.id < nextId
      /\ \A x \in failures \cup vulns : x.row \in Nat /\ x.row < nextId
      /\ \A x \in failures : x \in [row : Nat, failed : FailedTest]
      /\ \A x \in vulns : x \in [row : Nat, cve : Cves]
  <2>1. \A r \in rows : r \in Row /\ r.id \in Nat /\ r.id < nextId
    BY RowIds DEF StoreInv, TypeOK, ChildrenInv
  <2> QED
    BY <2>1 DEF StoreInv, TypeOK, ChildrenInv, IdsOf
<1> HIDE DEF doc, gone, new
<1>7. \A r \in rows \ gone : r.id \notin IdsOf(gone) /\ r.id # nextId
  BY <1>1, <1>4, <1>6 DEF StoreInv, OneRowPerDocument, IdsOf
<1>8. /\ rows' \subseteq Row
      /\ failures' \subseteq [row : Nat, failed : FailedTest]
      /\ vulns' \subseteq [row : Nat, cve : Cves]
  BY <1>1, <1>2, <1>3, <1>6
<1>9. OneRowPerDocument'
  <2>1. \A r \in rows \ gone : r.id # new.id /\ r.url # new.url /\ r.tid # new.tid
    BY <1>2, <1>5, <1>7
  <2> QED
    BY <1>3, <2>1 DEF StoreInv, OneRowPerDocument
<1>10. OutcomeInv'
  <2>1. OutcomeOf(new)
    BY <1>2 DEF OutcomeOf, doc
  <2> QED
    BY <1>3, <2>1 DEF StoreInv, OutcomeInv
<1>11. \A id : id # nextId =>
         /\ FailuresOf(id)' = IF id \in IdsOf(gone) THEN {} ELSE FailuresOf(id)
         /\ CvesOf(id)' = IF id \in IdsOf(gone) THEN {} ELSE CvesOf(id)
  BY <1>3 DEF FailuresOf, CvesOf
<1>12. /\ {x \in failures' : x.row = nextId} = [row : {nextId}, failed : doc.failing]
       /\ {x \in vulns' : x.row = nextId} = [row : {nextId}, cve : doc.cves]
  <2>1. \A x \in failures \cup vulns : x.row # nextId
    BY <1>1, <1>6
  <2>2. \A x \in [row : {nextId}, failed : doc.failing] : x.row = nextId
    OBVIOUS
  <2>3. \A x \in [row : {nextId}, cve : doc.cves] : x.row = nextId
    OBVIOUS
  <2> QED
    BY <1>3, <2>1, <2>2, <2>3
<1>13. /\ {x.failed : x \in [row : {nextId}, failed : doc.failing]} = doc.failing
       /\ {x.cve : x \in [row : {nextId}, cve : doc.cves]} = doc.cves
  <2>1. \A t \in doc.failing : \E x \in [row : {nextId}, failed : doc.failing] : x.failed = t
    <3> TAKE t \in doc.failing
    <3> WITNESS [row |-> nextId, failed |-> t] \in [row : {nextId}, failed : doc.failing]
    <3> QED
      OBVIOUS
  <2>2. \A c \in doc.cves : \E x \in [row : {nextId}, cve : doc.cves] : x.cve = c
    <3> TAKE c \in doc.cves
    <3> WITNESS [row |-> nextId, cve |-> c] \in [row : {nextId}, cve : doc.cves]
    <3> QED
      OBVIOUS
  <2>3. /\ \A x \in [row : {nextId}, failed : doc.failing] : x.failed \in doc.failing
        /\ \A x \in [row : {nextId}, cve : doc.cves] : x.cve \in doc.cves
    OBVIOUS
  <2>4. {x.failed : x \in [row : {nextId}, failed : doc.failing]} = doc.failing
    BY <2>1, <2>3
  <2>5. {x.cve : x \in [row : {nextId}, cve : doc.cves]} = doc.cves
    BY <2>2, <2>3
  <2> QED
    BY <2>4, <2>5
<1>14. \A id : id = nextId => FailuresOf(id)' = doc.failing /\ CvesOf(id)' = doc.cves
  BY <1>12, <1>13 DEF FailuresOf, CvesOf
<1>15. \A r \in rows' :
         \/ Complete(r)'
         \/ r \in rows /\ FailuresOf(r.id)' = FailuresOf(r.id) /\ CvesOf(r.id)' = CvesOf(r.id)
  <2>1. OwnFailures(new) = doc.failing /\ OwnCves(new) = doc.cves
    BY <1>1, <1>2 DEF OwnFailures, OwnCves, doc
  <2>2. \A r : r = new => Complete(r)'
    BY <1>2, <1>14, <2>1 DEF Complete, OwnFailures, OwnCves
  <2>3. \A r \in rows \ gone : FailuresOf(r.id)' = FailuresOf(r.id) /\ CvesOf(r.id)' = CvesOf(r.id)
    BY <1>7, <1>11
  <2> QED
    BY <1>3, <2>2, <2>3
<1>16. {x.row : x \in failures' \cup vulns'} \subseteq IdsOf(rows')
  <2>1. nextId \in IdsOf(rows')
    BY <1>2, <1>3 DEF IdsOf
  <2>2. \A x \in failures \cup vulns : x.row \notin IdsOf(gone) => x.row \in IdsOf(rows')
    BY <1>3 DEF StoreInv, ChildrenInv, IdsOf
  <2> QED
    BY <1>3, <2>1, <2>2
<1>17. /\ \A r \in rows' : r.id < nextId'
       /\ \A id \in Nat : id < nextId => FailuresOf(id)' \in {{}, FailuresOf(id)}
  BY <1>1, <1>2, <1>3, <1>6, <1>11
<1> QED
  BY <1>8, <1>9, <1>10, <1>15, <1>16, <1>17

LEMMA StepValidate ==
  ASSUME StoreInv, NEW u \in Urls, NEW f \in Files, Validate(u, f), Observe
  PROVE  StoreInv'
<1>1. /\ f.kind # "uncheckable" /\ Insert(nextId, Result(u, f), f) /\ nextId' = nextId + 1
      /\ UNCHANGED <<log, versions, nextVersion, members, baseline>>
      /\ pass \in {"clean", "validate"} /\ pass' = "validate"
      /\ nextId \in Nat \ {0}
  BY DEF Validate, recorded, StoreInv, TypeOK
<1>2. checkpoint' \in Checkpoints
  BY DEF Validate, Dirtied, StoreInv, TypeOK, Checkpoints
<1>3. versions' \subseteq Version
  BY <1>1 DEF StoreInv, TypeOK
<1>4. nextId' \in Nat \ {0} /\ nextId <= nextId'
  BY <1>1
<1>5. TypeOK'
  BY <1>1, <1>2, <1>3, <1>4, Inserted, ObserveRequest DEF StoreInv, TypeOK, Passes
<1>6. PassInv'
  BY <1>1 DEF PassInv
<1>7. \A r \in rows' : Complete(r)'
  <2>1. \A r \in rows : Complete(r)
    BY <1>1 DEF StoreInv, ChildrenInv
  <2> QED
    BY <1>1, <2>1, Inserted DEF Complete, OwnFailures, OwnCves
<1>8. ChildrenInv'
  BY <1>1, <1>7, Inserted DEF ChildrenInv, Attached, Complete
<1>9. PageInv'
  BY <1>1, <1>3, <1>4, Inserted, PageKept DEF StoreInv
<1> QED
  BY <1>1, <1>5, <1>6, <1>8, <1>9, Inserted DEF StoreInv

LEMMA StepSaveRetrievalError ==
  ASSUME StoreInv, NEW u \in Urls, NEW status \in {"failed", "missing"},
         SaveRetrievalError(u, status), Observe
  PROVE  StoreInv'
<1> DEFINE known == {r \in rows : r.url = u}
<1>1. /\ UNCHANGED <<failures, vulns, log, versions, nextVersion, members, pass, baseline>>
      /\ versions' \subseteq Version /\ pass = "recorded" /\ nextId \in Nat \ {0}
      /\ nextId' = IF known = {} THEN nextId + 1 ELSE nextId
      /\ rows' = (rows \ known) \cup (IF known = {} THEN {Stub(nextId, u, status)}
                                      ELSE {Fails(r, status) : r \in known})
  BY DEF SaveRetrievalError, recorded, StoreInv, TypeOK
<1>2. checkpoint' \in Checkpoints
  BY DEF SaveRetrievalError, Dirtied, StoreInv, TypeOK, Checkpoints
<1>3. nextId' \in Nat \ {0} /\ nextId <= nextId'
  BY <1>1
<1>4. \A r \in rows : r \in Row /\ r.id \in Nat /\ r.id < nextId
  BY RowIds DEF StoreInv, TypeOK, ChildrenInv
<1>5. \A id : FailuresOf(id)' = FailuresOf(id) /\ CvesOf(id)' = CvesOf(id)
  BY <1>1 DEF FailuresOf, CvesOf
<1>6. \A r \in rows : Complete(r)
  BY <1>1 DEF StoreInv, ChildrenInv
<1>7. PassInv'
  BY <1>1 DEF PassInv
<1>8. PageInv'
  BY <1>1, <1>3, <1>5, PageKept DEF StoreInv
<1>9. CASE known = {}
  <2> DEFINE new == Stub(nextId, u, status)
  <2>1. new \in Row /\ new.id = nextId /\ new.url = u /\ new.of = None
    BY <1>1, StubTypes DEF Stub
  <2>2. rows' = rows \cup {new} /\ nextId' = nextId + 1
    BY <1>1, <1>9
  <2> HIDE DEF new
  <2>3. \A r \in rows : r.id # new.id /\ r.url # new.url
    BY <1>1, <1>4, <1>9, <2>1
  <2>4. FailuresOf(new.id) = {} /\ CvesOf(new.id) = {}
    BY <1>1, <1>4, <2>1 DEF FailuresOf, CvesOf, StoreInv, ChildrenInv, IdsOf
  <2>5. OneRowPerDocument'
    BY <2>1, <2>2, <2>3 DEF StoreInv, OneRowPerDocument
  <2>6. OutcomeInv'
    BY <2>1, <2>2 DEF StoreInv, OutcomeInv
  <2>7. \A r \in rows' : r.id < nextId'
    BY <1>1, <1>4, <2>1, <2>2
  <2>8. {x.row : x \in failures' \cup vulns'} \subseteq IdsOf(rows')
    BY <1>1, <2>2 DEF StoreInv, ChildrenInv, IdsOf
  <2>9. \A r \in rows' : Complete(r)'
    BY <1>5, <1>6, <2>1, <2>2, <2>4 DEF Complete, OwnFailures, OwnCves
  <2>10. ChildrenInv'
    BY <2>7, <2>8, <2>9 DEF ChildrenInv, Attached, Complete
  <2>11. TypeOK'
    BY <1>1, <1>2, <1>3, <2>1, <2>2, ObserveRequest DEF StoreInv, TypeOK
  <2> QED
    BY <1>7, <1>8, <2>5, <2>6, <2>10, <2>11 DEF StoreInv
<1>10. CASE known # {}
  <2>1. PICK old \in rows : old.url = u
    BY <1>10
  <2>2. known = {old}
    BY <2>1 DEF StoreInv, OneRowPerDocument
  <2> DEFINE new == Fails(old, status)
  <2>3. rows' = (rows \ {old}) \cup {new} /\ nextId' = nextId
    BY <1>1, <1>10, <2>2
  <2>4. /\ new \in Row /\ new.id = old.id /\ new.url = old.url /\ new.tid = old.tid
        /\ new.of = old.of /\ new.profiles = old.profiles
        /\ new.checks["retrieval"] = status /\ new.retrieval_error = TRUE
    BY <1>4, <2>1, FailsTypes
  <2> HIDE DEF new
  <2>5. OneRowPerDocument'
    BY <2>1, <2>3, <2>4 DEF StoreInv, OneRowPerDocument
  <2>6. OutcomeInv'
    <3>1. new.of # None => OutcomeOf(new)
      BY <2>1, <2>4 DEF StoreInv, OutcomeInv, OutcomeOf
    <3> QED
      BY <2>3, <3>1 DEF StoreInv, OutcomeInv
  <2>7. \A r \in rows' : r.id < nextId'
    BY <1>4, <2>1, <2>3, <2>4
  <2>8. IdsOf(rows') = IdsOf(rows)
    BY <2>1, <2>3, <2>4 DEF IdsOf
  <2>9. {x.row : x \in failures' \cup vulns'} \subseteq IdsOf(rows')
    BY <1>1, <2>8 DEF StoreInv, ChildrenInv
  <2>10. \A r \in rows' : Complete(r)'
    BY <1>5, <1>6, <2>1, <2>3, <2>4 DEF Complete, OwnFailures, OwnCves
  <2>11. ChildrenInv'
    BY <2>7, <2>9, <2>10 DEF ChildrenInv, Attached, Complete
  <2>12. TypeOK'
    BY <1>1, <1>2, <1>3, <2>3, <2>4, ObserveRequest DEF StoreInv, TypeOK
  <2> QED
    BY <1>7, <1>8, <2>5, <2>6, <2>11, <2>12 DEF StoreInv
<1> QED
  BY <1>9, <1>10

LEMMA StepPublish ==
  ASSUME StoreInv, Publish, Observe
  PROVE  StoreInv'
<1>1. UNCHANGED store /\ UNCHANGED <<rows, failures, vulns, nextId, log, versions, nextVersion, members>>
      /\ versions' \subseteq Version
  BY DEF Publish, store, recorded, StoreInv, TypeOK
<1>2. pass = "recorded" /\ pass' = "idle" /\ checkpoint' = "clean" /\ baseline' = FALSE
  BY DEF Publish
<1>3. TypeOK'
  BY <1>1, <1>2, ObserveRequest DEF StoreInv, TypeOK, Passes, Checkpoints
<1> QED
  BY <1>1, <1>2, <1>3, UnchangedStore DEF PassInv

LEMMA StepSaveMembership ==
  ASSUME StoreInv, SaveMembership, Observe
  PROVE  StoreInv'
<1>1. UNCHANGED store /\ UNCHANGED <<rows, failures, vulns, nextId, log, versions, nextVersion,
                                     checkpoint, pass, baseline>>
      /\ versions' \subseteq Version
  BY DEF SaveMembership, store, recorded, StoreInv, TypeOK
<1>2. members' \in [Distributions -> SUBSET Urls]
  BY DEF SaveMembership, StoreInv, TypeOK
<1>3. TypeOK'
  BY <1>1, <1>2, ObserveRequest DEF StoreInv, TypeOK
<1>4. PassInv'
  BY <1>1 DEF StoreInv, PassInv
<1> QED
  BY <1>1, <1>3, <1>4, UnchangedStore

LEMMA StepInterrupt ==
  ASSUME StoreInv, Interrupt, Observe
  PROVE  StoreInv'
<1>1. UNCHANGED store /\ UNCHANGED <<rows, failures, vulns, nextId, log, versions, nextVersion,
                                     members, checkpoint>>
      /\ versions' \subseteq Version
  BY DEF Interrupt, store, recorded, StoreInv, TypeOK
<1>2. pass' = "idle" /\ baseline' = FALSE
  BY DEF Interrupt
<1>3. TypeOK'
  BY <1>1, <1>2, ObserveRequest DEF StoreInv, TypeOK, Passes
<1> QED
  BY <1>1, <1>2, <1>3, UnchangedStore DEF PassInv

LEMMA StepCommit ==
  ASSUME StoreInv, Commit, Observe
  PROVE  StoreInv'
<1>1. UNCHANGED store /\ UNCHANGED <<rows, failures, vulns, nextId, versions, nextVersion, members,
                                     checkpoint, pass, baseline>>
      /\ versions' \subseteq Version
  BY DEF Commit, store, recorded, StoreInv, TypeOK
<1>2. log' \in Seq(Urls)
  BY DEF Commit, StoreInv, TypeOK
<1>3. TypeOK'
  BY <1>1, <1>2, ObserveRequest DEF StoreInv, TypeOK
<1>4. PassInv'
  BY <1>1 DEF StoreInv, PassInv
<1> QED
  BY <1>1, <1>3, <1>4, UnchangedStore

LEMMA StepRewrite ==
  ASSUME StoreInv, Rewrite, Observe
  PROVE  StoreInv'
<1>1. UNCHANGED store /\ UNCHANGED <<rows, failures, vulns, nextId, log, versions, nextVersion, members,
                                     pass, baseline>>
      /\ versions' \subseteq Version
  BY DEF Rewrite, store, recorded, StoreInv, TypeOK
<1>2. pass = "idle" /\ checkpoint' = "unreachable"
  BY DEF Rewrite
<1>3. TypeOK'
  BY <1>1, <1>2, ObserveRequest DEF StoreInv, TypeOK, Checkpoints
<1> QED
  BY <1>1, <1>2, <1>3, UnchangedStore DEF PassInv

-----------------------------------------------------------------------------
(* Versions *)

LEMMA RecordedVersions ==
  ASSUME TypeOK, VersionsInv, RecordVersions
  PROVE  /\ versions' \subseteq Version /\ nextVersion' \in Nat
         /\ VersionsInv'
<1> DEFINE kept == IF baseline THEN {} ELSE versions
           L == Len(log)
<1>1. /\ L \in Nat /\ nextVersion \in Nat /\ versions \subseteq Version
      /\ \A i \in 1 .. L : log[i] \in Urls
      /\ kept \subseteq versions /\ log' = log
  BY DEF TypeOK, RecordVersions
<1>2. PICK n \in 0 .. L : /\ \A v \in kept : v.commit \in 1 .. n
                          /\ \A i \in 1 .. n : \E v \in kept : v.commit = i
  <2>1. CASE baseline
    <3>1. 0 \in 0 .. L /\ kept = {}
      BY <1>1, <2>1
    <3> QED
      BY <3>1
  <2>2. CASE ~baseline
    <3>1. kept = versions
      BY <2>2
    <3>2. PICK n \in 0 .. L : Reached(n)
      BY DEF VersionsInv
    <3> QED
      BY <3>1, <3>2 DEF Reached
  <2> QED
    BY <2>1, <2>2
<1>3. n \in Nat /\ n <= L
  BY <1>1, <1>2
<1>4. /\ \A v \in kept : v.id < nextVersion /\ v.url = log[v.commit]
      /\ \A v, w \in kept : v.commit < w.commit => v.id < w.id
      /\ \A v, w \in kept : v.commit = w.commit => v = w
  BY <1>1 DEF VersionsInv
<1>5. /\ versions' = Recorded(kept)
      /\ nextVersion' = nextVersion + (L - Since(kept))
  BY DEF RecordVersions
<1> HIDE DEF kept, L
<1>6. Since(kept) = n
  BY <1>1, <1>2, <1>3, SinceReached
<1> DEFINE At(i) == [id |-> nextVersion + (i - n) - 1, url |-> log[i], commit |-> i]
           new == {At(i) : i \in n + 1 .. L}
<1>7. versions' = kept \cup new
  BY <1>5, <1>6 DEF Recorded, L
<1>8. nextVersion' = nextVersion + (L - n)
  BY <1>5, <1>6
<1>9. \A i \in n + 1 .. L :
        /\ At(i) \in Version /\ At(i).commit = i /\ At(i).url = log[i]
        /\ At(i).id = nextVersion + (i - n) - 1
  BY <1>1, <1>3 DEF Version
<1>10. \A v \in new : /\ v \in Version /\ v.commit \in n + 1 .. L /\ v.url = log[v.commit]
                      /\ v.id = nextVersion + (v.commit - n) - 1 /\ v = At(v.commit)
  BY <1>9
<1>11. \A i \in n + 1 .. L : At(i) \in new
  OBVIOUS
<1> HIDE DEF At, new
<1>12. versions' \subseteq Version /\ nextVersion' \in Nat
  BY <1>1, <1>3, <1>7, <1>8, <1>10
<1>13. \A v \in kept : v.commit \in Nat /\ v.id \in Nat
  BY <1>1 DEF Version
<1>14. /\ \A v \in versions' : v.commit \in 1 .. L
       /\ \A i \in 1 .. L : \E v \in versions' : v.commit = i
  <2>1. \A v \in versions' : v.commit \in 1 .. L
    BY <1>1, <1>2, <1>3, <1>7, <1>10
  <2>2. \A i \in 1 .. L : i \in 1 .. n \/ i \in n + 1 .. L
    BY <1>1, <1>3
  <2>3. \A i \in 1 .. n : \E v \in versions' : v.commit = i
    BY <1>2, <1>7
  <2>4. \A i \in n + 1 .. L : \E v \in versions' : v.commit = i
    BY <1>7, <1>9, <1>11
  <2> QED
    BY <2>1, <2>2, <2>3, <2>4
<1>15. \E m \in 0 .. Len(log') : Reached(m)'
  <2>1. L \in 0 .. Len(log')
    BY <1>1 DEF L
  <2>2. \A m : m = L => Reached(m)'
    BY <1>14 DEF Reached
  <2> QED
    BY <2>1, <2>2
<1>16. \A v \in versions' : v.id < nextVersion' /\ v.url = log'[v.commit]
  BY <1>1, <1>3, <1>4, <1>7, <1>8, <1>10, <1>13
<1>17. \A v, w \in versions' : v.commit < w.commit => v.id < w.id
  <2> TAKE v, w \in versions'
  <2>1. CASE v \in kept /\ w \in kept
    BY <1>4, <2>1
  <2>2. CASE v \in kept /\ w \in new
    BY <1>1, <1>3, <1>4, <1>10, <1>13, <2>2
  <2>3. CASE v \in new /\ w \in kept
    BY <1>1, <1>2, <1>3, <1>10, <1>13, <2>3
  <2>4. CASE v \in new /\ w \in new
    BY <1>1, <1>3, <1>10, <2>4
  <2> QED
    BY <1>7, <2>1, <2>2, <2>3, <2>4
<1>18. \A v, w \in versions' : v.commit = w.commit => v = w
  <2> TAKE v, w \in versions'
  <2>1. CASE v \in kept /\ w \in kept
    BY <1>4, <2>1
  <2>2. CASE v \in kept /\ w \in new
    BY <1>1, <1>2, <1>3, <1>10, <1>13, <2>2
  <2>3. CASE v \in new /\ w \in kept
    BY <1>1, <1>2, <1>3, <1>10, <1>13, <2>3
  <2>4. CASE v \in new /\ w \in new
    BY <1>10, <2>4
  <2> QED
    BY <1>7, <2>1, <2>2, <2>3, <2>4
<1> QED
  BY <1>12, <1>15, <1>16, <1>17, <1>18 DEF VersionsInv

LEMMA StepRecordVersions ==
  ASSUME StoreInv, VersionsInv, RecordVersions, Observe
  PROVE  StoreInv' /\ VersionsInv'
<1>1. UNCHANGED store /\ UNCHANGED <<rows, failures, vulns, nextId, log, members, checkpoint, baseline>>
  BY DEF RecordVersions, store
<1>2. pass \in {"clean", "validate"} /\ pass' = "recorded"
  BY DEF RecordVersions
<1>3. versions' \subseteq Version /\ nextVersion' \in Nat /\ VersionsInv'
  BY RecordedVersions DEF StoreInv
<1>4. TypeOK'
  BY <1>1, <1>2, <1>3, ObserveRequest DEF StoreInv, TypeOK, Passes
<1>5. PassInv'
  BY <1>2 DEF PassInv
<1> QED
  BY <1>1, <1>2, <1>3, <1>4, <1>5, UnchangedStore

LEMMA CommitVersions ==
  ASSUME TypeOK, VersionsInv, Commit
  PROVE  VersionsInv'
<1>1. PICK u \in Urls : log' = Append(log, u)
  BY DEF Commit
<1>2. /\ log \in Seq(Urls) /\ Len(log) \in Nat /\ Len(log') = Len(log) + 1
      /\ \A i \in 1 .. Len(log) : log'[i] = log[i]
      /\ versions' = versions /\ nextVersion' = nextVersion
  BY <1>1 DEF TypeOK, Commit, recorded
<1>3. PICK n \in 0 .. Len(log) : Reached(n)
  BY DEF VersionsInv
<1>4. n \in 0 .. Len(log')
  BY <1>2
<1>5. Reached(n)'
  BY <1>2, <1>3 DEF Reached
<1>6. \A v \in versions : v.commit \in 1 .. Len(log)
  BY <1>2, <1>3 DEF Reached
<1>7. \A v \in versions : v.id < nextVersion' /\ v.url = log'[v.commit]
  BY <1>2, <1>6 DEF VersionsInv
<1> QED
  BY <1>2, <1>4, <1>5, <1>7 DEF VersionsInv

\* A diff keeps the version it found as long as it is recorded.
LEMMA DiffKept ==
  ASSUME TypeOK, DiffInv, Observe
  PROVE  DiffInv'
<1>1. CASE request.at = "newer" /\ Rebuilt
  <2>1. request'.at = "newer" /\ request'.rebuilt = TRUE
    BY <1>1 DEF Observe
  <2> QED
    BY <2>1 DEF DiffInv
<1>2. CASE ~(request.at = "newer" /\ Rebuilt)
  <2>1. request' = request
    BY <1>2 DEF Observe
  <2> QED
    BY <1>2, <2>1 DEF DiffInv, Rebuilt
<1> QED
  BY <1>1, <1>2

-----------------------------------------------------------------------------
(* Requests *)

LEMMA StepRead ==
  ASSUME StoreInv, DiffInv, Read, UNCHANGED vars
  PROVE  StoreInv' /\ DiffInv'
<1>1. UNCHANGED <<rows, failures, vulns, nextId, log, versions, nextVersion, members, checkpoint,
                  pass, baseline>>
  BY DEF vars, store, recorded
<1>2. \/ request' = NoRequest
      \/ \E shown \in SUBSET rows : request' = [at |-> "failures", rows |-> shown]
      \/ \E r \in rows : request' = [at |-> "version", url |-> r.url]
      \/ \E v \in versions : request' = [at |-> "newer", old |-> v, rebuilt |-> FALSE]
  BY DEF Read, PageRows, PageFailures, DiffDocument, DiffVersion, DiffNewer, Filtered
<1>3. rows \subseteq Row /\ versions \subseteq Version /\ \A r \in rows : r.url \in Urls
  BY RowIds DEF StoreInv, TypeOK
<1>4. \A id : FailuresOf(id)' = FailuresOf(id) /\ CvesOf(id)' = CvesOf(id)
  BY <1>1 DEF FailuresOf, CvesOf
<1>5. request' \in Requested /\ PageInv' /\ DiffInv'
  <2>1. CASE request' = NoRequest
    BY <2>1 DEF NoRequest, Requested, PageInv, DiffInv
  <2>2. ASSUME NEW shown \in SUBSET rows, request' = [at |-> "failures", rows |-> shown]
        PROVE  request' \in Requested /\ PageInv' /\ DiffInv'
    <3>1. request' \in Requested
      BY <1>3, <2>2 DEF Requested
    <3>2. \A r \in shown : r.id < nextId /\ FailuresOf(r.id) \in {{}, OwnFailures(r)}
      BY DEF StoreInv, ChildrenInv, Attached
    <3>3. request'.rows = shown /\ request'.at = "failures"
      BY <2>2
    <3>4. PageInv'
      BY <1>1, <1>4, <3>2, <3>3 DEF PageInv, OwnFailures
    <3> QED
      BY <3>1, <3>3, <3>4 DEF DiffInv
  <2>3. ASSUME NEW r \in rows, request' = [at |-> "version", url |-> r.url]
        PROVE  request' \in Requested /\ PageInv' /\ DiffInv'
    BY <1>3, <2>3 DEF Requested, PageInv, DiffInv
  <2>4. ASSUME NEW v \in versions, request' = [at |-> "newer", old |-> v, rebuilt |-> FALSE]
        PROVE  request' \in Requested /\ PageInv' /\ DiffInv'
    BY <1>1, <1>3, <2>4 DEF Requested, PageInv, DiffInv
  <2> QED
    BY <1>2, <2>1, <2>2, <2>3, <2>4
<1>6. TypeOK'
  BY <1>1, <1>5 DEF StoreInv, TypeOK
<1>7. OneRowPerDocument' /\ OutcomeInv' /\ PassInv'
  BY <1>1 DEF StoreInv, OneRowPerDocument, OutcomeInv, OutcomeOf, PassInv
<1>8. ChildrenInv'
  BY <1>1, <1>4 DEF StoreInv, ChildrenInv, Attached, Complete, OwnFailures, OwnCves
<1> QED
  BY <1>5, <1>6, <1>7, <1>8 DEF StoreInv

-----------------------------------------------------------------------------
(* The verdict *)

LEMMA IssuesCounted ==
  ASSUME NEW f \in File, f.kind = "csaf", NEW r, NEW u \in Urls, r.profiles = Result(u, f).profiles,
         NEW severity \in Severities
  PROVE  Has(r, severity) <=> ~Spotless(f, severity)
<1>1. \A p \in Profiles : r.profiles[p] = Detail(f, p)
  BY DEF Result
<1>2. \A p \in Profiles :
        r.profiles[p] # None /\ r.profiles[p].issues[severity] > 0
          <=> \E i \in f.issues[p] : i[2] = severity
  <2> TAKE p \in Profiles
  <2> DEFINE S == {i \in f.issues[p] : i[2] = severity}
  <2>1. IsFiniteSet(S)
    BY IssuesFinite, FS_Subset
  <2>2. Cardinality(S) \in Nat /\ (Cardinality(S) = 0 <=> S = {})
    BY <2>1, FS_CardinalityType, FS_EmptySet
  <2>3. Detail(f, p).issues[severity] = Cardinality(S)
    BY DEF Detail
  <2>4. Detail(f, p) # None
    <3>1. /\ Detail(f, p) = [issues |-> [v \in Severities |-> Cardinality({i \in f.issues[p] : i[2] = v})],
                             tests |-> Cardinality(Tests),
                             failing |-> Cardinality({i[1] : i \in f.issues[p]})]
      BY DEF Detail
    <3>2. Detail(f, p) \in Columns
      BY <3>1, ColumnsType
    <3> QED
      BY <3>2, StoreFacts
  <2> QED
    BY <1>1, <2>2, <2>3, <2>4
<1> QED
  BY <1>2 DEF Has, Spotless

LEMMA VerdictOf ==
  ASSUME NEW r \in Row, r.of \in File, OutcomeOf(r)
  PROVE  Overall(r) = IF r.retrieval_error THEN "failing" ELSE Verdict(r.of)
<1> DEFINE f == r.of
<1>1. CASE r.retrieval_error = TRUE /\ r.checks["retrieval"] \in {"failed", "missing"}
  BY <1>1 DEF Overall, Broken
<1>2. CASE r.checks = Checks(f) /\ r.retrieval_error = Result(r.url, f).retrieval_error
  <2>1. r.retrieval_error <=> Checks(f)["retrieval"] \in {"failed", "missing"}
    BY <1>2 DEF Result
  <2>2. CASE f.kind \notin {"csaf", "unparsable"}
    <3>1. Checks(f)["retrieval"] = "failed"
      BY <2>2 DEF Checks, Unevaluated, Stages
    <3>2. Overall(r) = "failing"
      BY <1>2, <3>1 DEF Overall, Broken
    <3> QED
      BY <2>1, <3>1, <3>2
  <2>3. CASE f.kind = "unparsable"
    <3>1. Checks(f)["retrieval"] = "passed" /\ Checks(f)["parsing"] = "failed"
      BY <2>3 DEF Checks, Unevaluated, Stages
    <3>2. Overall(r) = "failing"
      BY <1>2, <3>1 DEF Overall, Broken
    <3>3. Verdict(f) = "failing"
      BY <2>3 DEF Verdict
    <3> QED
      BY <2>1, <3>1, <3>2, <3>3
  <2>4. CASE f.kind = "csaf"
    <3>1. /\ Checks(f)["retrieval"] = "passed" /\ Checks(f)["parsing"] = "passed"
          /\ Checks(f)["signature"] = SignatureStatus(f) /\ Checks(f)["digest"] = DigestStatus(f)
      BY <2>4 DEF Checks, Unevaluated, Stages
    <3>2. /\ Has(r, "error") <=> ~Spotless(f, "error")
          /\ Has(r, "warning") <=> ~Spotless(f, "warning")
      <4>1. r.profiles = Result(r.url, f).profiles /\ r.url \in Urls
        BY DEF OutcomeOf, Row
      <4> QED
        BY <2>4, <4>1, IssuesCounted DEF Severities
    <3>3. Evaluated(r)
      BY <1>2, <3>1 DEF Evaluated
    <3> DEFINE D == Digests(f)
    <3>4. /\ D \subseteq {"match", "mismatch"}
          /\ DigestStatus(f) = IF "mismatch" \in D
                               THEN IF "match" \in D THEN "warning" ELSE "failed"
                               ELSE IF D # {} THEN "passed" ELSE "missing"
      BY StoreFacts DEF DigestStatus, Assess, Digests, File
    <3>5. /\ SignatureStatus(f) \in {"missing", "passed", "failed"}
          /\ SignatureStatus(f) = "failed" <=> f.signature = "invalid"
      BY StoreFacts DEF SignatureStatus, File
    <3>6. Trusted(f) <=> SignatureStatus(f) # "failed" /\ DigestStatus(f) # "failed"
      BY <3>4, <3>5 DEF Trusted
    <3>7. Broken(r) <=> ~Trusted(f)
      BY <1>2, <3>1, <3>6 DEF Broken
    <3>8. r.checks["digest"] = "warning" /\ Trusted(f) <=> "mismatch" \in D /\ Trusted(f)
      BY <1>2, <3>1, <3>4, <3>6
    <3>9. Trusted(f) /\ r.checks["digest"] # "warning" =>
            {r.checks["signature"], r.checks["digest"]} \subseteq {"passed", "missing"}
      BY <1>2, <3>1, <3>4, <3>5, <3>6
    <3>10. ~r.retrieval_error
      BY <2>1, <3>1
    <3> HIDE DEF D
    <3>11. CASE ~Trusted(f) \/ ~Spotless(f, "error")
      BY <3>2, <3>3, <3>7, <3>10, <3>11, <2>4 DEF Overall, Verdict
    <3>12. CASE Trusted(f) /\ Spotless(f, "error") /\ ("mismatch" \in D \/ ~Spotless(f, "warning"))
      BY <2>4, <3>2, <3>3, <3>7, <3>8, <3>10, <3>12 DEF Overall, Verdict, D
    <3>13. CASE Trusted(f) /\ Spotless(f, "error") /\ "mismatch" \notin D /\ Spotless(f, "warning")
      BY <2>4, <3>2, <3>3, <3>7, <3>8, <3>9, <3>10, <3>13 DEF Overall, Verdict, D
    <3> QED
      BY <3>11, <3>12, <3>13
  <2> QED
    BY <2>2, <2>3, <2>4
<1> QED
  BY <1>1, <1>2 DEF OutcomeOf

-----------------------------------------------------------------------------
(* Diffs *)

LEMMA Least ==
  ASSUME NEW T \in SUBSET Nat, T # {}
  PROVE  \E m \in T : \A k \in T : m <= k
<1> DEFINE R == {ss \in Nat \X Nat : ss[1] < ss[2]}
<1>1. IsWellFoundedOn(R, Nat)
  BY NatLessThanWellFounded DEF OpToRel
<1> HIDE DEF R
<1>2. PICK m \in T : \A k \in T : <<k, m>> \notin R
  BY <1>1, WFMin
<1>3. \A k \in T : ~(k < m)
  BY <1>2 DEF R
<1> QED
  BY <1>3

LEMMA NextRecorded ==
  ASSUME NEW S, S \subseteq Version, S # {}
  PROVE  NextOf(S) \in S /\ \A x \in S : NextOf(S).id <= x.id
<1> DEFINE T == {v.id : v \in S}
<1>1. T \in SUBSET Nat /\ T # {}
  BY DEF Version
<1> HIDE DEF T
<1>2. PICK m \in T : \A k \in T : m <= k
  BY <1>1, Least
<1>3. \E w \in S : \A x \in S : w.id <= x.id
  BY <1>2 DEF T
<1> QED
  BY <1>3 DEF NextOf

LEMMA DiffCorrect ==
  ASSUME TypeOK, VersionsInv, DiffInv
  PROVE  DiffsConsecutive
<1> SUFFICES ASSUME request.at = "newer" /\ ~request.rebuilt, Newer(request.old) # {}
             PROVE  LET old == request.old.commit
                        new == NextOf(Newer(request.old)).commit IN
                    /\ old < new
                    /\ \A i \in DOMAIN log : log[i] = request.old.url => ~(old < i /\ i < new)
  BY DEF DiffsConsecutive
<1> DEFINE v == request.old
           w == NextOf(Newer(v))
<1>1. v \in versions
  BY DEF DiffInv
<1>2. versions \subseteq Version /\ Newer(v) \subseteq versions
  BY DEF TypeOK, Newer
<1>3. w \in Newer(v) /\ \A x \in Newer(v) : w.id <= x.id
  BY <1>2, NextRecorded
<1>4. w \in versions /\ w.url = v.url /\ w.id > v.id
  BY <1>3 DEF Newer
<1> HIDE DEF v, w
<1>5. /\ v.id \in Nat /\ v.commit \in Nat /\ w.id \in Nat /\ w.commit \in Nat
  BY <1>1, <1>2, <1>4 DEF Version
<1>6. v.commit < w.commit
  <2>1. CASE w.commit < v.commit
    BY <1>1, <1>4, <1>5, <2>1 DEF VersionsInv
  <2>2. CASE w.commit = v.commit
    BY <1>1, <1>4, <1>5, <2>2 DEF VersionsInv
  <2> QED
    BY <1>5, <2>1, <2>2
<1>7. \A i \in DOMAIN log : log[i] = v.url => ~(v.commit < i /\ i < w.commit)
  <2> SUFFICES ASSUME NEW i \in DOMAIN log, log[i] = v.url, v.commit < i, i < w.commit
               PROVE  FALSE
    OBVIOUS
  <2>1. PICK n \in 0 .. Len(log) : Reached(n)
    BY DEF VersionsInv
  <2>2. Len(log) \in Nat /\ i \in Nat
    BY DEF TypeOK
  <2>3. w.commit \in 1 .. n
    BY <1>4, <2>1 DEF Reached
  <2>4. i \in 1 .. n
    BY <1>5, <2>2, <2>3
  <2>5. PICK x \in versions : x.commit = i
    BY <2>1, <2>4 DEF Reached
  <2>6. x.url = v.url /\ x.id \in Nat
    BY <1>2, <2>5 DEF VersionsInv, Version
  <2>7. v.id < x.id /\ x.id < w.id
    BY <1>1, <1>4, <2>5 DEF VersionsInv
  <2>8. x \in Newer(v)
    BY <1>5, <2>6, <2>7 DEF Newer
  <2> QED
    BY <1>3, <1>5, <2>6, <2>7, <2>8 DEF w
<1> QED
  BY <1>6, <1>7 DEF v, w

-----------------------------------------------------------------------------
(* The theorems *)

IInv == StoreInv /\ VersionsInv /\ DiffInv

LEMMA InitIInv == ReadInit => IInv
<1> SUFFICES ASSUME ReadInit PROVE IInv
  OBVIOUS
<1>1. /\ failures = {} /\ vulns = {} /\ nextId = 2 /\ log = <<>> /\ versions = {} /\ nextVersion = 1
      /\ members = [d \in Distributions |-> {}] /\ checkpoint \in {"none", "dirty"}
      /\ pass = "idle" /\ baseline = FALSE /\ request = NoRequest /\ request.at = "none"
  BY DEF ReadInit, Init, NoRequest
<1>2. rows = {} \/ \E r \in Row : rows = {r} /\ r.id = 1 /\ r.of = None
  BY LegacyTypes DEF ReadInit, Init
<1>3. TypeOK
  <2>1. rows \in SUBSET Row
    BY <1>2
  <2>2. failures \in SUBSET [row : Nat, failed : FailedTest] /\ vulns \in SUBSET [row : Nat, cve : Cves]
        /\ versions \in SUBSET Version /\ log \in Seq(Urls)
    BY <1>1
  <2>3. members \in [Distributions -> SUBSET Urls]
    BY <1>1
  <2>4. request \in Requested
    BY <1>1 DEF Requested
  <2>5. nextId \in Nat \ {0} /\ nextVersion \in Nat /\ checkpoint \in Checkpoints
    BY <1>1 DEF Checkpoints
  <2>6. pass \in Passes /\ baseline \in BOOLEAN
    BY <1>1 DEF Passes
  <2> QED
    BY <2>1, <2>2, <2>3, <2>4, <2>5, <2>6 DEF TypeOK
<1>4. OneRowPerDocument /\ PassInv /\ PageInv /\ OutcomeInv
  BY <1>1, <1>2 DEF OneRowPerDocument, PassInv, PageInv, OutcomeInv
<1>5. ChildrenInv
  <2>1. \A id : FailuresOf(id) = {} /\ CvesOf(id) = {}
    BY <1>1 DEF FailuresOf, CvesOf
  <2> QED
    BY <1>1, <1>2, <2>1 DEF ChildrenInv, Attached, Complete, OwnFailures, OwnCves
<1>6. VersionsInv /\ DiffInv
  <2>1. Len(log) = 0 /\ 0 \in 0 .. Len(log)
    BY <1>1
  <2>2. Reached(0)
    BY <1>1 DEF Reached
  <2> QED
    BY <1>1, <2>1, <2>2 DEF VersionsInv, DiffInv
<1> QED
  BY <1>3, <1>4, <1>5, <1>6 DEF IInv, StoreInv

LEMMA NextIInv == IInv /\ [Next]_allVars => IInv'
<1> SUFFICES ASSUME IInv, [Next]_allVars PROVE IInv'
  OBVIOUS
<1>1. CASE Next
  <2>1. ASSUME Write, Observe PROVE IInv'
    <3>1. DiffInv'
      BY <2>1, DiffKept DEF IInv, StoreInv
    <3>2. CASE RecordVersions
      BY <2>1, <3>1, <3>2, StepRecordVersions DEF IInv
    <3>3. CASE Commit
      BY <2>1, <3>1, <3>3, StepCommit, CommitVersions DEF IInv, StoreInv
    <3>4. ASSUME UNCHANGED <<log, versions, nextVersion>>
          PROVE  VersionsInv'
      BY <3>4 DEF IInv, VersionsInv, Reached
    <3>5. CASE BeginPass
      BY <2>1, <3>1, <3>4, <3>5, StepBeginPass DEF IInv, BeginPass, recorded
    <3>6. CASE DeleteVulns
      BY <2>1, <3>1, <3>4, <3>6, StepDeleteVulns DEF IInv, DeleteVulns, recorded
    <3>7. CASE DeleteRows
      BY <2>1, <3>1, <3>4, <3>7, StepDeleteRows DEF IInv, DeleteRows, recorded
    <3>8. CASE DeleteUrls
      BY <2>1, <3>1, <3>4, <3>8, StepDeleteUrls DEF IInv, DeleteUrls, recorded
    <3>9. CASE \E u \in Urls, f \in Files : Validate(u, f)
      BY <2>1, <3>1, <3>4, <3>9, StepValidate DEF IInv, Validate, recorded
    <3>10. CASE \E u \in Urls, status \in {"failed", "missing"} : SaveRetrievalError(u, status)
      BY <2>1, <3>1, <3>4, <3>10, StepSaveRetrievalError DEF IInv, SaveRetrievalError, recorded
    <3>11. CASE Publish
      BY <2>1, <3>1, <3>4, <3>11, StepPublish DEF IInv, Publish, recorded
    <3>12. CASE SaveMembership
      BY <2>1, <3>1, <3>4, <3>12, StepSaveMembership DEF IInv, SaveMembership, recorded
    <3>13. CASE Interrupt
      BY <2>1, <3>1, <3>4, <3>13, StepInterrupt DEF IInv, Interrupt, recorded
    <3>14. CASE Rewrite
      BY <2>1, <3>1, <3>4, <3>14, StepRewrite DEF IInv, Rewrite, recorded
    <3> QED
      BY <2>1, <3>2, <3>3, <3>5, <3>6, <3>7, <3>8, <3>9, <3>10, <3>11, <3>12, <3>13, <3>14
         DEF Write, Pass
  <2>2. ASSUME Read, UNCHANGED vars PROVE IInv'
    <3>1. StoreInv' /\ DiffInv'
      BY <2>2, StepRead DEF IInv
    <3>2. VersionsInv'
      BY <2>2 DEF IInv, VersionsInv, Reached, vars, recorded
    <3> QED
      BY <3>1, <3>2 DEF IInv
  <2> QED
    BY <1>1, <2>1, <2>2 DEF Next
<1>2. CASE UNCHANGED allVars
  <2>1. UNCHANGED <<rows, failures, vulns, nextId, log, versions, nextVersion, members, checkpoint,
                    pass, baseline, request>>
    BY <1>2 DEF allVars, vars, store, recorded
  <2>2. StoreInv'
    <3>1. TypeOK' /\ OneRowPerDocument' /\ PassInv'
      BY <2>1 DEF IInv, StoreInv, TypeOK, OneRowPerDocument, PassInv
    <3>2. OutcomeInv'
      BY <2>1 DEF IInv, StoreInv, OutcomeInv, OutcomeOf
    <3>3. ChildrenInv' /\ PageInv'
      BY <2>1 DEF IInv, StoreInv, ChildrenInv, PageInv, Attached, Complete, OwnFailures, OwnCves,
                  FailuresOf, CvesOf
    <3> QED
      BY <3>1, <3>2, <3>3 DEF StoreInv
  <2>3. VersionsInv' /\ DiffInv'
    BY <2>1 DEF IInv, VersionsInv, Reached, DiffInv
  <2> QED
    BY <2>2, <2>3 DEF IInv
<1> QED
  BY <1>1, <1>2

THEOREM Invariance == Spec => []IInv
<1> QED
  BY InitIInv, NextIInv, PTL DEF Spec

\* Every variable has its type (the schema of storage/documents.rs).
THEOREM TypeCorrect == Spec => []TypeOK
<1>1. IInv => TypeOK
  BY DEF IInv, StoreInv
<1> QED
  BY <1>1, Invariance, PTL

\* save_documents and save_retrieval_errors keep one row per id, URL and stored
\* tracking id, whatever documents collide.
THEOREM RowsUnique == Spec => []OneRowPerDocument
<1>1. IInv => OneRowPerDocument
  BY DEF IInv, StoreInv
<1> QED
  BY <1>1, Invariance, PTL

\* The other tables follow the rows through every pass, interrupted or not.
THEOREM TablesAgree == Spec => []ChildrenComplete
<1>1. IInv => ChildrenComplete
  BY DEF IInv, StoreInv, ChildrenInv, Attached, Complete, ChildrenComplete
<1> QED
  BY <1>1, Invariance, PTL

\* load_documents_paginated, without a transaction, shows no foreign failure.
THEOREM PagesCoherent == Spec => []PageCoherent
<1>1. IInv => PageCoherent
  BY DEF IInv, StoreInv, PageInv, PageCoherent, Failing
<1> QED
  BY <1>1, Invariance, PTL

\* validate_provider, save_retrieval_errors and overall_status together give a
\* document the verdict its file and last download deserve.
THEOREM VerdictsTrue == Spec => []VerdictTrue
<1>1. IInv => VerdictTrue
  <2> SUFFICES ASSUME IInv, NEW r \in rows, r.of # None
               PROVE  Overall(r) = IF r.retrieval_error THEN "failing" ELSE Verdict(r.of)
    BY DEF VerdictTrue
  <2>1. r \in Row /\ r.of \in File /\ OutcomeOf(r)
    BY DEF IInv, StoreInv, TypeOK, OutcomeInv, Row
  <2> QED
    BY <2>1, VerdictOf
<1> QED
  BY <1>1, Invariance, PTL

\* diff_document_versions compares consecutive versions unless they are recorded
\* anew while it runs.
THEOREM DiffsCompareNeighbours == Spec => []DiffsConsecutive
<1>1. IInv => DiffsConsecutive
  BY DiffCorrect DEF IInv, StoreInv
<1> QED
  BY <1>1, Invariance, PTL

-----------------------------------------------------------------------------
(* Filters and counts *)

\* The outcomes of the first three stages that some code stores.
Plausible(c) ==
  /\ c["retrieval"] \in {"passed", "failed", "missing"}
  /\ c["parsing"] \in {"passed", "failed", "not_evaluated"}
  /\ c["signature"] \in {"passed", "failed", "missing", "not_evaluated"}

RowsInv == IsFiniteSet(rows) /\ \A r \in rows : Plausible(r.checks)

LEMMA PlausibleChecks ==
  /\ \A f \in File : Plausible(Checks(f))
  /\ \A status \in {"failed", "missing"} : Plausible([Unevaluated EXCEPT !["retrieval"] = status])
  /\ \A l \in LegacyResult : Plausible(Converted(l))
<1>1. ASSUME NEW f \in File PROVE Plausible(Checks(f))
  <2>1. SignatureStatus(f) \in {"passed", "failed", "missing"}
    BY DEF SignatureStatus
  <2> QED
    BY <2>1 DEF Plausible, Checks, Unevaluated, Stages
<1>2. ASSUME NEW status \in {"failed", "missing"}
      PROVE  Plausible([Unevaluated EXCEPT !["retrieval"] = status])
  BY DEF Plausible, Unevaluated, Stages
<1>3. ASSUME NEW l \in LegacyResult PROVE Plausible(Converted(l))
  BY DEF Plausible, Converted, Stages
<1> QED
  BY <1>1, <1>2, <1>3

LEMMA RowsInitially == ReadInit => RowsInv
<1> SUFFICES ASSUME ReadInit PROVE RowsInv
  OBVIOUS
<1>1. CASE rows = {}
  BY <1>1, FS_EmptySet DEF RowsInv
<1>2. ASSUME NEW u \in Urls, NEW l \in LegacyResults, rows = {LegacyRow(u, l)}
      PROVE  RowsInv
  <2>1. Plausible(Converted(l))
    BY PlausibleChecks, StoreFacts
  <2>2. PICK row : row = LegacyRow(u, l)
    OBVIOUS
  <2>3. rows = {row} /\ IsFiniteSet({row})
    BY <1>2, <2>2, FS_Singleton
  <2>4. row.checks = Converted(l)
    BY <2>2 DEF LegacyRow
  <2> QED
    BY <2>1, <2>3, <2>4 DEF RowsInv
<1> QED
  BY <1>1, <1>2 DEF ReadInit, Init

LEMMA RowsKeep ==
  ASSUME IInv, RowsInv, [Next]_allVars
  PROVE  RowsInv'
<1>0. IsFiniteSet(rows) /\ (\A r \in rows : Plausible(r.checks)) /\ rows \subseteq Row
  BY DEF RowsInv, IInv, StoreInv, TypeOK
<1>1. CASE UNCHANGED rows
  BY <1>1 DEF RowsInv
<1>2. ASSUME rows' \subseteq rows PROVE RowsInv'
  BY <1>0, <1>2, FS_Subset DEF RowsInv
<1>3. CASE DeleteRows \/ DeleteUrls
  BY <1>2, <1>3 DEF DeleteRows, DeleteUrls
<1>4. ASSUME NEW u \in Urls, NEW f \in Files, Validate(u, f) PROVE RowsInv'
  <2>1. PICK kept, new : /\ kept = rows \ Replaced(Result(u, f))
                         /\ new = RowOf(nextId, Result(u, f), f)
    OBVIOUS
  <2>2. rows' = kept \cup {new} /\ kept \subseteq rows
    BY <1>4, <2>1 DEF Validate, Insert
  <2>3. IsFiniteSet(kept \cup {new})
    BY <1>0, <2>2, FS_Subset, FS_AddElement
  <2>4. new.checks = Checks(f) /\ f \in File
    BY <2>1, StoreFacts DEF RowOf, Result
  <2>5. Plausible(new.checks)
    BY <2>4, PlausibleChecks
  <2> QED
    BY <1>0, <2>2, <2>3, <2>5 DEF RowsInv
<1>5. ASSUME NEW u \in Urls, NEW status \in {"failed", "missing"}, SaveRetrievalError(u, status)
      PROVE  RowsInv'
  <2>1. PICK known : known = {r \in rows : r.url = u}
    OBVIOUS
  <2>2. rows' = (rows \ known) \cup (IF known = {} THEN {Stub(nextId, u, status)}
                                     ELSE {Fails(r, status) : r \in known})
    BY <1>5, <2>1 DEF SaveRetrievalError
  <2>3. PICK one : one \in known \/ known = {}
    OBVIOUS
  <2>4. \A r \in known : r = one
    BY <2>1, <2>3 DEF IInv, StoreInv, OneRowPerDocument
  <2>5. PICK new : /\ rows' = (rows \ known) \cup {new}
                   /\ new.checks = [Unevaluated EXCEPT !["retrieval"] = status]
    <3>1. CASE known = {}
      <4>1. PICK stub : stub = Stub(nextId, u, status)
        OBVIOUS
      <4>2. rows' = (rows \ known) \cup {stub}
        BY <2>2, <3>1, <4>1
      <4>3. stub.checks = [Unevaluated EXCEPT !["retrieval"] = status]
        BY <4>1 DEF Stub
      <4> QED
        BY <4>2, <4>3
    <3>2. CASE known # {}
      <4>1. {Fails(r, status) : r \in known} = {Fails(one, status)} /\ one \in Row
        BY <1>0, <2>1, <2>3, <2>4, <3>2
      <4>2. Fails(one, status).checks = [Unevaluated EXCEPT !["retrieval"] = status]
        BY <4>1 DEF Fails, Row
      <4> QED
        BY <2>2, <3>2, <4>1, <4>2
    <3> QED
      BY <3>1, <3>2
  <2>6. Plausible(new.checks)
    BY <2>5, PlausibleChecks
  <2>7. IsFiniteSet((rows \ known) \cup {new})
    BY <1>0, FS_Subset, FS_AddElement
  <2> QED
    BY <1>0, <2>5, <2>6, <2>7 DEF RowsInv
<1>6. CASE Next
  BY <1>1, <1>3, <1>4, <1>5, <1>6
  DEF Next, Write, Pass, Read, vars, store, BeginPass, DeleteVulns, RecordVersions, Publish,
      SaveMembership, Interrupt, Commit, Rewrite
<1> QED
  BY <1>1, <1>6 DEF allVars, vars, store

\* A row without a verdict has a stage that was not evaluated; every other one has
\* one of three.
LEMMA OverallOf ==
  ASSUME NEW r \in Row, Plausible(r.checks)
  PROVE  /\ Overall(r) \in {"failing", "warning", "passing", None}
         /\ Overall(r) = None => \E s \in Stages : r.checks[s] = "not_evaluated"
<1>1. Overall(r) \in {"failing", "warning", "passing", None}
  BY DEF Overall
<1>2. ASSUME Overall(r) = None, \A s \in Stages : r.checks[s] # "not_evaluated"
      PROVE  FALSE
  <2>1. None \notin {"failing", "warning", "passing"}
    BY StoreAssumption
  <2>2. /\ ~Broken(r) /\ r.checks["digest"] # "warning"
        /\ ~(Evaluated(r) /\ {r.checks["signature"], r.checks["digest"]} \subseteq {"passed", "missing"})
    BY <1>2, <2>1 DEF Overall
  <2>3. r.checks \in [Stages -> Statuses]
    BY DEF Row
  <2>4. r.checks["digest"] \in {"passed", "missing"}
    BY <1>2, <2>2, <2>3 DEF Broken, Stages, Statuses
  <2>5. r.checks["retrieval"] = "passed" /\ r.checks["parsing"] = "passed"
    BY <1>2, <2>2 DEF Plausible, Broken, Stages
  <2>6. r.checks["signature"] \in {"passed", "missing"}
    BY <1>2, <2>2 DEF Plausible, Broken, Stages
  <2> QED
    BY <2>2, <2>4, <2>5, <2>6 DEF Evaluated
<1> QED
  BY <1>1, <1>2

\* The groups of rows with the same four outcomes add up to the rows of a status.
LEMMA GroupsOf ==
  ASSUME NEW S, S \subseteq Row, NEW s \in Stages, NEW t \in Statuses
  PROVE  Checked(S)[s][t] = Cardinality({r \in S : r.checks[s] = t})
<1>1. PICK groups : groups = {{r \in S : r.checks = q.checks} : q \in S}
  OBVIOUS
<1>2. UNION {g \in groups : \A r \in g : r.checks[s] = t} = {r \in S : r.checks[s] = t}
  <2>1. ASSUME NEW g \in groups, \A r \in g : r.checks[s] = t, NEW r \in g
        PROVE  r \in S /\ r.checks[s] = t
    BY <1>1, <2>1
  <2>2. ASSUME NEW q \in S, q.checks[s] = t
        PROVE  \E g \in groups : q \in g /\ \A r \in g : r.checks[s] = t
    <3>1. PICK g : g = {r \in S : r.checks = q.checks}
      OBVIOUS
    <3>2. g \in groups /\ q \in g /\ \A r \in g : r.checks[s] = t
      BY <1>1, <2>2, <3>1
    <3> QED
      BY <3>2
  <2> QED
    BY <2>1, <2>2
<1> QED
  BY <1>1, <1>2 DEF Checked

\* Three sets that overlap nowhere.
LEMMA ThreeParts ==
  ASSUME NEW S, IsFiniteSet(S), NEW A, NEW B, NEW C,
         S = (A \cup B) \cup C, A \cap B = {}, A \cap C = {}, B \cap C = {}
  PROVE  Cardinality(A) + Cardinality(B) + Cardinality(C) = Cardinality(S)
<1>1. IsFiniteSet(A) /\ IsFiniteSet(B) /\ IsFiniteSet(C)
  BY FS_Subset
<1>2. IsFiniteSet(A \cup B) /\ Cardinality(A \cup B) = Cardinality(A) + Cardinality(B) - Cardinality(A \cap B)
  BY <1>1, FS_Union
<1>3. Cardinality((A \cup B) \cup C)
        = Cardinality(A \cup B) + Cardinality(C) - Cardinality((A \cup B) \cap C)
  BY <1>1, <1>2, FS_Union
<1>4. A \cap B = {} /\ (A \cup B) \cap C = {} /\ Cardinality({}) = 0
  BY FS_EmptySet
<1>5. /\ Cardinality(A) \in Nat /\ Cardinality(B) \in Nat /\ Cardinality(C) \in Nat
      /\ Cardinality(A \cup B) \in Nat
  BY <1>1, <1>2, FS_CardinalityType
<1>6. PICK a, b, c, ab, s : /\ a = Cardinality(A) /\ b = Cardinality(B) /\ c = Cardinality(C)
                            /\ ab = Cardinality(A \cup B) /\ s = Cardinality(S)
  OBVIOUS
<1>7. ab = a + b - 0
  BY <1>2, <1>4, <1>6
<1>8. s = ab + c - 0
  BY <1>3, <1>4, <1>6
<1>9. a \in Nat /\ b \in Nat /\ c \in Nat
  BY <1>5, <1>6
<1>10. a + b + c = s
  BY <1>7, <1>8, <1>9
<1> QED
  BY <1>6, <1>10

LEMMA FiltersOf ==
  ASSUME RowsInv, rows \subseteq Row
  PROVE  FiltersAgree
<1>1. ASSUME NEW s \in Stages, NEW t \in {r.checks[s] : r \in rows}
      PROVE  Summary(rows).checks[s][t] = Cardinality({r \in rows : InStatus(r, s, t)})
  <2>1. t \in Statuses
    BY <1>1 DEF Row
  <2>2. Summary(rows).checks = Checked(rows)
    BY DEF Summary
  <2> QED
    BY <2>1, <2>2, GroupsOf DEF InStatus
<1>2. Summary(rows).retrieval_errors = Cardinality(Filtered("retrieval-errors"))
  <2>1. Filtered("retrieval-errors") = {r \in rows : r.checks["retrieval"] \in {"failed", "missing"}}
    BY DEF Filtered, Matches
  <2> QED
    BY <2>1 DEF Summary, CountOf
<1>3. Cardinality(Filtered("passing")) + Cardinality(Filtered("warnings"))
        + Cardinality({r \in rows : Overall(r) = None}) = Cardinality(Filtered("all"))
  <2>1. PICK A, B, C : /\ A = {r \in rows : Overall(r) = "passing"}
                       /\ B = {r \in rows : Overall(r) \in {"failing", "warning"}}
                       /\ C = {r \in rows : Overall(r) = None}
    OBVIOUS
  <2>2. Filtered("passing") = A /\ Filtered("warnings") = B /\ Filtered("all") = rows
    BY <2>1 DEF Filtered, Matches
  <2>3. \A r \in rows : Overall(r) \in {"failing", "warning", "passing", None}
    BY OverallOf DEF RowsInv
  <2>4. None \notin {"failing", "warning", "passing"}
    BY StoreAssumption
  <2>5. rows = (A \cup B) \cup C
    BY <2>1, <2>3
  <2>6. A \cap B = {} /\ A \cap C = {} /\ B \cap C = {}
    BY <2>1, <2>4
  <2>7. Cardinality(A) + Cardinality(B) + Cardinality(C) = Cardinality(rows)
    BY <2>5, <2>6, ThreeParts DEF RowsInv
  <2> QED
    BY <2>1, <2>2, <2>7
<1>4. ASSUME NEW r \in rows, Overall(r) = None PROVE Matches(r, "not-evaluated")
  BY <1>4, OverallOf DEF RowsInv, Matches
<1>5. ASSUME NEW d \in Distributions
      PROVE  Health({r \in rows : r.url \in members[d]}).issues =
               Cardinality({r \in Filtered("document-issues") : r.url \in members[d]})
  <2>1. {q \in {r \in rows : r.url \in members[d]} : \E s \in Stages : q.checks[s] \in Issues}
          = {r \in Filtered("document-issues") : r.url \in members[d]}
    BY DEF Filtered, Matches
  <2> QED
    BY <2>1 DEF Health
<1> QED
  BY <1>1, <1>2, <1>3, <1>4, <1>5 DEF FiltersAgree

\* What the summary of a provider and the health of a distribution count is what
\* the filters of the document list select, of whatever rows passes and failed
\* downloads leave (document_check_summary, distribution_health).
THEOREM FiltersAlwaysAgree == Spec => []FiltersAgree
<1>1. IInv /\ RowsInv => FiltersAgree
  BY FiltersOf DEF IInv, StoreInv, TypeOK
<1>2. IInv /\ RowsInv /\ [Next]_allVars => RowsInv'
  BY RowsKeep
<1> QED
  BY <1>1, <1>2, RowsInitially, Invariance, PTL DEF Spec

-----------------------------------------------------------------------------
(* Versions over several commits and passes *)

\* What the results go back to: the checkpoint, or what it was when the pass began.
Basis == IF run.step = "idle" THEN processed ELSE run.since

\* A pass that is to come, or is under way, selects the advisory.
Pending(a) == Basis = 0 \/ a \in RewrittenSince(Basis)

Tip(a)    == Held(Newest)[a]
Advised(a) == listed[a] # Absent /\ listed[a].advisory # Absent
RecordedNow == run.step \in {"failures", "publish"}
LastOf(s) == s[Len(s)]
Ascending(s) == \A m, n \in DOMAIN s : m < n => s[m] < s[n]

RunInv ==
  /\ run.step # "idle" =>
       /\ Newest # 0
       /\ processed \in {0, run.since}
       /\ run.baseline = (run.since = 0)
       /\ run.history = IF run.since = 0 THEN {} ELSE RewrittenSince(run.since)
       /\ run.deleted \subseteq run.history
       /\ \A a \in run.selected : Tip(a) # Absent
  /\ run.step \in {"validate", "failures", "publish"} => run.deleted = {}
  /\ caughtUp => Newest # 0

\* A row is of the newest commit, or about to be looked at.
TipInv ==
  \A a \in Addresses : Advised(a) =>
    \/ listed[a].advisory = Tip(a)
    \/ Pending(a) /\ ~RecordedNow

WorkInv ==
  run.step = "validate" \/ (run.step = "clean" /\ run.since # 0) =>
    \A a \in Addresses : Advised(a) =>
      listed[a].advisory = Tip(a) \/ a \in run.selected \cup run.deleted

GoneInv ==
  run.step \in {"clean", "validate"} =>
    \A a \in run.history : Tip(a) = Absent => a \in run.deleted \/ listed[a] = Absent

\* Versions of an address that are recorded are its changes in their order, and
\* from the checkpoint on there are no gaps.
RecordedInv ==
  \A a \in Addresses :
    /\ Ascending(versionRows[a])
    /\ ToSet(versionRows[a]) \subseteq Scanned(a, 0)
    /\ versionRows[a] # <<>> =>
         \A i \in Scanned(a, 0) :
           IF i <= LastOf(versionRows[a])
             THEN i > Basis /\ Basis # 0 => i \in ToSet(versionRows[a])
             ELSE i > Basis /\ ~RecordedNow

CountInv ==
  \A a \in Addresses \ uncounted : listed[a] # Absent =>
    IF versionRows[a] # <<>> THEN listed[a].count = Len(versionRows[a])
    ELSE \/ versionRows = Unrecorded /\ ~caughtUp /\ ~RecordedNow
         \/ Pending(a) /\ ~RecordedNow
         \/ ~Advised(a) /\ Tip(a) = Absent

ListedRow == [id : TrackingIds, count : Nat, advisory : Advisories \cup {Absent}]

HistoryTypeInv ==
  /\ snapshots \in Seq(Snapshot) /\ Newest <= MaxSnapshots
  /\ listed \in [Addresses -> ListedRow \cup {Absent}]
  /\ versionRows \in [Addresses -> Seq(Nat)]
  /\ processed \in 0 .. Newest
  /\ run \in [step : {"idle", "clean", "validate", "failures", "publish"},
              since : 0 .. Newest, baseline : BOOLEAN, history : SUBSET Addresses,
              deleted : SUBSET Addresses, selected : SUBSET Addresses]
  /\ uncounted \subseteq Addresses /\ caughtUp \in BOOLEAN

HistoryInv ==
  HistoryTypeInv /\ RunInv /\ TipInv /\ WorkInv /\ GoneInv /\ RecordedInv /\ CountInv


LEMMA LeastOf ==
  ASSUME NEW S \in SUBSET Nat, S # {}
  PROVE  \E x \in S : \A y \in S : x <= y
<1>1. \E x \in S : \A y \in S : ~ (<<y, x>> \in OpToRel(<, Nat))
  BY NatLessThanWellFounded, WFMin, Zenon
<1>2. PICK x \in S : \A y \in S : ~ (<<y, x>> \in OpToRel(<, Nat))
  BY <1>1
<1>3. \A y \in S : ~ (y < x)
  BY <1>2 DEF OpToRel
<1>4. \A y \in S : x <= y
  BY <1>3
<1> QED
  BY <1>4

\* The changes of an advisory

LEMMA Unmoved ==
  ASSUME NEW N \in Nat, NEW h, NEW m \in 0 .. N, \A i \in m + 1 .. N : h[i] = h[i - 1]
  PROVE  h[N] = h[m]
<1> DEFINE S == {k \in m .. N : h[k] # h[m]}
<1>1. ASSUME S # {} PROVE FALSE
  <2>1. PICK k \in S : \A j \in S : k <= j
    <3>1. S \in SUBSET Nat
      OBVIOUS
    <3> QED
      BY <1>1, <3>1, LeastOf
  <2>2. k \in m .. N /\ k # m
    OBVIOUS
  <2>3. k \in m + 1 .. N /\ k - 1 \in m .. N
    BY <2>2
  <2>4. h[k - 1] = h[m]
    BY <2>1, <2>3
  <2>5. h[k] = h[k - 1]
    BY <2>3
  <2> QED
    BY <2>4, <2>5
<1>2. N \in m .. N
  OBVIOUS
<1> QED
  BY <1>1, <1>2

LEMMA LastMove ==
  ASSUME NEW N \in Nat, NEW h, NEW m \in 0 .. N, \E i \in m + 1 .. N : h[i] # h[i - 1]
  PROVE  \E k \in m + 1 .. N : /\ h[k] # h[k - 1] /\ h[N] = h[k]
                               /\ \A i \in k + 1 .. N : h[i] = h[i - 1]
<1> DEFINE S == {N - i : i \in {j \in m + 1 .. N : h[j] # h[j - 1]}}
<1>1. S # {} /\ S \in SUBSET Nat
  OBVIOUS
<1>2. PICK d \in S : \A e \in S : d <= e
  BY <1>1, LeastOf
<1>3. PICK k \in m + 1 .. N : h[k] # h[k - 1] /\ d = N - k
  BY <1>2
<1>4. ASSUME NEW i \in k + 1 .. N, h[i] # h[i - 1] PROVE FALSE
  <2>1. N - i \in S
    BY <1>4
  <2>2. N - k <= N - i
    BY <1>2, <1>3, <2>1
  <2> QED
    BY <2>2
<1>5. h[N] = h[k]
  <2>1. k \in 0 .. N
    OBVIOUS
  <2> QED
    BY <1>4, <2>1, Unmoved
<1> QED
  BY <1>3, <1>4, <1>5

\* What the newest commit holds stems from the last change.
LEMMA TipScanned ==
  ASSUME snapshots \in Seq(Snapshot), NEW a \in Addresses, NEW c \in 0 .. Newest,
         Tip(a) # Absent, a \in RewrittenSince(c)
  PROVE  \E k \in Scanned(a, c) : Held(k)[a] = Tip(a) /\ \A i \in Scanned(a, 0) : i <= k
<1>0. Newest \in Nat
  BY LenProperties DEF Newest
<1>1. PICK N \in Nat : N = Newest
  BY <1>0
<1>2. PICK h : h = [i \in 0 .. N |-> Held(i)[a]]
  OBVIOUS
<1>3. \E i \in c + 1 .. N : h[i] # h[i - 1]
  BY <1>1, <1>2 DEF RewrittenSince
<1>4. PICK k \in c + 1 .. N : /\ h[k] # h[k - 1] /\ h[N] = h[k]
                              /\ \A i \in k + 1 .. N : h[i] = h[i - 1]
  <2>1. c \in 0 .. N
    BY <1>1
  <2>2. \A m \in 0 .. N :
          (\E i \in m + 1 .. N : h[i] # h[i - 1]) =>
            \E k \in m + 1 .. N : /\ h[k] # h[k - 1] /\ h[N] = h[k]
                                 /\ \A i \in k + 1 .. N : h[i] = h[i - 1]
    BY LastMove
  <2> QED
    BY <1>3, <2>1, <2>2
<1>5. Held(k)[a] = Tip(a) /\ Held(k)[a] # Held(k - 1)[a]
  BY <1>1, <1>2, <1>4 DEF Tip
<1>6. k \in Scanned(a, c)
  BY <1>1, <1>4, <1>5 DEF Scanned
<1>7. ASSUME NEW i \in Scanned(a, 0), ~(i <= k) PROVE FALSE
  <2>1. i \in 1 .. N /\ Held(i)[a] # Held(i - 1)[a]
    BY <1>1 DEF Scanned
  <2>2. i \in k + 1 .. N
    BY <1>7, <2>1
  <2>3. h[i] = Held(i)[a] /\ h[i - 1] = Held(i - 1)[a]
    BY <1>2, <2>1
  <2> QED
    BY <1>4, <2>1, <2>2, <2>3
<1> QED
  BY <1>5, <1>6, <1>7

\* An advisory that is there was added at some time.
LEMMA TipAdded ==
  ASSUME snapshots \in Seq(Snapshot), NEW a \in Addresses, Tip(a) # Absent
  PROVE  a \in RewrittenSince(0)
<1>0. Newest \in Nat
  BY LenProperties DEF Newest
<1>1. PICK N \in Nat : N = Newest
  BY <1>0
<1>2. PICK h : h = [i \in 0 .. N |-> Held(i)[a]]
  OBVIOUS
<1>3. h[0] = Absent /\ h[N] # Absent
  BY <1>1, <1>2 DEF Tip, Held, Nothing
<1>4. \E i \in 0 + 1 .. N : h[i] # h[i - 1]
  BY <1>1, <1>3, Unmoved
<1> QED
  BY <1>1, <1>2, <1>4 DEF RewrittenSince

-----------------------------------------------------------------------------
\* Sequences that ascend

\* A set of numbers in its order.
LEMMA OldestOf ==
  ASSUME NEW N \in Nat, NEW S \in SUBSET (1 .. N)
  PROVE  /\ Oldest(S) \in Seq(S) /\ Ascending(Oldest(S)) /\ ToSet(Oldest(S)) = S
<1> DEFINE Rank0(i) == Cardinality({j \in S : j <= i})
           n == Cardinality(S)
           T == {Rank0(i) : i \in S}
<1>0. \A i \in S : i \in Nat
  OBVIOUS
<1>1. IsFiniteSet(S) /\ n \in Nat
  <2>1. IsFiniteSet(1 .. N)
    BY FS_Interval
  <2> QED
    BY <2>1, FS_Subset, FS_CardinalityType
<1>2. \A i \in S : IsFiniteSet({j \in S : j <= i}) /\ Rank0(i) \in 1 .. n
  <2> SUFFICES ASSUME NEW i \in S PROVE IsFiniteSet({j \in S : j <= i}) /\ Rank0(i) \in 1 .. n
    OBVIOUS
  <2>1. PICK B : B = {j \in S : j <= i}
    OBVIOUS
  <2>2. B \subseteq S /\ i \in B
    BY <2>1
  <2>3. IsFiniteSet(B) /\ Cardinality(B) \in Nat /\ Cardinality(B) <= n
    BY <1>1, <2>2, FS_Subset, FS_CardinalityType
  <2>4. Cardinality(B) # 0
    BY <2>2, <2>3, FS_EmptySet
  <2> QED
    BY <1>1, <2>1, <2>3, <2>4
<1>3. ASSUME NEW i \in S, NEW k \in S, i < k PROVE Rank0(i) < Rank0(k)
  <2>1. PICK B, C : B = {j \in S : j <= i} /\ C = {j \in S : j <= k}
    OBVIOUS
  <2>2. B \subseteq C /\ k \in C /\ k \notin B
    <3>1. i \in Nat /\ k \in Nat /\ \A j \in S : j \in Nat
      OBVIOUS
    <3>2. \A j \in S : j <= i => j <= k
      BY <1>3, <3>1
    <3>3. k <= k /\ ~(k <= i)
      BY <1>3, <3>1
    <3> QED
      BY <2>1, <3>2, <3>3
  <2>3. IsFiniteSet(C) /\ Cardinality(B) \in Nat /\ Cardinality(C) \in Nat
    BY <1>1, <1>2, <2>1
  <2>4. Cardinality(B) <= Cardinality(C) /\ Cardinality(B) # Cardinality(C)
    BY <2>2, <2>3, FS_Subset
  <2> QED
    BY <2>1, <2>3, <2>4
<1>4. \A i, k \in S : Rank0(i) = Rank0(k) => i = k
  <2> SUFFICES ASSUME NEW i \in S, NEW k \in S, Rank0(i) = Rank0(k), i # k PROVE FALSE
    OBVIOUS
  <2>1. i < k \/ k < i
    OBVIOUS
  <2>2. Rank0(i) \in Nat /\ Rank0(k) \in Nat
    BY <1>2
  <2>3. Rank0(i) < Rank0(k) \/ Rank0(k) < Rank0(i)
    BY <1>3, <2>1
  <2> QED
    BY <2>2, <2>3
<1>5. T = 1 .. n
  <2>1. PICK f : f = [i \in S |-> Rank0(i)]
    OBVIOUS
  <2>2. f \in Bijection(S, T)
    <3>1. f \in [S -> T] /\ \A t \in T : \E i \in S : f[i] = t
      BY <2>1
    <3>2. \A i, k \in S : f[i] = f[k] => i = k
      BY <1>4, <2>1
    <3> QED
      BY <3>1, <3>2 DEF Bijection, Injection, Surjection, IsInjective
  <2>3. Cardinality(T) = n
    BY <1>1, <2>2, FS_Bijection DEF ExistsBijection
  <2>4. IsFiniteSet(1 .. n) /\ Cardinality(1 .. n) = n
    BY <1>1, FS_Interval
  <2>5. T \subseteq 1 .. n
    BY <1>2
  <2> QED
    BY <2>3, <2>4, <2>5, FS_Subset
<1>6. PICK q : q = Oldest(S)
  OBVIOUS
<1>7. DOMAIN q = 1 .. n /\ \A m \in 1 .. n : q[m] \in S /\ Rank0(q[m]) = m
  <2>1. q = [m \in 1 .. n |-> CHOOSE i \in S : Rank0(i) = m]
    BY <1>6 DEF Oldest
  <2>2. ASSUME NEW m \in 1 .. n PROVE q[m] \in S /\ Rank0(q[m]) = m
    <3>1. \E i \in S : Rank0(i) = m
      BY <1>5, <2>2
    <3>2. q[m] = CHOOSE i \in S : Rank0(i) = m
      BY <2>1
    <3> HIDE DEF Rank0
    <3> QED
      BY <3>1, <3>2
  <2> QED
    BY <2>1, <2>2
<1>8. q \in [1 .. n -> S]
  BY <1>6, <1>7 DEF Oldest
<1>9. q \in Seq(S) /\ Len(q) = n
  BY <1>1, <1>8, IsASeq, LenProperties
<1>10. Ascending(q)
  <2> SUFFICES ASSUME NEW l \in 1 .. n, NEW m \in 1 .. n, l < m, ~(q[l] < q[m]) PROVE FALSE
    BY <1>7 DEF Ascending
  <2>1. q[l] \in S /\ q[m] \in S /\ Rank0(q[l]) = l /\ Rank0(q[m]) = m
    BY <1>7
  <2>2. q[m] < q[l] \/ q[m] = q[l]
    <3>1. q[l] \in Nat /\ q[m] \in Nat
      BY <1>0, <2>1
    <3> QED
      BY <3>1
  <2>3. Rank0(q[m]) < Rank0(q[l]) \/ Rank0(q[m]) = Rank0(q[l])
    BY <1>3, <2>1, <2>2
  <2>4. m < l \/ m = l
    BY <2>1, <2>3
  <2> QED
    BY <2>4
<1>11. ToSet(q) = S
  <2>1. \A i \in S : Rank0(i) \in 1 .. n /\ q[Rank0(i)] = i
    <3> SUFFICES ASSUME NEW i \in S PROVE Rank0(i) \in 1 .. n /\ q[Rank0(i)] = i
      OBVIOUS
    <3>1. PICK r : r = Rank0(i)
      OBVIOUS
    <3>2. r \in 1 .. n
      BY <1>2, <3>1
    <3>3. q[r] \in S /\ Rank0(q[r]) = r
      BY <1>7, <3>2
    <3>4. q[r] = i
      BY <1>4, <3>1, <3>3
    <3> QED
      BY <3>1, <3>2, <3>4
  <2>2. ToSet(q) = {q[m] : m \in 1 .. n}
    BY <1>7 DEF ToSet
  <2> QED
    BY <1>7, <2>1, <2>2
<1> QED
  BY <1>6, <1>9, <1>10, <1>11

LEMMA LastIsGreatest ==
  ASSUME NEW s \in Seq(Nat), Ascending(s), s # <<>>
  PROVE  LastOf(s) \in ToSet(s) /\ \A x \in ToSet(s) : x <= LastOf(s)
<1>1. Len(s) \in Nat /\ DOMAIN s = 1 .. Len(s) /\ Len(s) # 0 /\ \A n \in 1 .. Len(s) : s[n] \in Nat
  BY LenProperties, EmptySeq
<1>2. PICK l : l = Len(s)
  OBVIOUS
<1>3. ASSUME NEW n \in 1 .. l PROVE s[n] <= s[l]
  <2>1. n = l \/ n < l
    <3>1. l \in Nat /\ n <= l /\ n \in Nat
      BY <1>1, <1>2
    <3> QED
      BY <3>1
  <2>2. s[n] \in Nat /\ s[l] \in Nat /\ (n < l => s[n] < s[l])
    BY <1>1, <1>2 DEF Ascending
  <2> QED
    BY <2>1, <2>2
<1> QED
  BY <1>1, <1>2, <1>3 DEF ToSet, LastOf

\* What comes after the last may be appended.
LEMMA AscendingConcat ==
  ASSUME NEW s \in Seq(Nat), NEW t \in Seq(Nat), Ascending(s), Ascending(t),
         \A x \in ToSet(s), y \in ToSet(t) : x < y
  PROVE  s \o t \in Seq(Nat) /\ Ascending(s \o t) /\ ToSet(s \o t) = ToSet(s) \cup ToSet(t)
<1>1. PICK k, l, q : k = Len(s) /\ l = Len(t) /\ q = s \o t
  OBVIOUS
<1>2. /\ k \in Nat /\ l \in Nat
      /\ DOMAIN s = 1 .. k /\ DOMAIN t = 1 .. l
      /\ \A i \in 1 .. k : s[i] \in Nat
      /\ \A i \in 1 .. l : t[i] \in Nat
  BY <1>1, LenProperties
<1>3. q \in Seq(Nat) /\ Len(q) = k + l /\ \A i \in 1 .. k + l : q[i] = IF i <= k THEN s[i] ELSE t[i - k]
  BY <1>1, ConcatProperties
<1>4. DOMAIN q = 1 .. k + l
  BY <1>3, LenProperties
<1>5. ASSUME NEW m \in 1 .. k + l, NEW n \in 1 .. k + l, m < n PROVE q[m] < q[n]
  <2>1. CASE n <= k
    <3>1. m \in 1 .. k /\ n \in 1 .. k
      BY <1>2, <1>5, <2>1
    <3>2. s[m] < s[n]
      BY <1>2, <1>5, <3>1 DEF Ascending
    <3> QED
      BY <1>3, <3>1, <3>2
  <2>2. CASE m > k
    <3>1. m - k \in 1 .. l /\ n - k \in 1 .. l /\ m - k < n - k /\ ~(m <= k) /\ ~(n <= k)
      BY <1>2, <1>5, <2>2
    <3>2. t[m - k] < t[n - k]
      BY <1>2, <3>1 DEF Ascending
    <3> QED
      BY <1>3, <3>1, <3>2
  <2>3. CASE m <= k /\ n > k
    <3>1. m \in 1 .. k /\ n - k \in 1 .. l /\ ~(n <= k)
      BY <1>2, <1>5, <2>3
    <3>2. s[m] \in ToSet(s) /\ t[n - k] \in ToSet(t)
      BY <1>2, <3>1 DEF ToSet
    <3>3. s[m] < t[n - k]
      BY <3>2
    <3> QED
      BY <1>3, <2>3, <3>1, <3>3
  <2> QED
    BY <1>2, <2>1, <2>2, <2>3
<1>6. ToSet(q) = ToSet(s) \cup ToSet(t)
  <2>1. ToSet(q) = {q[i] : i \in 1 .. k + l} /\ ToSet(s) = {s[i] : i \in 1 .. k}
          /\ ToSet(t) = {t[i] : i \in 1 .. l}
    BY <1>2, <1>4 DEF ToSet
  <2>2. ASSUME NEW i \in 1 .. k + l PROVE q[i] \in ToSet(s) \cup ToSet(t)
    <3>1. i \in 1 .. k \/ (~(i <= k) /\ i - k \in 1 .. l)
      BY <1>2
    <3> QED
      BY <1>3, <2>1, <3>1
  <2>3. ASSUME NEW i \in 1 .. k PROVE s[i] \in ToSet(q)
    <3>1. i \in 1 .. k + l /\ i <= k
      BY <1>2
    <3> QED
      BY <1>3, <2>1, <3>1
  <2>4. ASSUME NEW i \in 1 .. l PROVE t[i] \in ToSet(q)
    <3>1. i + k \in 1 .. k + l /\ ~(i + k <= k) /\ (i + k) - k = i
      BY <1>2
    <3> QED
      BY <1>3, <2>1, <3>1
  <2> QED
    BY <2>1, <2>2, <2>3, <2>4
<1> QED
  BY <1>1, <1>3, <1>4, <1>5, <1>6 DEF Ascending

\* A sequence that takes all its members from a set.
LEMMA SeqWithin ==
  ASSUME NEW s \in Seq(Nat), NEW S, ToSet(s) \subseteq S
  PROVE  s \in Seq(S)
<1>1. Len(s) \in Nat /\ s \in [1 .. Len(s) -> Nat] /\ DOMAIN s = 1 .. Len(s)
  BY LenProperties
<1>2. \A i \in 1 .. Len(s) : s[i] \in S
  BY <1>1 DEF ToSet
<1>3. s \in [1 .. Len(s) -> S]
  BY <1>1, <1>2
<1> QED
  BY <1>1, <1>3, IsASeq

LEMMA RecordedAfterOf ==
  ASSUME snapshots \in Seq(Snapshot), NEW a \in Addresses, NEW c \in 0 .. Newest,
         NEW kept, kept[a] \in Seq(Nat), Ascending(kept[a]),
         kept[a] # <<>> =>
           \A i \in Scanned(a, c) : i <= LastOf(kept[a]) => i \in ToSet(kept[a])
  PROVE  /\ RecordedAfter(a, kept, c) \in Seq(Nat)
         /\ Ascending(RecordedAfter(a, kept, c))
         /\ ToSet(RecordedAfter(a, kept, c)) = ToSet(kept[a]) \cup Scanned(a, c)
         /\ Scanned(a, c) = {} => RecordedAfter(a, kept, c) = kept[a]
<1>0. Newest \in Nat
  BY LenProperties DEF Newest
<1>1. PICK s, S, t : s = kept[a] /\ S = Scanned(a, c) \ ToSet(s) /\ t = Oldest(S)
  OBVIOUS
<1>2. Scanned(a, c) \subseteq 1 .. Newest
  BY <1>0 DEF Scanned
<1>3. t \in Seq(S) /\ Ascending(t) /\ ToSet(t) = S /\ S \subseteq 1 .. Newest
  BY <1>0, <1>1, <1>2, OldestOf
<1>4. t \in Seq(Nat) /\ s \in Seq(Nat) /\ Ascending(s)
  <2>1. S \subseteq Nat
    BY <1>0, <1>3
  <2> QED
    BY <1>1, <1>3, <2>1
<1>5. ASSUME NEW x \in ToSet(s), NEW y \in ToSet(t) PROVE x < y
  <2>1. s # <<>>
    BY <1>5 DEF ToSet
  <2>2. x <= LastOf(s) /\ LastOf(s) \in ToSet(s)
    BY <1>4, <1>5, <2>1, LastIsGreatest
  <2>3. ToSet(s) \subseteq Nat
    <3>1. DOMAIN s = 1 .. Len(s) /\ s \in [1 .. Len(s) -> Nat]
      BY <1>4, LenProperties
    <3> QED
      BY <3>1 DEF ToSet
  <2>4. ~(y <= LastOf(s))
    BY <1>1, <1>3, <2>1
  <2>5. y \in Nat /\ x \in Nat /\ LastOf(s) \in Nat
    <3>1. y \in S
      BY <1>3, <1>5
    <3>2. \A i \in 1 .. Newest : i \in Nat
      BY <1>0
    <3>3. y \in Nat
      BY <1>3, <3>1, <3>2
    <3> QED
      BY <1>5, <2>2, <2>3, <3>3
  <2> QED
    BY <2>2, <2>4, <2>5
<1>6. s \o t \in Seq(Nat) /\ Ascending(s \o t) /\ ToSet(s \o t) = ToSet(s) \cup ToSet(t)
  BY <1>3, <1>4, <1>5, AscendingConcat
<1>7. RecordedAfter(a, kept, c) = s \o t
  BY <1>1 DEF RecordedAfter
<1>8. Scanned(a, c) = {} => s \o t = s
  <2>1. ASSUME Scanned(a, c) = {} PROVE t = <<>>
    <3>1. ToSet(t) = {}
      BY <1>1, <1>3, <2>1
    <3>2. DOMAIN t = 1 .. Len(t) /\ Len(t) \in Nat
      BY <1>4, LenProperties
    <3>3. 1 \notin DOMAIN t
      BY <3>1 DEF ToSet
    <3>4. Len(t) = 0
      BY <3>2, <3>3
    <3> QED
      BY <1>4, <3>4, EmptySeq
  <2> QED
    BY <1>4, <2>1, ConcatEmptySeq
<1> QED
  BY <1>1, <1>3, <1>6, <1>7, <1>8

-----------------------------------------------------------------------------
\* What a step that commits nothing keeps

LEMMA SameHistory ==
  ASSUME snapshots' = snapshots
  PROVE  /\ Newest' = Newest
         /\ \A i : Held(i)' = Held(i)
         /\ \A a : Tip(a)' = Tip(a)
         /\ \A a, c : Scanned(a, c)' = Scanned(a, c)
         /\ \A c : RewrittenSince(c)' = RewrittenSince(c)
BY DEF Newest, Held, Tip, Scanned, RewrittenSince

LEMMA PendingKept ==
  ASSUME snapshots' = snapshots, Basis' \in {Basis, 0}
  PROVE  \A a : Pending(a) => Pending(a)'
<1>1. \A c : RewrittenSince(c)' = RewrittenSince(c)
  BY SameHistory
<1>2. CASE Basis' = 0
  BY <1>2 DEF Pending
<1>3. CASE Basis' = Basis
  <2>1. RewrittenSince(Basis)' = RewrittenSince(Basis)
    BY <1>3, SameHistory DEF RewrittenSince, Newest, Held
  <2> QED
    BY <1>3, <2>1 DEF Pending
<1> QED
  BY <1>2, <1>3

LEMMA TipKept ==
  ASSUME TipInv, snapshots' = snapshots, Basis' \in {Basis, 0}, RecordedNow' => RecordedNow,
         \A a \in Addresses : Advised(a)' =>
           \/ listed'[a].advisory = Tip(a)
           \/ Advised(a) /\ listed'[a].advisory = listed[a].advisory
  PROVE  TipInv'
BY PendingKept, SameHistory DEF TipInv

LEMMA RecordedKept ==
  ASSUME HistoryTypeInv, RecordedInv, UNCHANGED <<snapshots, versionRows>>,
         Basis' \in {Basis, 0}, RecordedNow' => RecordedNow
  PROVE  RecordedInv'
<1> SUFFICES ASSUME NEW a \in Addresses
             PROVE  /\ Ascending(versionRows[a])
                    /\ ToSet(versionRows[a]) \subseteq Scanned(a, 0)
                    /\ versionRows[a] # <<>> =>
                         \A i \in Scanned(a, 0) :
                           IF i <= LastOf(versionRows[a])
                             THEN i > Basis' /\ Basis' # 0 => i \in ToSet(versionRows[a])
                             ELSE i > Basis' /\ ~RecordedNow'
  <2>1. \A b \in Addresses : Scanned(b, 0)' = Scanned(b, 0)
    BY SameHistory
  <2> QED
    BY <2>1 DEF RecordedInv, ToSet, LastOf, Ascending
<1>1. \A i \in Scanned(a, 0) : i > 0
  BY DEF Scanned
<1> QED
  BY <1>1 DEF RecordedInv

LEMMA CountKept ==
  ASSUME CountInv, UNCHANGED <<snapshots, versionRows>>,
         Basis' \in {Basis, 0}, RecordedNow' => RecordedNow, caughtUp' => caughtUp,
         uncounted \subseteq uncounted',
         \A a \in Addresses \ uncounted' : listed'[a] # Absent =>
           /\ listed[a] # Absent /\ listed'[a].count = listed[a].count
           /\ Advised(a)' => Advised(a) \/ Tip(a) # Absent
  PROVE  CountInv'
<1> SUFFICES ASSUME NEW a \in Addresses \ uncounted', listed'[a] # Absent
             PROVE  IF versionRows[a] # <<>> THEN listed'[a].count = Len(versionRows[a])
                    ELSE \/ versionRows = Unrecorded /\ ~caughtUp' /\ ~RecordedNow'
                         \/ Pending(a)' /\ ~RecordedNow'
                         \/ ~Advised(a)' /\ Tip(a) = Absent
  BY SameHistory DEF CountInv, Unrecorded
<1>1. Pending(a) => Pending(a)'
  BY PendingKept
<1> QED
  BY <1>1 DEF CountInv

-----------------------------------------------------------------------------
\* One lemma for each action

LEMMA HistoryInitially == VersionsInit => HistoryInv
<1> SUFFICES ASSUME VersionsInit PROVE HistoryInv
  OBVIOUS
<1>0. /\ run = NoRun /\ uncounted = {} /\ caughtUp = FALSE /\ processed = Newest
      /\ versionRows = Unrecorded /\ run.step = "idle"
  BY DEF VersionsInit, NoRun
<1>1. /\ snapshots \in Seq(Snapshot) /\ Newest <= MaxSnapshots /\ Newest \in Nat
      /\ listed \in [Addresses -> ListedRow \cup {Absent}]
      /\ \A a \in Addresses : Advised(a) => listed[a].advisory = Tip(a)
  <2>0. /\ Advisories \subseteq [id : TrackingIds, says : Nat]
        /\ MaxSnapshots \in Nat \ {0} /\ Absent \notin Advisories
    BY VersionsAssumption
  <2>1. CASE snapshots = <<>> /\ listed = Nothing
    BY <2>0, <2>1 DEF Newest, Nothing, Advised
  <2>2. ASSUME NEW tree \in Snapshot, snapshots = <<tree>>,
               listed = [a \in Addresses |-> IF tree[a] = Absent THEN Absent
                                             ELSE ListedAs(tree[a], FirstCount)]
        PROVE  /\ snapshots \in Seq(Snapshot) /\ Newest <= MaxSnapshots /\ Newest \in Nat
               /\ listed \in [Addresses -> ListedRow \cup {Absent}]
               /\ \A a \in Addresses : Advised(a) => listed[a].advisory = Tip(a)
    <3>1. Newest = 1 /\ snapshots \in Seq(Snapshot)
      BY <2>2 DEF Newest
    <3>2. \A a \in Addresses : tree[a] = Absent \/ ListedAs(tree[a], FirstCount) \in ListedRow
      BY <2>0 DEF Snapshot, ListedAs, FirstCount, ListedRow
    <3>3. \A a \in Addresses : Tip(a) = tree[a]
      BY <2>2, <3>1 DEF Tip, Held
    <3>4. \A a \in Addresses : Advised(a) => listed[a].advisory = tree[a]
      BY <2>2 DEF Advised, ListedAs
    <3> QED
      BY <2>0, <2>2, <3>1, <3>2, <3>3, <3>4
  <2> QED
    BY <2>1, <2>2 DEF VersionsInit
<1>2. HistoryTypeInv
  <2>1. versionRows \in [Addresses -> Seq(Nat)]
    BY <1>0 DEF Unrecorded
  <2>2. processed \in 0 .. Newest /\ 0 \in 0 .. Newest
    BY <1>0, <1>1
  <2>3. run \in [step : {"idle", "clean", "validate", "failures", "publish"},
              since : 0 .. Newest, baseline : BOOLEAN, history : SUBSET Addresses,
              deleted : SUBSET Addresses, selected : SUBSET Addresses]
    BY <1>0, <2>2 DEF NoRun
  <2> QED
    BY <1>0, <1>1, <2>1, <2>2, <2>3 DEF HistoryTypeInv
<1>3. RunInv /\ WorkInv /\ GoneInv
  BY <1>0 DEF RunInv, WorkInv, GoneInv
<1>4. TipInv
  BY <1>1 DEF TipInv
<1>5. RecordedInv /\ CountInv
  <2>1. \A a \in Addresses : versionRows[a] = <<>>
    BY <1>0 DEF Unrecorded
  <2>2. Ascending(<<>>) /\ ToSet(<<>>) = {}
    BY DEF Ascending, ToSet
  <2>3. ~RecordedNow
    BY <1>0 DEF RecordedNow
  <2> QED
    BY <1>0, <2>1, <2>2, <2>3 DEF RecordedInv, CountInv
<1> QED
  BY <1>2, <1>3, <1>4, <1>5 DEF HistoryInv

\* A pass ends early: what it was to do remains to be done.
LEMMA AbandonRunKeeps == HistoryInv /\ AbandonRun => HistoryInv'
<1> SUFFICES ASSUME HistoryInv, AbandonRun PROVE HistoryInv'
  OBVIOUS
<1>0. /\ HistoryTypeInv /\ RunInv /\ TipInv /\ RecordedInv /\ CountInv
      /\ run.step # "idle" /\ run' = NoRun /\ run'.step = "idle"
      /\ UNCHANGED <<snapshots, listed, versionRows, processed, uncounted, caughtUp>>
  BY DEF HistoryInv, AbandonRun, NoRun
<1>1. Newest' = Newest /\ ~RecordedNow'
  BY <1>0, SameHistory DEF RecordedNow
<1>2. Basis' \in {Basis, 0}
  BY <1>0 DEF Basis, RunInv
<1>3. HistoryTypeInv'
  <2>1. Newest \in Nat
    BY <1>0, LenProperties DEF HistoryTypeInv, Newest
  <2>2. run' \in [step : {"idle", "clean", "validate", "failures", "publish"},
              since : 0 .. Newest, baseline : BOOLEAN, history : SUBSET Addresses,
              deleted : SUBSET Addresses, selected : SUBSET Addresses]
    BY <1>0, <2>1 DEF NoRun
  <2> QED
    BY <1>0, <1>1, <2>2 DEF HistoryTypeInv
<1>4. RunInv' /\ WorkInv' /\ GoneInv'
  BY <1>0, <1>1 DEF RunInv, WorkInv, GoneInv
<1>5. TipInv'
  BY <1>0, <1>1, <1>2, TipKept DEF Advised
<1>6. RecordedInv'
  BY <1>0, <1>1, <1>2, RecordedKept
<1>7. CountInv'
  BY <1>0, <1>1, <1>2, CountKept DEF Advised
<1> QED
  BY <1>3, <1>4, <1>5, <1>6, <1>7 DEF HistoryInv

LEMMA BeginRunKeeps == HistoryInv /\ BeginRun => HistoryInv'
<1> SUFFICES ASSUME HistoryInv, BeginRun PROVE HistoryInv'
  OBVIOUS
<1>0. /\ HistoryTypeInv /\ RunInv /\ TipInv /\ RecordedInv /\ CountInv
      /\ run.step = "idle" /\ Newest > 0
      /\ UNCHANGED <<snapshots, listed, versionRows, uncounted, caughtUp>>
  BY DEF HistoryInv, BeginRun
<1>1. PICK others \in SUBSET Addresses, present \in SUBSET Addresses, history \in SUBSET Addresses :
        /\ present = {a \in Addresses : Held(Newest)[a] # Absent}
        /\ history = IF processed = 0 THEN {} ELSE RewrittenSince(processed)
        /\ run' = [step |-> "clean", since |-> processed, baseline |-> processed = 0,
                   history |-> history, deleted |-> history \ present,
                   selected |-> IF processed = 0 THEN present
                                ELSE (history \cup others) \cap present]
        /\ processed' \in {0, processed}
  <2>1. PICK present, history :
          /\ present = {a \in Addresses : Held(Newest)[a] # Absent}
          /\ history = IF processed = 0 THEN {} ELSE RewrittenSince(processed)
    OBVIOUS
  <2>2. PICK others \in SUBSET Addresses :
          /\ run' = [step |-> "clean", since |-> processed, baseline |-> processed = 0,
                     history |-> history, deleted |-> history \ present,
                     selected |-> IF processed = 0 THEN present
                                  ELSE (history \cup others) \cap present]
          /\ processed' \in {0, processed}
    BY <2>1 DEF BeginRun
  <2>3. present \in SUBSET Addresses /\ history \in SUBSET Addresses
    BY <2>1 DEF RewrittenSince
  <2> QED
    BY <2>1, <2>2, <2>3
<1>2. /\ run'.step = "clean" /\ run'.since = processed /\ run'.baseline = (processed = 0)
      /\ run'.history = history /\ run'.deleted = history \ present
      /\ run'.selected = IF processed = 0 THEN present ELSE (history \cup others) \cap present
  BY <1>1
<1>3. Newest' = Newest /\ ~RecordedNow' /\ ~RecordedNow /\ Newest \in Nat
  BY <1>0, <1>2, SameHistory, LenProperties DEF RecordedNow, HistoryTypeInv, Newest
<1>4. Basis' = Basis /\ Basis = processed
  BY <1>0, <1>2 DEF Basis
<1>5. history \subseteq Addresses /\ present \subseteq Addresses /\ \A a \in Addresses : a \in present <=> Tip(a) # Absent
  BY <1>1 DEF RewrittenSince, Tip
<1>6. HistoryTypeInv'
  <2>1. processed \in 0 .. Newest /\ processed' \in 0 .. Newest
    BY <1>0, <1>1, <1>3 DEF HistoryTypeInv
  <2>2. run' \in [step : {"idle", "clean", "validate", "failures", "publish"},
              since : 0 .. Newest, baseline : BOOLEAN, history : SUBSET Addresses,
              deleted : SUBSET Addresses, selected : SUBSET Addresses]
    BY <1>1, <1>5, <2>1
  <2> QED
    BY <1>0, <1>3, <2>1, <2>2 DEF HistoryTypeInv
<1>7. RunInv'
  <2>1. processed' \in {0, run'.since} /\ run'.baseline = (run'.since = 0) /\ Newest' # 0
    BY <1>0, <1>1, <1>2, <1>3
  <2>2. run'.history = IF run'.since = 0 THEN {} ELSE RewrittenSince(run.since)'
    <3>1. \A c : RewrittenSince(c)' = RewrittenSince(c)
      BY <1>0, SameHistory
    <3>2. RewrittenSince(processed) = {a \in Addresses : \E i \in processed + 1 .. Newest : Held(i)[a] # Held(i - 1)[a]}
      BY DEF RewrittenSince
    <3>3. RewrittenSince(run.since)' = {a \in Addresses : \E i \in run'.since + 1 .. Newest' : Held(i)'[a] # Held(i - 1)'[a]}
      BY DEF RewrittenSince
    <3>4. RewrittenSince(run.since)' = RewrittenSince(processed)
      BY <1>0, <1>2, <1>3, <3>2, <3>3, SameHistory
    <3> QED
      BY <1>1, <1>2, <3>4
  <2>3. \A a \in run'.selected : Tip(a)' # Absent
    BY <1>0, <1>2, <1>5, SameHistory
  <2> QED
    BY <1>2, <2>1, <2>2, <2>3 DEF RunInv
<1>8. WorkInv'
  <2> SUFFICES ASSUME processed # 0, NEW a \in Addresses, Advised(a),
                      listed[a].advisory # Tip(a), a \notin run'.deleted
               PROVE  a \in run'.selected
    BY <1>0, <1>2, SameHistory DEF WorkInv, Advised
  <2>1. a \in RewrittenSince(processed)
    BY <1>0, <1>4 DEF TipInv, Pending
  <2> QED
    BY <1>1, <1>2, <2>1
<1>9. GoneInv'
  BY <1>0, <1>2, <1>5, SameHistory DEF GoneInv
<1>10. TipInv'
  BY <1>0, <1>3, <1>4, TipKept DEF Advised
<1>11. RecordedInv'
  BY <1>0, <1>3, <1>4, RecordedKept
<1>12. CountInv'
  BY <1>0, <1>3, <1>4, CountKept DEF Advised
<1> QED
  BY <1>6, <1>7, <1>8, <1>9, <1>10, <1>11, <1>12 DEF HistoryInv

\* What the steps of a pass leave alone.
LEMMA WithinRun ==
  ASSUME HistoryTypeInv, RunInv, run.step # "idle", run'.step # "idle",
         UNCHANGED <<snapshots, processed, caughtUp>>,
         run' = [run EXCEPT !.step = run'.step, !.deleted = run'.deleted, !.selected = run'.selected],
         run'.deleted \subseteq run.deleted, run'.selected \subseteq run.selected,
         run'.step \in {"clean", "validate", "failures", "publish"},
         run'.step # "clean" => run'.deleted = {}
  PROVE  /\ Basis' = Basis /\ Newest' = Newest
         /\ run'.since = run.since /\ run'.baseline = run.baseline /\ run'.history = run.history
         /\ run' \in [step : {"idle", "clean", "validate", "failures", "publish"},
                    since : 0 .. Newest, baseline : BOOLEAN, history : SUBSET Addresses,
                    deleted : SUBSET Addresses, selected : SUBSET Addresses]
         /\ RunInv'
<1>1. run \in [step : {"idle", "clean", "validate", "failures", "publish"},
              since : 0 .. Newest, baseline : BOOLEAN, history : SUBSET Addresses,
              deleted : SUBSET Addresses, selected : SUBSET Addresses]
  BY DEF HistoryTypeInv
<1>2. run'.since = run.since /\ run'.baseline = run.baseline /\ run'.history = run.history
  BY <1>1
<1>3. Newest' = Newest /\ Basis' = Basis
  BY <1>2, SameHistory DEF Basis
<1>4. run' \in [step : {"idle", "clean", "validate", "failures", "publish"},
                    since : 0 .. Newest, baseline : BOOLEAN, history : SUBSET Addresses,
                    deleted : SUBSET Addresses, selected : SUBSET Addresses]
  <2>1. run'.deleted \in SUBSET Addresses /\ run'.selected \in SUBSET Addresses
    BY <1>1
  <2>2. PICK s, d, e : s = run'.step /\ d = run'.deleted /\ e = run'.selected
    OBVIOUS
  <2>3. run' = [run EXCEPT !.step = s, !.deleted = d, !.selected = e]
    BY <2>2
  <2> QED
    BY <1>1, <2>1, <2>2, <2>3
<1>5. RunInv'
  <2>1. RewrittenSince(run.since)' = RewrittenSince(run.since)
    BY <1>2, <1>3, SameHistory DEF RewrittenSince
  <2>2. \A a : Tip(a)' = Tip(a)
    BY SameHistory
  <2> QED
    BY <1>2, <1>3, <2>1, <2>2 DEF RunInv
<1> QED
  BY <1>2, <1>3, <1>4, <1>5

LEMMA DeleteAllDocumentsKeeps == HistoryInv /\ DeleteAllDocuments => HistoryInv'
<1> SUFFICES ASSUME HistoryInv, DeleteAllDocuments PROVE HistoryInv'
  OBVIOUS
<1>0. /\ HistoryTypeInv /\ RunInv /\ TipInv /\ RecordedInv /\ CountInv
      /\ run.step = "clean" /\ run.baseline /\ listed' = Nothing
      /\ run' = [run EXCEPT !.step = "validate"]
      /\ UNCHANGED <<snapshots, versionRows, processed, uncounted, caughtUp>>
  BY DEF HistoryInv, DeleteAllDocuments
<1>1. /\ run'.step = "validate" /\ run'.deleted = run.deleted /\ run'.selected = run.selected
      /\ run' = [run EXCEPT !.step = run'.step, !.deleted = run'.deleted, !.selected = run'.selected]
  BY <1>0 DEF HistoryTypeInv
<1>2. run.history = {} /\ run'.deleted = {}
  BY <1>0, <1>1 DEF RunInv
<1>3. /\ Basis' = Basis /\ Newest' = Newest /\ run'.history = run.history
      /\ run' \in [step : {"idle", "clean", "validate", "failures", "publish"},
                 since : 0 .. Newest, baseline : BOOLEAN, history : SUBSET Addresses,
                 deleted : SUBSET Addresses, selected : SUBSET Addresses]
      /\ RunInv'
  BY <1>0, <1>1, <1>2, WithinRun
<1>4. ~RecordedNow' /\ \A a \in Addresses : listed'[a] = Absent /\ ~Advised(a)'
  BY <1>0, <1>1 DEF RecordedNow, Advised, Nothing
<1>5. HistoryTypeInv'
  <2>1. listed' \in [Addresses -> ListedRow \cup {Absent}]
    BY <1>0 DEF Nothing
  <2> QED
    BY <1>0, <1>3, <2>1 DEF HistoryTypeInv
<1>6. WorkInv' /\ GoneInv'
  BY <1>2, <1>3, <1>4 DEF WorkInv, GoneInv
<1>7. TipInv'
  BY <1>4 DEF TipInv
<1>8. RecordedInv'
  BY <1>0, <1>3, <1>4, RecordedKept
<1>9. CountInv'
  BY <1>4 DEF CountInv
<1> QED
  BY <1>3, <1>5, <1>6, <1>7, <1>8, <1>9 DEF HistoryInv

LEMMA DeleteDocumentUrlKeeps ==
  ASSUME HistoryInv, NEW d \in Addresses, DeleteDocumentUrl(d)
  PROVE  HistoryInv'
<1>0. /\ HistoryTypeInv /\ RunInv /\ TipInv /\ WorkInv /\ GoneInv /\ RecordedInv /\ CountInv
      /\ run.step = "clean" /\ d \in run.deleted /\ listed' = [listed EXCEPT ![d] = Absent]
      /\ run' = [run EXCEPT !.deleted = @ \ {d}]
      /\ UNCHANGED <<snapshots, versionRows, processed, uncounted, caughtUp>>
  BY DEF HistoryInv, DeleteDocumentUrl
<1>1. /\ run'.step = run.step /\ run'.deleted = run.deleted \ {d} /\ run'.selected = run.selected
      /\ run' = [run EXCEPT !.step = run'.step, !.deleted = run'.deleted, !.selected = run'.selected]
  BY <1>0 DEF HistoryTypeInv
<1>2. /\ Basis' = Basis /\ Newest' = Newest /\ run'.history = run.history /\ run'.since = run.since
      /\ run' \in [step : {"idle", "clean", "validate", "failures", "publish"},
                 since : 0 .. Newest, baseline : BOOLEAN, history : SUBSET Addresses,
                 deleted : SUBSET Addresses, selected : SUBSET Addresses]
      /\ RunInv'
  BY <1>0, <1>1, WithinRun
<1>3. /\ listed' \in [Addresses -> ListedRow \cup {Absent}] /\ listed'[d] = Absent
      /\ \A a \in Addresses : a # d => listed'[a] = listed[a]
  BY <1>0 DEF HistoryTypeInv
<1>4. ~RecordedNow' /\ \A a \in Addresses : Advised(a)' => Advised(a) /\ listed'[a] = listed[a]
  BY <1>0, <1>1, <1>3 DEF RecordedNow, Advised
<1>5. HistoryTypeInv'
  BY <1>0, <1>2, <1>3 DEF HistoryTypeInv
<1>6. WorkInv'
  <2> SUFFICES ASSUME run.since # 0, NEW a \in Addresses, Advised(a)'
               PROVE  listed'[a].advisory = Tip(a) \/ a \in run'.selected \cup run'.deleted
    BY <1>0, <1>1, <1>2, SameHistory DEF WorkInv
  <2>1. a # d
    BY <1>3 DEF Advised
  <2> QED
    BY <1>0, <1>1, <1>4, <2>1 DEF WorkInv
<1>7. GoneInv'
  <2> SUFFICES ASSUME NEW a \in run.history, Tip(a) = Absent
               PROVE  a \in run'.deleted \/ listed'[a] = Absent
    BY <1>0, <1>1, <1>2, SameHistory DEF GoneInv
  <2>1. a \in Addresses
    BY <1>0 DEF HistoryTypeInv
  <2> QED
    BY <1>0, <1>1, <1>3, <2>1 DEF GoneInv
<1>8. TipInv'
  BY <1>0, <1>2, <1>4, TipKept
<1>9. RecordedInv'
  BY <1>0, <1>2, <1>4, RecordedKept
<1>10. CountInv'
  <2>1. \A a \in Addresses : listed'[a] # Absent => listed'[a] = listed[a]
    BY <1>3
  <2> QED
    BY <1>0, <1>2, <1>4, <2>1, CountKept
<1> QED
  BY <1>2, <1>5, <1>6, <1>7, <1>8, <1>9, <1>10 DEF HistoryInv

\* A row that comes anew has no count to keep.
LEMMA SaveDocumentKeeps ==
  ASSUME HistoryInv, NEW d \in Addresses, SaveDocument(d)
  PROVE  HistoryInv'
<1>0. /\ HistoryTypeInv /\ RunInv /\ TipInv /\ WorkInv /\ GoneInv /\ RecordedInv /\ CountInv
      /\ run.step \in {"clean", "validate"} /\ d \in run.selected
      /\ run.step = "clean" => ~run.baseline /\ run.deleted = {}
      /\ run' = [run EXCEPT !.selected = @ \ {d}, !.step = "validate"]
      /\ UNCHANGED <<snapshots, versionRows, processed, caughtUp>>
  BY DEF HistoryInv, SaveDocument
<1> DEFINE doc == Held(Newest)[d]
           replaced == {b \in Addresses \ {d} : listed[b] # Absent /\ listed[b].id = doc.id}
           count == IF listed[d] = Absent THEN FirstCount ELSE listed[d].count
<1>i. /\ listed' = [b \in Addresses |-> IF b = d THEN ListedAs(doc, count)
                                       ELSE IF b \in replaced THEN Absent ELSE listed[b]]
      /\ uncounted' = uncounted \cup {b \in {d} : listed[b] = Absent}
  BY DEF SaveDocument
<1>j. doc = Tip(d)
  BY DEF Tip
<1>k. count = IF listed[d] = Absent THEN FirstCount ELSE listed[d].count
  OBVIOUS
<1> HIDE DEF doc, count, replaced
<1>1. /\ doc = Tip(d)
      /\ count = IF listed[d] = Absent THEN FirstCount ELSE listed[d].count
      /\ listed' = [b \in Addresses |-> IF b = d THEN ListedAs(doc, count)
                                        ELSE IF b \in replaced THEN Absent ELSE listed[b]]
      /\ uncounted' = uncounted \cup {b \in {d} : listed[b] = Absent}
  BY <1>i, <1>j, <1>k
<1>2. /\ run'.step = "validate" /\ run'.deleted = run.deleted /\ run'.selected = run.selected \ {d}
      /\ run' = [run EXCEPT !.step = run'.step, !.deleted = run'.deleted, !.selected = run'.selected]
  BY <1>0 DEF HistoryTypeInv
<1>3. run.deleted = {}
  BY <1>0 DEF RunInv
<1>4. /\ Basis' = Basis /\ Newest' = Newest /\ run'.history = run.history /\ run'.since = run.since
      /\ run' \in [step : {"idle", "clean", "validate", "failures", "publish"},
                 since : 0 .. Newest, baseline : BOOLEAN, history : SUBSET Addresses,
                 deleted : SUBSET Addresses, selected : SUBSET Addresses]
      /\ RunInv'
  BY <1>0, <1>2, <1>3, WithinRun
<1>5. doc \in Advisories /\ doc # Absent
  <2>1. doc # Absent /\ Newest # 0 /\ Newest \in Nat
    BY <1>0, <1>1, LenProperties DEF RunInv, HistoryTypeInv, Newest
  <2>2. snapshots[Newest] \in Snapshot
    BY <1>0, <2>1, ElementOfSeq DEF HistoryTypeInv, Newest
  <2>3. doc = snapshots[Newest][d]
    BY <1>1, <2>1 DEF Tip, Held
  <2> QED
    BY <2>1, <2>2, <2>3 DEF Snapshot
<1>6. ListedAs(doc, count) \in ListedRow
  <2>1. count \in Nat
    BY <1>0, <1>1 DEF HistoryTypeInv, ListedRow, FirstCount
  <2>2. doc.id \in TrackingIds
    BY <1>5, VersionsAssumption
  <2> QED
    BY <1>5, <2>1, <2>2 DEF ListedAs, ListedRow
<1>7. /\ listed' \in [Addresses -> ListedRow \cup {Absent}]
      /\ listed'[d].advisory = Tip(d) /\ listed'[d].count = count
      /\ \A a \in Addresses : a # d => listed'[a] \in {Absent, listed[a]}
  <2>1. listed'[d] = ListedAs(doc, count)
    BY <1>1
  <2>2. ListedAs(doc, count).advisory = doc /\ ListedAs(doc, count).count = count
    BY DEF ListedAs
  <2>3. \A a \in Addresses : a # d => listed'[a] \in {Absent, listed[a]}
    BY <1>1
  <2>4. listed' \in [Addresses -> ListedRow \cup {Absent}]
    BY <1>0, <1>1, <1>6 DEF HistoryTypeInv
  <2> QED
    BY <1>1, <2>1, <2>2, <2>3, <2>4
<1>8. /\ ~RecordedNow' /\ ~RecordedNow
      /\ \A a \in Addresses : a # d /\ Advised(a)' => Advised(a) /\ listed'[a] = listed[a]
  BY <1>0, <1>2, <1>7 DEF RecordedNow, Advised
<1>9. HistoryTypeInv'
  <2>1. uncounted' \subseteq Addresses
    BY <1>0, <1>1 DEF HistoryTypeInv
  <2> QED
    BY <1>0, <1>4, <1>7, <2>1 DEF HistoryTypeInv
<1>10. WorkInv'
  <2> SUFFICES ASSUME NEW a \in Addresses, Advised(a)'
               PROVE  listed'[a].advisory = Tip(a) \/ a \in run'.selected \cup run'.deleted
    BY SameHistory, <1>0 DEF WorkInv
  <2>1. CASE a = d
    BY <1>7, <2>1
  <2>2. CASE a # d
    <3>1. run.step = "validate" \/ (run.step = "clean" /\ run.since # 0)
      BY <1>0 DEF RunInv
    <3> QED
      BY <1>0, <1>2, <1>8, <2>2, <3>1 DEF WorkInv
  <2> QED
    BY <2>1, <2>2
<1>11. GoneInv'
  <2> SUFFICES ASSUME NEW a \in run.history, Tip(a) = Absent
               PROVE  a \in run'.deleted \/ listed'[a] = Absent
    BY <1>0, <1>4, SameHistory DEF GoneInv
  <2>1. a \in Addresses /\ a # d
    BY <1>0, <1>1, <1>5 DEF HistoryTypeInv
  <2> QED
    BY <1>0, <1>2, <1>7, <2>1 DEF GoneInv
<1>12. TipInv'
  <2>1. \A a \in Addresses : Advised(a)' =>
          \/ listed'[a].advisory = Tip(a)
          \/ Advised(a) /\ listed'[a].advisory = listed[a].advisory
    BY <1>7, <1>8
  <2> QED
    BY <1>0, <1>4, <1>8, <2>1, TipKept
<1>13. RecordedInv'
  BY <1>0, <1>4, <1>8, RecordedKept
<1>14. CountInv'
  <2>1. ASSUME NEW a \in Addresses \ uncounted', listed'[a] # Absent
        PROVE  /\ listed[a] # Absent /\ listed'[a].count = listed[a].count
               /\ Advised(a)' => Advised(a) \/ Tip(a) # Absent
    <3>1. CASE a = d
      BY <1>1, <1>5, <1>7, <2>1, <3>1
    <3>2. CASE a # d
      BY <1>7, <1>8, <2>1, <3>2
    <3> QED
      BY <3>1, <3>2
  <2>2. uncounted \subseteq uncounted'
    BY <1>1
  <2> QED
    BY <1>0, <1>4, <1>8, <2>1, <2>2, CountKept
<1> QED
  BY <1>4, <1>9, <1>10, <1>11, <1>12, <1>13, <1>14 DEF HistoryInv

LEMMA SaveStubsKeeps == HistoryInv /\ SaveStubs => HistoryInv'
<1> SUFFICES ASSUME HistoryInv, SaveStubs PROVE HistoryInv'
  OBVIOUS
<1>0. /\ HistoryTypeInv /\ RunInv /\ TipInv /\ RecordedInv /\ CountInv
      /\ run.step = "failures" /\ run' = [run EXCEPT !.step = "publish"]
      /\ UNCHANGED <<snapshots, versionRows, processed, caughtUp>>
  BY DEF HistoryInv, SaveStubs
<1>1. PICK new \in SUBSET Addresses :
        /\ \A a \in new : listed[a] = Absent
        /\ listed' = [a \in Addresses |-> IF a \in new THEN StubRow(a) ELSE listed[a]]
        /\ uncounted' = uncounted \cup new
  BY DEF SaveStubs
<1>2. /\ run'.step = "publish" /\ run'.deleted = run.deleted /\ run'.selected = run.selected
      /\ run' = [run EXCEPT !.step = run'.step, !.deleted = run'.deleted, !.selected = run'.selected]
      /\ run'.deleted = {}
  BY <1>0 DEF HistoryTypeInv, RunInv
<1>3. /\ Basis' = Basis /\ Newest' = Newest
      /\ run' \in [step : {"idle", "clean", "validate", "failures", "publish"},
                 since : 0 .. Newest, baseline : BOOLEAN, history : SUBSET Addresses,
                 deleted : SUBSET Addresses, selected : SUBSET Addresses]
      /\ RunInv'
  BY <1>0, <1>2, WithinRun
<1>4. \A a \in Addresses : StubRow(a) \in ListedRow /\ StubRow(a).advisory = Absent
  <2>1. NameOf \in [Addresses -> TrackingIds]
    BY VersionsAssumption
  <2> QED
    BY <2>1 DEF StubRow, ListedRow, FirstCount
<1>5. \A a \in Addresses : IF a \in new THEN listed'[a] = StubRow(a) ELSE listed'[a] = listed[a]
  BY <1>1
<1>6. RecordedNow /\ RecordedNow' /\ \A a \in Addresses : Advised(a)' => Advised(a) /\ listed'[a] = listed[a]
  BY <1>0, <1>2, <1>4, <1>5 DEF RecordedNow, Advised
<1>7. HistoryTypeInv'
  <2>1. listed' \in [Addresses -> ListedRow \cup {Absent}]
    BY <1>0, <1>1, <1>4 DEF HistoryTypeInv
  <2>2. uncounted' \subseteq Addresses
    BY <1>0, <1>1 DEF HistoryTypeInv
  <2> QED
    BY <1>0, <1>3, <2>1, <2>2 DEF HistoryTypeInv
<1>8. WorkInv' /\ GoneInv'
  BY <1>2 DEF WorkInv, GoneInv
<1>9. TipInv'
  BY <1>0, <1>3, <1>6, TipKept
<1>10. RecordedInv'
  BY <1>0, <1>3, <1>6, RecordedKept
<1>11. CountInv'
  <2>1. \A a \in Addresses \ uncounted' : listed'[a] = listed[a]
    BY <1>1, <1>5
  <2>2. uncounted \subseteq uncounted'
    BY <1>1
  <2> QED
    BY <1>0, <1>3, <1>6, <2>1, <2>2, CountKept
<1> QED
  BY <1>3, <1>7, <1>8, <1>9, <1>10, <1>11 DEF HistoryInv

LEMMA PublishCheckpointKeeps == HistoryInv /\ PublishCheckpoint => HistoryInv'
<1> SUFFICES ASSUME HistoryInv, PublishCheckpoint PROVE HistoryInv'
  OBVIOUS
<1>0. /\ HistoryTypeInv /\ RunInv /\ TipInv /\ RecordedInv /\ CountInv
      /\ run.step = "publish" /\ processed' = Newest /\ run' = NoRun /\ caughtUp' = TRUE
      /\ UNCHANGED <<snapshots, listed, versionRows, uncounted>>
  BY DEF HistoryInv, PublishCheckpoint
<1>1. /\ Newest' = Newest /\ ~RecordedNow' /\ RecordedNow /\ Newest \in Nat
      /\ run'.step = "idle" /\ Basis' = Newest
  BY <1>0, SameHistory, LenProperties DEF RecordedNow, NoRun, Basis, HistoryTypeInv, Newest
<1>2. /\ \A a : Tip(a)' = Tip(a) /\ (Advised(a)' <=> Advised(a))
      /\ \A a, c : Scanned(a, c)' = Scanned(a, c)
  BY <1>0, SameHistory DEF Advised
<1>3. HistoryTypeInv'
  <2>1. run' \in [step : {"idle", "clean", "validate", "failures", "publish"},
              since : 0 .. Newest, baseline : BOOLEAN, history : SUBSET Addresses,
              deleted : SUBSET Addresses, selected : SUBSET Addresses]
    BY <1>0, <1>1 DEF NoRun
  <2>2. processed' \in 0 .. Newest /\ caughtUp' \in BOOLEAN
    BY <1>0, <1>1
  <2> QED
    BY <1>0, <1>1, <2>1, <2>2 DEF HistoryTypeInv
<1>4. RunInv' /\ WorkInv' /\ GoneInv'
  BY <1>0, <1>1 DEF RunInv, WorkInv, GoneInv
<1>5. TipInv'
  BY <1>0, <1>1, <1>2 DEF TipInv
<1>6. RecordedInv'
  <2> SUFFICES ASSUME NEW a \in Addresses
               PROVE  /\ Ascending(versionRows[a])
                      /\ ToSet(versionRows[a]) \subseteq Scanned(a, 0)
                      /\ versionRows[a] # <<>> =>
                           \A i \in Scanned(a, 0) :
                             IF i <= LastOf(versionRows[a])
                               THEN i > Newest /\ Newest # 0 => i \in ToSet(versionRows[a])
                               ELSE i > Newest
    BY <1>0, <1>1, <1>2 DEF RecordedInv, ToSet, LastOf, Ascending
  <2>1. \A i \in Scanned(a, 0) : ~(i > Newest)
    BY <1>1 DEF Scanned
  <2> QED
    BY <1>0, <1>1, <2>1 DEF RecordedInv
<1>7. CountInv'
  <2>1. \A a \in Addresses \ uncounted : listed[a] # Absent /\ versionRows[a] = <<>> =>
          ~Advised(a) /\ Tip(a) = Absent
    BY <1>0, <1>1 DEF CountInv
  <2> QED
    BY <1>0, <1>1, <1>2, <2>1 DEF CountInv
<1> QED
  BY <1>3, <1>4, <1>5, <1>6, <1>7 DEF HistoryInv

\* What a commit adds to the history.
LEMMA CommitAdds ==
  ASSUME HistoryTypeInv, CommitSnapshot
  PROVE  /\ Newest \in Nat /\ Newest' = Newest + 1 /\ snapshots' \in Seq(Snapshot)
         /\ \A i \in 0 .. Newest : Held(i)' = Held(i)
         /\ \A a \in Addresses, c \in 0 .. Newest :
              /\ RewrittenSince(c) \subseteq RewrittenSince(c)'
              /\ Tip(a)' = Tip(a) \/ a \in RewrittenSince(c)'
              /\ Scanned(a, c) \subseteq Scanned(a, c)'
              /\ Scanned(a, c)' \subseteq Scanned(a, c) \cup {Newest + 1}
<1>1. PICK x \in Addresses, v \in Advisories \cup {Absent} :
        snapshots' = Append(snapshots, [Held(Newest) EXCEPT ![x] = v])
  BY DEF CommitSnapshot
<1>2. PICK N \in Nat : N = Newest
  BY LenProperties DEF HistoryTypeInv, Newest
<1>3. Held(N) \in Snapshot
  BY <1>2, ElementOfSeq DEF Held, HistoryTypeInv, Newest, Nothing, Snapshot
<1>4. PICK t : t = [Held(N) EXCEPT ![x] = v]
  OBVIOUS
<1>5. t \in Snapshot
  BY <1>3, <1>4 DEF Snapshot
<1>6. /\ snapshots' \in Seq(Snapshot) /\ Len(snapshots') = N + 1
      /\ snapshots'[N + 1] = t /\ \A i \in 1 .. N : snapshots'[i] = snapshots[i]
  BY <1>1, <1>2, <1>4, <1>5, AppendProperties DEF HistoryTypeInv, Newest
<1>7. Newest' = N + 1
  BY <1>6 DEF Newest
<1>8. (\A i \in 0 .. N : Held(i)' = Held(i)) /\ Held(N + 1)' = t
  <2>1. \A i \in 0 .. N : i = 0 \/ i \in 1 .. N
    OBVIOUS
  <2>2. N + 1 # 0
    OBVIOUS
  <2> QED
    BY <1>6, <2>1, <2>2 DEF Held, Nothing
<1>9. ASSUME NEW a \in Addresses, NEW c \in 0 .. N
      PROVE  /\ \A b \in RewrittenSince(c) : b \in RewrittenSince(c)'
             /\ Tip(a)' = Tip(a) \/ a \in RewrittenSince(c)'
             /\ Scanned(a, c) \subseteq Scanned(a, c)'
             /\ Scanned(a, c)' \subseteq Scanned(a, c) \cup {N + 1}
  <2>1. \A i \in c + 1 .. N : i \in c + 1 .. N + 1 /\ i \in 0 .. N /\ i - 1 \in 0 .. N
    OBVIOUS
  <2>2. \A i \in c + 1 .. N + 1 : i \in c + 1 .. N \/ i = N + 1
    OBVIOUS
  <2>3. N + 1 \in c + 1 .. N + 1 /\ (N + 1) - 1 = N /\ N \in 0 .. N
    OBVIOUS
  <2>4. \A b : b \in RewrittenSince(c) =>
                 b \in Addresses /\ \E i \in c + 1 .. N : Held(i)[b] # Held(i - 1)[b]
    BY <1>2 DEF RewrittenSince
  <2>5. \A b \in Addresses : (\E i \in c + 1 .. N + 1 : Held(i)'[b] # Held(i - 1)'[b])
                                => b \in RewrittenSince(c)'
    BY <1>7 DEF RewrittenSince
  <2>6. \A b \in RewrittenSince(c) : b \in RewrittenSince(c)'
    BY <1>8, <2>1, <2>4, <2>5
  <2>7. Tip(a)' = Held(N + 1)'[a] /\ Tip(a) = Held(N)[a]
    BY <1>2, <1>7 DEF Tip
  <2>8. Tip(a)' = Tip(a) \/ a \in RewrittenSince(c)'
    <3>1. ASSUME Tip(a)' # Tip(a) PROVE Held(N + 1)'[a] # Held((N + 1) - 1)'[a]
      BY <1>8, <2>3, <2>7, <3>1
    <3> QED
      BY <2>3, <2>5, <3>1
  <2>9. \A i : i \in Scanned(a, c) <=> i \in c + 1 .. N /\ Held(i)[a] \notin {Absent, Held(i - 1)[a]}
    BY <1>2 DEF Scanned
  <2>10. \A i : i \in Scanned(a, c)' <=> i \in c + 1 .. N + 1 /\ Held(i)'[a] \notin {Absent, Held(i - 1)'[a]}
    BY <1>7 DEF Scanned
  <2>11. \A i \in c + 1 .. N : i \in Scanned(a, c) <=> i \in Scanned(a, c)'
    BY <1>8, <2>1, <2>9, <2>10
  <2> QED
    BY <2>2, <2>6, <2>8, <2>9, <2>10, <2>11
<1> QED
  BY <1>2, <1>6, <1>7, <1>8, <1>9

LEMMA CommitSnapshotKeeps == HistoryInv /\ CommitSnapshot => HistoryInv'
<1> SUFFICES ASSUME HistoryInv, CommitSnapshot PROVE HistoryInv'
  OBVIOUS
<1>0. /\ HistoryTypeInv /\ RunInv /\ TipInv /\ RecordedInv /\ CountInv
      /\ run.step = "idle" /\ Newest < MaxSnapshots
      /\ UNCHANGED <<listed, versionRows, processed, run, uncounted, caughtUp>>
  BY DEF HistoryInv, CommitSnapshot
<1>1. /\ Newest \in Nat /\ Newest' = Newest + 1 /\ snapshots' \in Seq(Snapshot)
      /\ \A a \in Addresses, c \in 0 .. Newest :
              /\ RewrittenSince(c) \subseteq RewrittenSince(c)'
              /\ Tip(a)' = Tip(a) \/ a \in RewrittenSince(c)'
              /\ Scanned(a, c) \subseteq Scanned(a, c)'
              /\ Scanned(a, c)' \subseteq Scanned(a, c) \cup {Newest + 1}
  BY <1>0, CommitAdds
<1>2. /\ Basis = processed /\ Basis' = processed /\ processed \in 0 .. Newest
      /\ ~RecordedNow /\ ~RecordedNow'
      /\ \A a : Advised(a)' <=> Advised(a)
  BY <1>0 DEF Basis, RecordedNow, Advised, HistoryTypeInv
<1>3. \A a \in Addresses : Pending(a) => Pending(a)'
  <2>1. \A c : c = processed => RewrittenSince(c)' = RewrittenSince(processed)'
    BY <1>0 DEF RewrittenSince
  <2>2. \A a : Pending(a)' <=> processed = 0 \/ a \in RewrittenSince(processed)'
    BY <1>0, <1>2 DEF Pending, RewrittenSince, Basis
  <2> QED
    BY <1>1, <1>2, <2>1, <2>2 DEF Pending
<1>4. \A a \in Addresses : Tip(a)' = Tip(a) \/ Pending(a)'
  <2>1. \A a : Pending(a)' <=> processed = 0 \/ a \in RewrittenSince(processed)'
    BY <1>0, <1>2 DEF Pending, RewrittenSince, Basis
  <2>2. \A c : c = processed => RewrittenSince(c)' = RewrittenSince(processed)'
    BY <1>0 DEF RewrittenSince
  <2> QED
    BY <1>1, <1>2, <2>1, <2>2
<1>5. HistoryTypeInv'
  <2>1. Newest + 1 <= MaxSnapshots
    BY <1>0, <1>1, VersionsAssumption
  <2>2. 0 .. Newest \subseteq 0 .. Newest + 1
    BY <1>1
  <2>3. processed \in 0 .. Newest + 1
    BY <1>2, <2>2
  <2>4. run \in [step : {"idle", "clean", "validate", "failures", "publish"},
              since : 0 .. Newest + 1, baseline : BOOLEAN, history : SUBSET Addresses,
              deleted : SUBSET Addresses, selected : SUBSET Addresses]
    <3>1. run \in [step : {"idle", "clean", "validate", "failures", "publish"},
              since : 0 .. Newest, baseline : BOOLEAN, history : SUBSET Addresses,
              deleted : SUBSET Addresses, selected : SUBSET Addresses]
      BY <1>0 DEF HistoryTypeInv
    <3> QED
      BY <2>2, <3>1
  <2> QED
    BY <1>0, <1>1, <2>1, <2>3, <2>4 DEF HistoryTypeInv
<1>6. RunInv' /\ WorkInv' /\ GoneInv'
  BY <1>0, <1>1 DEF RunInv, WorkInv, GoneInv
<1>7. TipInv'
  BY <1>0, <1>2, <1>3, <1>4 DEF TipInv
<1>8. RecordedInv'
  <2> SUFFICES ASSUME NEW a \in Addresses
               PROVE  /\ Ascending(versionRows[a])
                      /\ ToSet(versionRows[a]) \subseteq Scanned(a, 0)'
                      /\ versionRows[a] # <<>> =>
                           \A i \in Scanned(a, 0)' :
                             IF i <= LastOf(versionRows[a])
                               THEN i > processed /\ processed # 0 => i \in ToSet(versionRows[a])
                               ELSE i > processed
    BY <1>0, <1>2 DEF RecordedInv, ToSet, LastOf, Ascending
  <2>1. Scanned(a, 0) \subseteq Scanned(a, 0)' /\ Scanned(a, 0)' \subseteq Scanned(a, 0) \cup {Newest + 1}
    BY <1>1
  <2>2. versionRows[a] # <<>> => LastOf(versionRows[a]) \in Scanned(a, 0)
    BY <1>0, LastIsGreatest DEF RecordedInv, HistoryTypeInv
  <2>3. \A i \in Scanned(a, 0) : i \in Nat /\ i <= Newest
    BY <1>1 DEF Scanned
  <2>4. versionRows[a] # <<>> => ~(Newest + 1 <= LastOf(versionRows[a])) /\ Newest + 1 > processed
    BY <1>1, <1>2, <2>2, <2>3
  <2> QED
    BY <1>0, <1>2, <2>1, <2>4 DEF RecordedInv
<1>9. CountInv'
  <2> SUFFICES ASSUME NEW a \in Addresses \ uncounted, listed[a] # Absent
               PROVE  IF versionRows[a] # <<>> THEN listed[a].count = Len(versionRows[a])
                      ELSE \/ versionRows = Unrecorded /\ ~caughtUp /\ ~RecordedNow'
                           \/ Pending(a)' /\ ~RecordedNow'
                           \/ ~Advised(a)' /\ Tip(a)' = Absent
    BY <1>0 DEF CountInv, Unrecorded
  <2> QED
    BY <1>0, <1>2, <1>3, <1>4 DEF CountInv
<1> QED
  BY <1>5, <1>6, <1>7, <1>8, <1>9 DEF HistoryInv


\* What a pass records: from scratch or not, after which commit, and what was
\* recorded before.
Anew == run.baseline \/ VersionsMissing
From == IF Anew THEN 0 ELSE run.since
Kept == IF Anew THEN Unrecorded ELSE versionRows

\* Rows, versions and counts after recording, whether or not there was anything
\* to record.
LEMMA RecordHistoryDoes ==
  ASSUME HistoryInv, RecordHistory
  PROVE  /\ Anew \in BOOLEAN /\ From \in 0 .. Newest
         /\ versionRows' = [a \in Addresses |-> RecordedAfter(a, Kept, From)]
         /\ \A a \in Addresses :
              /\ listed'[a] # Absent =>
                   /\ listed[a] # Absent /\ listed'[a].advisory = listed[a].advisory
                   /\ IF (Anew \/ Scanned(a, From) # {}) /\ versionRows'[a] # <<>>
                        THEN listed'[a].count = Len(versionRows'[a])
                        ELSE listed'[a].count = listed[a].count
              /\ listed[a] # Absent /\ (Anew \/ a \in run.history) => a \notin uncounted'
              /\ a \notin uncounted' =>
                   a \notin uncounted \/ (listed[a] # Absent /\ (Anew \/ a \in run.history))
         /\ \A a \in Addresses :
              /\ Kept[a] \in Seq(Nat) /\ Ascending(Kept[a])
              /\ ToSet(Kept[a]) \subseteq Scanned(a, 0)
              /\ Kept[a] # <<>> =>
                   \A i \in Scanned(a, From) : i <= LastOf(Kept[a]) => i \in ToSet(Kept[a])
         /\ listed' \in [Addresses -> ListedRow \cup {Absent}]
         /\ versionRows' \in [Addresses -> Seq(Nat)]
         /\ uncounted' \subseteq uncounted
<1> DEFINE touched == {a \in Addresses : Anew \/ Scanned(a, From) # {}}
<1>1. /\ HistoryTypeInv /\ RunInv /\ RecordedInv /\ run.step \in {"clean", "validate"}
  BY DEF HistoryInv, RecordHistory
<1>2. /\ IF Anew \/ run.history # {}
         THEN /\ versionRows' = [a \in Addresses |-> RecordedAfter(a, Kept, From)]
              /\ listed' = [a \in Addresses |-> IF a \in touched THEN Recounted(listed, versionRows', a)
                                                ELSE listed[a]]
              /\ uncounted' = uncounted \ {a \in Addresses :
                                      listed[a] # Absent /\ (Anew \/ a \in run.history)}
         ELSE UNCHANGED <<versionRows, listed, uncounted>>
  BY DEF RecordHistory, Anew, From, Kept
<1>3. /\ Newest \in Nat /\ Anew \in BOOLEAN /\ From \in 0 .. Newest
      /\ ~Anew => run.since # 0 /\ run.history = RewrittenSince(From)
  <2>1. Newest \in Nat
    BY <1>1, LenProperties DEF HistoryTypeInv, Newest
  <2>2. run.since \in 0 .. Newest /\ run.baseline \in BOOLEAN
    BY <1>1 DEF HistoryTypeInv
  <2>3. /\ run.baseline = (run.since = 0)
        /\ run.history = IF run.since = 0 THEN {} ELSE RewrittenSince(run.since)
    BY <1>1 DEF RunInv
  <2>4. Anew \in BOOLEAN
    BY <2>2 DEF Anew, VersionsMissing
  <2>5. CASE Anew
    BY <2>1, <2>4, <2>5 DEF From
  <2>6. CASE ~Anew
    <3>1. ~run.baseline
      BY <2>6 DEF Anew
    <3>2. run.since # 0
      BY <2>3, <3>1
    <3>3. From = run.since
      BY <2>6 DEF From
    <3> QED
      BY <2>1, <2>2, <2>3, <2>4, <3>2, <3>3
  <2> QED
    BY <2>5, <2>6
<1>4. ASSUME NEW a \in Addresses
      PROVE  /\ Kept[a] \in Seq(Nat) /\ Ascending(Kept[a])
             /\ ToSet(Kept[a]) \subseteq Scanned(a, 0)
             /\ Kept[a] # <<>> =>
                  \A i \in Scanned(a, From) : i <= LastOf(Kept[a]) => i \in ToSet(Kept[a])
  <2>1. CASE Anew
    <3>1. Kept[a] = <<>>
      BY <2>1 DEF Unrecorded, Kept
    <3>2. <<>> \in Seq(Nat) /\ Ascending(<<>>) /\ ToSet(<<>>) = {}
      BY DEF Ascending, ToSet
    <3> QED
      BY <3>1, <3>2
  <2>2. CASE ~Anew
    <3>1. Kept[a] = versionRows[a] /\ From = run.since /\ Basis = run.since /\ From # 0
      BY <1>1, <1>3, <2>2 DEF Basis, Kept, From
    <3>2. \A i \in Scanned(a, From) : i \in Scanned(a, 0) /\ i > From
      BY <1>3 DEF Scanned
    <3>3. versionRows[a] \in Seq(Nat)
      BY <1>1 DEF HistoryTypeInv
    <3>4. versionRows[a] # <<>> =>
            \A i \in Scanned(a, 0) : i <= LastOf(versionRows[a]) =>
              (i > Basis /\ Basis # 0 => i \in ToSet(versionRows[a]))
      BY <1>1 DEF RecordedInv
    <3>5. versionRows[a] # <<>> =>
            \A i \in Scanned(a, From) : i <= LastOf(versionRows[a]) => i \in ToSet(versionRows[a])
      BY <3>1, <3>2, <3>4
    <3>6. Ascending(versionRows[a]) /\ ToSet(versionRows[a]) \subseteq Scanned(a, 0)
      BY <1>1 DEF RecordedInv
    <3> QED
      BY <3>1, <3>3, <3>5, <3>6
  <2> QED
    BY <2>1, <2>2
<1>5. \A a \in Addresses : Scanned(a, From) \subseteq {i \in From + 1 .. Newest : a \in RewrittenSince(From)}
  BY DEF Scanned, RewrittenSince
<1>6. \A a \in Addresses : /\ RecordedAfter(a, Kept, From) \in Seq(Nat)
                           /\ Scanned(a, From) = {} => RecordedAfter(a, Kept, From) = Kept[a]
  BY <1>1, <1>3, <1>4, RecordedAfterOf DEF HistoryTypeInv
<1>7. CASE ~Anew /\ run.history = {}
  <2>1. UNCHANGED <<versionRows, listed, uncounted>>
    BY <1>2, <1>7
  <2>2. \A a \in Addresses : Scanned(a, From) = {}
    BY <1>3, <1>5, <1>7
  <2>3. Kept = versionRows
    BY <1>7 DEF Kept
  <2>4. versionRows \in [Addresses -> Seq(Nat)] /\ listed \in [Addresses -> ListedRow \cup {Absent}]
    BY <1>1 DEF HistoryTypeInv
  <2>5. versionRows' = [a \in Addresses |-> RecordedAfter(a, Kept, From)]
    BY <1>6, <2>1, <2>2, <2>3, <2>4
  <2> QED
    BY <1>3, <1>4, <1>7, <2>1, <2>2, <2>4, <2>5
<1>8. CASE Anew \/ run.history # {}
  <2>1. /\ versionRows' = [a \in Addresses |-> RecordedAfter(a, Kept, From)]
        /\ listed' = [a \in Addresses |-> IF a \in touched THEN Recounted(listed, versionRows', a)
                                          ELSE listed[a]]
        /\ uncounted' = uncounted \ {a \in Addresses :
                                      listed[a] # Absent /\ (Anew \/ a \in run.history)}
    BY <1>2, <1>8
  <2>2. versionRows' \in [Addresses -> Seq(Nat)]
    BY <1>6, <2>1
  <2>3. PICK w : w = versionRows'
    OBVIOUS
  <2>4. \A a \in Addresses : w[a] \in Seq(Nat) /\ Len(w[a]) \in Nat
    BY <2>2, <2>3, LenProperties
  <2>5. ASSUME NEW a \in Addresses, listed[a] # Absent
        PROVE  /\ Recounted(listed, w, a) \in ListedRow
               /\ Recounted(listed, w, a).advisory = listed[a].advisory
               /\ Recounted(listed, w, a).count = IF w[a] # <<>> THEN Len(w[a]) ELSE listed[a].count
    <3>1. listed[a] \in ListedRow
      BY <1>1, <2>5 DEF HistoryTypeInv
    <3>2. Recounted(listed, w, a) = IF w[a] = <<>> THEN listed[a] ELSE [listed[a] EXCEPT !.count = Len(w[a])]
      BY <2>5 DEF Recounted
    <3> QED
      BY <2>4, <3>1, <3>2 DEF ListedRow
  <2>6. \A a \in Addresses : listed[a] = Absent => Recounted(listed, w, a) = Absent
    BY DEF Recounted
  <2>7. \A a \in Addresses : listed'[a] = IF Anew \/ Scanned(a, From) # {} THEN Recounted(listed, w, a) ELSE listed[a]
    BY <2>1, <2>3
  <2>8. \A a \in Addresses : listed[a] \in ListedRow \cup {Absent}
    BY <1>1 DEF HistoryTypeInv
  <2>9. ASSUME NEW a \in Addresses
        PROVE  /\ listed'[a] \in ListedRow \cup {Absent}
               /\ listed'[a] # Absent =>
                    /\ listed[a] # Absent /\ listed'[a].advisory = listed[a].advisory
                    /\ IF (Anew \/ Scanned(a, From) # {}) /\ w[a] # <<>>
                         THEN listed'[a].count = Len(w[a])
                         ELSE listed'[a].count = listed[a].count
    BY <2>5, <2>6, <2>7, <2>8
  <2>10. listed' \in [Addresses -> ListedRow \cup {Absent}]
    BY <2>1, <2>9
  <2>11. /\ uncounted' \subseteq uncounted
         /\ \A a \in Addresses :
              /\ listed[a] # Absent /\ (Anew \/ a \in run.history) => a \notin uncounted'
              /\ a \notin uncounted' =>
                     a \notin uncounted \/ (listed[a] # Absent /\ (Anew \/ a \in run.history))
    BY <2>1
  <2> QED
    BY <1>3, <1>4, <2>1, <2>2, <2>3, <2>9, <2>10, <2>11
<1> QED
  BY <1>7, <1>8

LEMMA RecordHistoryKeeps == HistoryInv /\ RecordHistory => HistoryInv'
<1> SUFFICES ASSUME HistoryInv, RecordHistory PROVE HistoryInv'
  OBVIOUS
<1>1. /\ HistoryTypeInv /\ RunInv /\ TipInv /\ WorkInv /\ GoneInv /\ RecordedInv /\ CountInv
      /\ run.step \in {"clean", "validate"} /\ run.selected = {}
      /\ run.step = "clean" => ~run.baseline /\ run.deleted = {}
      /\ run' = [run EXCEPT !.step = "failures"] /\ UNCHANGED <<snapshots, processed, caughtUp>>
  BY DEF HistoryInv, RecordHistory
<1>2. run.deleted = {} /\ (run.step = "clean" => run.since # 0)
  BY <1>1 DEF RunInv
<1>3. run'.step = "failures" /\ run'.deleted = {} /\ run'.selected = {}
  BY <1>1, <1>2 DEF HistoryTypeInv
<1>4. /\ Basis' = Basis /\ Newest' = Newest /\ RunInv'
      /\ run' \in [step : {"idle", "clean", "validate", "failures", "publish"},
                 since : 0 .. Newest, baseline : BOOLEAN, history : SUBSET Addresses,
                 deleted : SUBSET Addresses, selected : SUBSET Addresses]
  <2>1. run' = [run EXCEPT !.step = run'.step, !.deleted = run'.deleted, !.selected = run'.selected]
    BY <1>1, <1>2, <1>3 DEF HistoryTypeInv
  <2>2. run.step # "idle" /\ run'.step # "idle"
    BY <1>1, <1>3
  <2> QED
    BY <1>1, <1>2, <1>3, <2>1, <2>2, WithinRun
<1>5. Newest \in Nat /\ snapshots \in Seq(Snapshot) /\ Basis = run.since
  BY <1>1, LenProperties DEF HistoryTypeInv, Newest, Basis
<1>6. /\ \A a : Tip(a)' = Tip(a)
      /\ \A a, c : Scanned(a, c)' = Scanned(a, c)
  BY <1>1, SameHistory
<1>7. \A a \in Addresses : Advised(a) => listed[a].advisory = Tip(a)
  BY <1>1, <1>2 DEF WorkInv
<1>8. /\ Anew \in BOOLEAN /\ From \in 0 .. Newest
      /\ versionRows' = [a \in Addresses |-> RecordedAfter(a, Kept, From)]
      /\ listed' \in [Addresses -> ListedRow \cup {Absent}]
      /\ versionRows' \in [Addresses -> Seq(Nat)]
      /\ uncounted' \subseteq uncounted
  BY RecordHistoryDoes
<1>9. \A a \in Addresses :
        /\ listed'[a] # Absent =>
             /\ listed[a] # Absent /\ listed'[a].advisory = listed[a].advisory
             /\ IF (Anew \/ Scanned(a, From) # {}) /\ versionRows'[a] # <<>>
                  THEN listed'[a].count = Len(versionRows'[a])
                  ELSE listed'[a].count = listed[a].count
        /\ a \notin uncounted' =>
             a \notin uncounted \/ (listed[a] # Absent /\ (Anew \/ a \in run.history))
  BY RecordHistoryDoes
<1>10. \A a \in Addresses :
         /\ versionRows'[a] \in Seq(Nat) /\ Ascending(versionRows'[a])
         /\ ToSet(versionRows'[a]) = ToSet(Kept[a]) \cup Scanned(a, From)
         /\ ToSet(Kept[a]) \subseteq Scanned(a, 0)
         /\ Scanned(a, From) = {} => versionRows'[a] = Kept[a]
  <2> SUFFICES ASSUME NEW a \in Addresses
               PROVE  /\ versionRows'[a] \in Seq(Nat) /\ Ascending(versionRows'[a])
                      /\ ToSet(versionRows'[a]) = ToSet(Kept[a]) \cup Scanned(a, From)
                      /\ ToSet(Kept[a]) \subseteq Scanned(a, 0)
                      /\ Scanned(a, From) = {} => versionRows'[a] = Kept[a]
    OBVIOUS
  <2>1. PICK c, kept : c = From /\ kept = Kept
    OBVIOUS
  <2>2. /\ kept[a] \in Seq(Nat) /\ Ascending(kept[a])
        /\ kept[a] # <<>> =>
             \A i \in Scanned(a, c) : i <= LastOf(kept[a]) => i \in ToSet(kept[a])
    BY <2>1, RecordHistoryDoes
  <2>3. ToSet(Kept[a]) \subseteq Scanned(a, 0)
    BY RecordHistoryDoes
  <2>4. /\ RecordedAfter(a, kept, c) \in Seq(Nat)
        /\ Ascending(RecordedAfter(a, kept, c))
        /\ ToSet(RecordedAfter(a, kept, c)) = ToSet(kept[a]) \cup Scanned(a, c)
        /\ Scanned(a, c) = {} => RecordedAfter(a, kept, c) = kept[a]
    BY <1>5, <1>8, <2>1, <2>2, RecordedAfterOf
  <2>5. versionRows'[a] = RecordedAfter(a, kept, c)
    BY <1>8, <2>1
  <2> QED
    BY <2>1, <2>3, <2>4, <2>5
<1>11. /\ ~Anew => /\ run.since # 0 /\ From = run.since /\ Kept = versionRows
                   /\ run.history = RewrittenSince(run.since)
                   /\ ~(versionRows = Unrecorded /\ listed # Nothing)
       /\ Anew => From = 0
  <2>1. ~run.baseline => run.since # 0 /\ run.history = RewrittenSince(run.since)
    BY <1>1 DEF RunInv
  <2> QED
    BY <2>1 DEF Anew, From, Kept, VersionsMissing
\* What changed the address and left it there is among what was scanned.
<1>12. ASSUME NEW a \in Addresses, Tip(a) # Absent, Anew \/ a \in run.history
       PROVE  Scanned(a, From) # {}
  <2>1. a \in RewrittenSince(From)
    BY <1>5, <1>11, <1>12, TipAdded
  <2>2. PICK c : c = From
    OBVIOUS
  <2> QED
    BY <1>5, <1>8, <1>12, <2>1, <2>2, TipScanned
<1>13. ASSUME NEW a \in Addresses, ~Anew, a \in run.history, listed[a] # Absent
       PROVE  Tip(a) # Absent
  BY <1>1, <1>2, <1>13 DEF GoneInv
<1>14. HistoryTypeInv'
  BY <1>1, <1>4, <1>8 DEF HistoryTypeInv, Snapshot
<1>15. TipInv' /\ WorkInv' /\ GoneInv'
  <2>1. \A a \in Addresses : Advised(a)' => listed'[a].advisory = Tip(a)
    BY <1>7, <1>9 DEF Advised
  <2> QED
    BY <1>3, <1>6, <2>1 DEF TipInv, WorkInv, GoneInv
<1>16. RecordedInv'
  <2> SUFFICES ASSUME NEW a \in Addresses
               PROVE  /\ Ascending(versionRows'[a])
                      /\ ToSet(versionRows'[a]) \subseteq Scanned(a, 0)
                      /\ versionRows'[a] # <<>> =>
                           \A i \in Scanned(a, 0) :
                             /\ i <= LastOf(versionRows'[a])
                             /\ i > run.since /\ run.since # 0 => i \in ToSet(versionRows'[a])
    BY <1>4, <1>5, <1>6 DEF RecordedInv, ToSet, LastOf, Ascending
  <2>1. Ascending(versionRows'[a])
    BY <1>10
  <2>2. \A c \in 0 .. Newest :
          Scanned(a, c) \subseteq Scanned(a, 0) /\ \A i \in Scanned(a, 0) : i > c => i \in Scanned(a, c)
    BY <1>5 DEF Scanned
  <2>3. \A i \in Scanned(a, 0) : i \in Nat
    BY <1>5 DEF Scanned
  <2>4. ToSet(versionRows'[a]) \subseteq Scanned(a, 0)
    BY <1>8, <1>10, <2>2
  <2>5. ASSUME versionRows'[a] # <<>>, NEW i \in Scanned(a, 0)
        PROVE  /\ i <= LastOf(versionRows'[a])
               /\ i > run.since /\ run.since # 0 => i \in ToSet(versionRows'[a])
    <3>1. PICK v : v = versionRows'[a]
      OBVIOUS
    <3>2. \A x \in ToSet(v) : x <= LastOf(v)
      BY <1>10, <2>5, <3>1, LastIsGreatest
    <3>3. LastOf(v) \in Nat
      BY <1>10, <2>3, <2>4, <2>5, <3>1, LastIsGreatest
    <3>4. CASE Anew
      <4>1. i \in ToSet(v)
        BY <1>10, <1>11, <3>1, <3>4
      <4> QED
        BY <3>1, <3>2, <4>1
    <3>5. CASE ~Anew
      <4>1. From = run.since /\ run.since \in 0 .. Newest
        BY <1>8, <1>11, <3>5
      <4>2. i > run.since => i \in ToSet(v)
        BY <1>10, <2>2, <3>1, <4>1
      <4>3. CASE i > run.since
        BY <3>1, <3>2, <4>2, <4>3
      <4>4. CASE ~(i > run.since) /\ Scanned(a, From) # {}
        <5>1. PICK j \in Scanned(a, From) : TRUE
          BY <4>4
        <5>2. j \in Nat /\ j > run.since /\ j <= LastOf(v)
          <6>1. j \in From + 1 .. Newest
            BY <5>1 DEF Scanned
          <6>2. j \in ToSet(v)
            BY <1>10, <3>1, <5>1
          <6> QED
            BY <1>5, <3>2, <4>1, <6>1, <6>2
        <5>3. i \in Nat /\ run.since \in Nat
          BY <2>3, <4>1
        <5>4. i <= LastOf(v)
          BY <3>3, <4>4, <5>2, <5>3
        <5> QED
          BY <3>1, <4>4, <5>4
      <4>5. CASE ~(i > run.since) /\ Scanned(a, From) = {}
        <5>1. v = versionRows[a]
          BY <1>10, <1>11, <3>1, <3>5, <4>5
        <5>2. i <= LastOf(versionRows[a])
          BY <1>1, <1>5, <2>5, <3>1, <4>5, <5>1 DEF RecordedInv
        <5> QED
          BY <3>1, <4>5, <5>1, <5>2
      <4> QED
        BY <4>3, <4>4, <4>5
    <3> QED
      BY <3>4, <3>5
  <2> QED
    BY <2>1, <2>4, <2>5
<1>17. CountInv'
  <2> SUFFICES ASSUME NEW a \in Addresses, a \notin uncounted', listed'[a] # Absent
               PROVE  IF versionRows'[a] # <<>> THEN listed'[a].count = Len(versionRows'[a])
                      ELSE ~Advised(a)' /\ Tip(a) = Absent
    BY <1>6 DEF CountInv
  <2>1. listed[a] # Absent /\ listed'[a].advisory = listed[a].advisory /\ (Advised(a)' <=> Advised(a))
    BY <1>9 DEF Advised
  <2>2. Advised(a) => Tip(a) # Absent
    BY <1>7 DEF Advised
  <2>3. CASE Anew
    <3>1. versionRows'[a] # <<>> => listed'[a].count = Len(versionRows'[a])
      BY <1>9, <2>3
    <3>2. versionRows'[a] = <<>> => Tip(a) = Absent
      <4>1. ToSet(<<>>) = {}
        BY DEF ToSet
      <4> QED
        BY <1>10, <1>12, <2>3, <4>1
    <3> QED
      BY <2>1, <2>2, <3>1, <3>2
  <2>4. CASE ~Anew /\ Scanned(a, From) # {}
    <3>1. versionRows'[a] # <<>>
      <4>1. ToSet(<<>>) = {}
        BY DEF ToSet
      <4> QED
        BY <1>10, <2>4, <4>1
    <3> QED
      BY <1>9, <2>4, <3>1
  <2>5. CASE ~Anew /\ Scanned(a, From) = {}
    <3>1. a \notin run.history
      BY <1>12, <1>13, <2>1, <2>5
    <3>2. a \notin uncounted
      BY <1>9, <2>5, <3>1
    <3>3. versionRows'[a] = versionRows[a] /\ listed'[a].count = listed[a].count
      BY <1>9, <1>10, <1>11, <2>5
    <3>4. ~Pending(a) /\ versionRows # Unrecorded
      <4>1. Nothing[a] = Absent
        BY DEF Nothing
      <4>2. listed # Nothing
        BY <2>1, <4>1
      <4> QED
        BY <1>5, <1>11, <2>5, <3>1, <4>2 DEF Pending
    <3>5. IF versionRows[a] # <<>> THEN listed[a].count = Len(versionRows[a])
          ELSE ~Advised(a) /\ Tip(a) = Absent
      BY <1>1, <2>1, <3>2, <3>4 DEF CountInv
    <3> QED
      BY <2>1, <3>3, <3>5
  <2> QED
    BY <2>3, <2>4, <2>5
<1> QED
  BY <1>4, <1>14, <1>15, <1>16, <1>17 DEF HistoryInv

\* HistoryInv holds of every behaviour of the specification.
LEMMA HistoryAlways == VersionsSpec => []HistoryInv
<1>1. HistoryInv /\ [VersionsNext]_versionVars => HistoryInv'
  <2> SUFFICES ASSUME HistoryInv, [VersionsNext]_versionVars PROVE HistoryInv'
    OBVIOUS
  <2>1. CASE CommitSnapshot
    BY <2>1, CommitSnapshotKeeps
  <2>2. CASE BeginRun
    BY <2>2, BeginRunKeeps
  <2>3. CASE DeleteAllDocuments
    BY <2>3, DeleteAllDocumentsKeeps
  <2>4. CASE \E a \in Addresses : DeleteDocumentUrl(a)
    BY <2>4, DeleteDocumentUrlKeeps
  <2>5. CASE \E a \in Addresses : SaveDocument(a)
    BY <2>5, SaveDocumentKeeps
  <2>6. CASE RecordHistory
    BY <2>6, RecordHistoryKeeps
  <2>7. CASE SaveStubs
    BY <2>7, SaveStubsKeeps
  <2>8. CASE PublishCheckpoint
    BY <2>8, PublishCheckpointKeeps
  <2>9. CASE AbandonRun
    BY <2>9, AbandonRunKeeps
  <2>10. CASE UNCHANGED versionVars
    BY <2>10 DEF versionVars, HistoryInv, HistoryTypeInv, RunInv, TipInv, WorkInv, GoneInv,
                 RecordedInv, CountInv, Basis, Pending, Tip, Advised, RecordedNow, Newest, Held,
                 Scanned, RewrittenSince
  <2> QED
    BY <2>1, <2>2, <2>3, <2>4, <2>5, <2>6, <2>7, <2>8, <2>9, <2>10 DEF VersionsNext
<1> QED
  BY HistoryInitially, <1>1, PTL DEF VersionsSpec

LEMMA HistoryGivesTypes == HistoryInv => VersionsTypeOK
<1> SUFFICES ASSUME HistoryInv PROVE VersionsTypeOK
  OBVIOUS
<1>1. HistoryTypeInv /\ RecordedInv
  BY DEF HistoryInv
<1>2. ASSUME NEW a \in Addresses
      PROVE  versionRows[a] \in Seq(1 .. Newest)
  <2>1. versionRows[a] \in Seq(Nat)
    BY <1>1 DEF HistoryTypeInv
  <2>2. ToSet(versionRows[a]) \subseteq 1 .. Newest
    BY <1>1 DEF RecordedInv, Scanned
  <2>3. PICK v, S : v = versionRows[a] /\ S = 1 .. Newest
    OBVIOUS
  <2> QED
    BY <2>1, <2>2, <2>3, SeqWithin
<1> QED
  BY <1>1, <1>2 DEF HistoryTypeInv, VersionsTypeOK, ListedRow

\* The first version of the first page is the one recorded last.
LEMMA FirstOfPage ==
  ASSUME NEW a, versionRows[a] \in Seq(Nat), versionRows[a] # <<>>
  PROVE  /\ VersionPage(a, 0, 1).total = Len(versionRows[a])
         /\ 1 \in DOMAIN VersionPage(a, 0, 1).items
         /\ VersionPage(a, 0, 1).items[1].isLatest
         /\ VersionPage(a, 0, 1).items[1].commit = LastOf(versionRows[a])
<1>1. PICK v : v = versionRows[a]
  OBVIOUS
<1>2. v \in Seq(Nat) /\ Len(v) \in Nat /\ Len(v) # 0
  BY <1>1, LenProperties, EmptySeq
<1> DEFINE back == [n \in 1 .. Len(v) |-> v[(Len(v) - n) + 1]]
           shown == SubSeq(back, 1, 1)
<1>3. \A n \in 1 .. Len(v) : v[(Len(v) - n) + 1] \in Nat
  BY <1>2, ElementOfSeq
<1>4. back \in Seq(Nat) /\ Len(back) = Len(v)
  BY <1>2, <1>3, IsASeq
<1>5. back[1] = v[Len(v)]
  BY <1>2
<1> HIDE DEF back
<1>6. shown \in Seq(Nat) /\ Len(shown) = 1 /\ shown[1] = back[1]
  BY <1>2, <1>4, SubSeqProperties
<1>7. 1 \in DOMAIN shown
  BY <1>6, LenProperties
<1>8. (IF 0 + 1 < Len(v) THEN 0 + 1 ELSE Len(v)) = 1
  BY <1>2
<1>9. Reverse(versionRows[a]) = back
  BY <1>1 DEF Reverse, back
<1>10. SubSeq(Reverse(versionRows[a]), 0 + 1,
              IF 0 + 1 < Len(versionRows[a]) THEN 0 + 1 ELSE Len(versionRows[a])) = shown
  BY <1>1, <1>8, <1>9
<1> HIDE DEF shown
<1>11. VersionPage(a, 0, 1) =
         [items |-> [n \in DOMAIN shown |-> [commit |-> shown[n], isLatest |-> 0 = 0 /\ n = 1]],
          total |-> Len(v)]
  BY <1>1, <1>10 DEF VersionPage
<1>12. VersionPage(a, 0, 1).items[1] = [commit |-> shown[1], isLatest |-> 0 = 0 /\ 1 = 1]
  BY <1>7, <1>11
<1>13. /\ VersionPage(a, 0, 1).items[1].isLatest
       /\ VersionPage(a, 0, 1).items[1].commit = shown[1]
  <2>1. VersionPage(a, 0, 1).items[1].isLatest
    <3>1. (0 = 0 /\ 1 = 1) = TRUE
      OBVIOUS
    <3>2. VersionPage(a, 0, 1).items[1] = [commit |-> shown[1], isLatest |-> TRUE]
      BY <1>12, <3>1, Zenon
    <3> QED
      BY <3>2
  <2>2. VersionPage(a, 0, 1).items[1].commit = shown[1]
    BY <1>12
  <2> QED
    BY <2>1, <2>2
<1>14. VersionPage(a, 0, 1).total = Len(v) /\ 1 \in DOMAIN VersionPage(a, 0, 1).items
  BY <1>7, <1>11
<1>15. shown[1] = LastOf(versionRows[a])
  BY <1>1, <1>5, <1>6 DEF LastOf
<1> QED
  BY <1>1, <1>13, <1>14, <1>15

LEMMA HistoryGivesVersions == HistoryInv => VersionsTrue
<1> SUFFICES ASSUME HistoryInv, run.step = "idle", caughtUp, processed = Newest,
                    NEW id \in TrackingIds, NEW a \in DocumentRefs(id)
             PROVE  LET page == VersionPage(a, 0, 1) IN
                    /\ a \notin uncounted =>
                         page.total = listed[a].count \/ (listed[a].advisory = Absent /\ page.total = 0)
                    /\ listed[a].advisory # Absent /\ page.total # 0 =>
                         /\ CurrentContent(a) = listed[a].advisory
                         /\ \E n \in DOMAIN page.items :
                              page.items[n].isLatest /\ ContentAt(a, page.items[n].commit) = CurrentContent(a)
  BY DEF VersionsTrue
<1>1. HistoryTypeInv /\ RunInv /\ TipInv /\ RecordedInv /\ CountInv
  BY DEF HistoryInv
<1>2. a \in Addresses /\ listed[a] # Absent
  BY DEF DocumentRefs
<1>3. Newest \in Nat /\ Newest # 0 /\ Basis = Newest /\ snapshots \in Seq(Snapshot)
  BY <1>1, LenProperties DEF HistoryTypeInv, Newest, RunInv, Basis
<1>4. ~Pending(a)
  BY <1>3 DEF Pending, RewrittenSince
<1>5. versionRows[a] \in Seq(Nat)
  BY <1>1, <1>2 DEF HistoryTypeInv
<1>6. Advised(a) => listed[a].advisory = Tip(a) /\ Tip(a) # Absent
  BY <1>1, <1>2, <1>4 DEF TipInv, Advised
<1>7. VersionPage(a, 0, 1).total = Len(versionRows[a])
  BY DEF VersionPage
<1>8. a \notin uncounted =>
        IF versionRows[a] # <<>> THEN listed[a].count = Len(versionRows[a])
        ELSE ~Advised(a)
  BY <1>1, <1>2, <1>4 DEF CountInv
<1>9. a \notin uncounted =>
        \/ VersionPage(a, 0, 1).total = listed[a].count
        \/ listed[a].advisory = Absent /\ VersionPage(a, 0, 1).total = 0
  <2>1. Len(<<>>) = 0
    OBVIOUS
  <2> QED
    BY <1>2, <1>7, <1>8, <2>1 DEF Advised
<1>10. ASSUME listed[a].advisory # Absent, VersionPage(a, 0, 1).total # 0
       PROVE  /\ CurrentContent(a) = listed[a].advisory
              /\ ContentAt(a, LastOf(versionRows[a])) = CurrentContent(a)
              /\ versionRows[a] # <<>>
  <2>1. versionRows[a] # <<>>
    BY <1>7, <1>10
  <2>2. PICK k \in Scanned(a, 0) : Held(k)[a] = Tip(a) /\ \A i \in Scanned(a, 0) : i <= k
    <3>1. Tip(a) # Absent /\ 0 \in 0 .. Newest
      BY <1>2, <1>3, <1>6, <1>10 DEF Advised
    <3> QED
      BY <1>2, <1>3, <3>1, TipAdded, TipScanned
  <2>3. PICK v : v = versionRows[a]
    OBVIOUS
  <2>4. /\ v \in Seq(Nat) /\ Ascending(v) /\ v # <<>> /\ ToSet(v) \subseteq Scanned(a, 0)
        /\ \A i \in Scanned(a, 0) : ~(i <= LastOf(v)) => i > Newest
    BY <1>1, <1>2, <1>3, <1>5, <2>1, <2>3 DEF RecordedInv
  <2>5. LastOf(v) \in ToSet(v)
    BY <2>4, LastIsGreatest
  <2>6. \A i \in Scanned(a, 0) : i \in 1 .. Newest
    BY DEF Scanned
  <2>7. LastOf(v) = k
    BY <1>3, <2>2, <2>4, <2>5, <2>6
  <2>8. CurrentContent(a) = Tip(a)
    BY <2>1, <2>2, <2>3, <2>7 DEF CurrentContent, LastOf
  <2>9. \E n \in DOMAIN v : v[n] = LastOf(v)
    BY <2>5 DEF ToSet
  <2>10. ContentAt(a, LastOf(v)) = Tip(a)
    BY <2>2, <2>3, <2>7, <2>9 DEF ContentAt
  <2> QED
    BY <1>2, <1>6, <1>10, <2>1, <2>3, <2>8, <2>10 DEF Advised
<1>11. ASSUME listed[a].advisory # Absent, VersionPage(a, 0, 1).total # 0
       PROVE  \E n \in DOMAIN VersionPage(a, 0, 1).items :
                /\ VersionPage(a, 0, 1).items[n].isLatest
                /\ ContentAt(a, VersionPage(a, 0, 1).items[n].commit) = CurrentContent(a)
  <2>1. versionRows[a] # <<>> /\ ContentAt(a, LastOf(versionRows[a])) = CurrentContent(a)
    BY <1>10, <1>11
  <2>2. /\ 1 \in DOMAIN VersionPage(a, 0, 1).items
        /\ VersionPage(a, 0, 1).items[1].isLatest
        /\ VersionPage(a, 0, 1).items[1].commit = LastOf(versionRows[a])
    BY <1>5, <2>1, FirstOfPage
  <2> QED
    BY <2>1, <2>2
<1> QED
  BY <1>9, <1>10, <1>11

\* Once a pass has ended well, the pages of a document agree on its content and
\* on the number of its versions, whatever was committed, abandoned, replaced or
\* forced before (storage/versions.rs).
THEOREM VersionsAlwaysTrue == VersionsSpec => [](VersionsTypeOK /\ VersionsTrue)
<1>1. HistoryInv => VersionsTypeOK /\ VersionsTrue
  BY HistoryGivesTypes, HistoryGivesVersions
<1> QED
  BY HistoryAlways, <1>1, PTL

=============================================================================
