--------------------------- MODULE DocumentStore ---------------------------
(***************************************************************************)
(* A provider's database of results (storage/documents.rs, versions.rs,    *)
(* processing.rs, membership.rs): the rows of documents with their check   *)
(* failures and vulnerabilities in tables of their own, the recorded       *)
(* versions, the members of distributions and the checkpoint, under the    *)
(* writes of processing passes.  Every action is one transaction.          *)
(*                                                                         *)
(* Of the files only what a row keeps is modelled, and of the pass the     *)
(* order of its writes (process_snapshot in scheduler/runner.rs); which    *)
(* files it selects is the subject of module Processing.  revision_history *)
(* is written with check_failures in every transaction and left out.       *)
(***************************************************************************)
EXTENDS Validation, Sequences

CONSTANTS
  Lossy,          \* the file name the specification of CSAF derives from a tracking id
  Files,          \* files of the snapshot
  LegacyResults,  \* results of an older schema
  Distributions,
  MaxEvents,      \* bound on rows inserted and commits made, together
  MaxVersions     \* bound on versions ever recorded

VARIABLES
  rows,        \* documents; "of" is the file a row was made from, for the properties
  failures,    \* check_failures, by the id of the document
  vulns,       \* document_vulnerabilities, likewise
  nextId,      \* AUTOINCREMENT of documents
  log,         \* the repository's history: the URL each commit changed
  versions,    \* document_versions: id, url, commit
  nextVersion, \* its AUTOINCREMENT
  members,     \* distribution_membership
  checkpoint,  \* processing_checkpoint
  pass,        \* next step of the processing pass
  baseline     \* whether it started from nothing

store == <<rows, failures, vulns, nextId>>
recorded == <<versions, nextVersion>>
vars  == <<store, log, recorded, members, checkpoint, pass, baseline>>

ASSUME StoreAssumption ==
  /\ Files \subseteq File
  /\ None \notin File \cup Columns \cup {"match", "mismatch", "valid", "invalid"}
  /\ None \notin {"failing", "warning", "passing"}
  /\ IsFiniteSet(Tests)
  /\ NameId \in [Urls -> Ids] /\ Lossy \in [Ids -> Ids]
  /\ LegacyResults \subseteq LegacyResult

Passes == {"idle", "delete_vulns", "delete_rows", "clean", "validate", "recorded"}
Checkpoints == {"none", "unreachable", "clean", "dirty"}

Row ==
  [id : Nat, url : Urls, tid : Ids, checks : [Stages -> Statuses],
   profiles : [Profiles -> Columns \cup {None}],
   retrieval_error : BOOLEAN, of : File \cup {None}]

Unprofiled == [p \in Profiles |-> None]

RowOf(id, doc, f) ==
  [id |-> id, url |-> doc.url, tid |-> doc.tid, checks |-> doc.checks,
   profiles |-> doc.profiles, retrieval_error |-> doc.retrieval_error, of |-> f]

\* The row of an older schema; its vulnerabilities were not indexed.
LegacyRow(u, l) ==
  [id |-> 1, url |-> u, tid |-> NameId[u], checks |-> Converted(l), profiles |-> Unprofiled,
   retrieval_error |-> l.retrieval # None, of |-> None]

Init ==
  /\ rows \in {{}} \cup {{LegacyRow(u, l)} : u \in Urls, l \in LegacyResults}
  /\ failures = {} /\ vulns = {}
  /\ nextId = 2
  /\ log = <<>>
  /\ versions = {} /\ nextVersion = 1
  /\ members = [d \in Distributions |-> {}]
  /\ checkpoint \in {"none", "dirty"}
  /\ pass = "idle" /\ baseline = FALSE

\* Rows inserted and commits made so far.
Events == nextId - 2 + Len(log)

\* summary_dirty of the checkpoint, if there is one.
Dirtied == IF checkpoint = "clean" THEN "dirty" ELSE checkpoint

\* The rows ids and everything that refers to them.
Delete(ids) ==
  /\ failures' = {x \in failures : x.row \notin ids}
  /\ vulns' = {x \in vulns : x.row \notin ids}

IdsOf(S) == {r.id : r \in S}

-----------------------------------------------------------------------------
(* A processing pass *)

\* Without a usable checkpoint all results go, in statements of their own.
BeginPass ==
  /\ pass = "idle"
  /\ \E forced \in BOOLEAN :
       checkpoint' = IF forced THEN "none" ELSE checkpoint
  /\ IF checkpoint \in {"none", "unreachable"}
     THEN baseline' = TRUE /\ failures' = {} /\ pass' = "delete_vulns"
     ELSE baseline' = FALSE /\ UNCHANGED failures /\ pass' = "clean"
  /\ UNCHANGED <<rows, vulns, nextId, log, recorded, members>>

DeleteVulns ==
  /\ pass = "delete_vulns"
  /\ vulns' = {}
  /\ pass' = "delete_rows"
  /\ UNCHANGED <<rows, failures, nextId, log, recorded, members, checkpoint, baseline>>

DeleteRows ==
  /\ pass = "delete_rows"
  /\ rows' = {}
  /\ pass' = "clean"
  /\ UNCHANGED <<failures, vulns, nextId, log, recorded, members, checkpoint, baseline>>

\* Mutant: only the rows go, what refers to them stays.
DeleteUrlsRowsOnly ==
  /\ pass = "clean" /\ ~baseline
  /\ \E urls \in SUBSET Urls :
       LET gone == {r \in rows : r.url \in urls} IN
       /\ gone # {}
       /\ rows' = rows \ gone
  /\ checkpoint' = Dirtied
  /\ UNCHANGED <<failures, vulns, nextId, log, recorded, members, pass, baseline>>

\* Results of advisories that were removed from the repository.
DeleteUrls ==
  /\ pass = "clean" /\ ~baseline
  /\ \E urls \in SUBSET Urls :
       LET gone == {r \in rows : r.url \in urls} IN
       /\ gone # {}
       /\ rows' = rows \ gone
       /\ Delete(IdsOf(gone))
  /\ checkpoint' = Dirtied
  /\ UNCHANGED <<nextId, log, recorded, members, pass, baseline>>

\* Mutant: a result takes the place of the row of its tracking id only.
ReplacedById(doc) == {r \in rows : r.tid \in {doc.tid, Lossy[doc.tid]}}

\* The rows a result takes the place of.
Replaced(doc) == {r \in rows : r.tid \in {doc.tid, Lossy[doc.tid]} \/ r.url = doc.url}

Insert(id, doc, f) ==
  /\ rows' = (rows \ Replaced(doc)) \cup {RowOf(id, doc, f)}
  /\ failures' = {x \in failures : x.row \notin IdsOf(Replaced(doc))}
                   \cup [row : {id}, failed : doc.failing]
  /\ vulns' = {x \in vulns : x.row \notin IdsOf(Replaced(doc))} \cup [row : {id}, cve : doc.cves]

\* Mutant: an id is free again once its row is the last and gone.
ValidateReusingIds(u, f) ==
  /\ pass \in {"clean", "validate"}
  /\ f.kind # "uncheckable"
  /\ Events < MaxEvents
  /\ LET doc == Result(u, f)
         id  == Max({0} \cup IdsOf(rows \ Replaced(doc))) + 1 IN
     Insert(id, doc, f)
  /\ nextId' = nextId + 1
  /\ checkpoint' = Dirtied
  /\ pass' = "validate"
  /\ UNCHANGED <<log, recorded, members, baseline>>

\* A file is validated and its result stored; one whose tests cannot be run
\* ends the pass.
Validate(u, f) ==
  /\ pass \in {"clean", "validate"}
  /\ f.kind # "uncheckable"
  /\ Events < MaxEvents
  /\ Insert(nextId, Result(u, f), f)
  /\ nextId' = nextId + 1
  /\ checkpoint' = Dirtied
  /\ pass' = "validate"
  /\ UNCHANGED <<log, recorded, members, baseline>>

\* The commit the versions in "kept" reach.
Since(kept) == Max({0} \cup {v.commit : v \in kept})

\* The versions of the commits that follow them are added in order.
Recorded(kept) ==
  kept \cup {[id |-> nextVersion + (i - Since(kept)) - 1, url |-> log[i], commit |-> i] :
              i \in Since(kept) + 1 .. Len(log)}

\* Incrementally, or from scratch in a baseline.  Where documents have no
\* versions at all (versions_missing) the two are the same.
RecordVersions ==
  /\ pass \in {"clean", "validate"}
  /\ LET kept == IF baseline THEN {} ELSE versions IN
     /\ versions' = Recorded(kept)
     /\ nextVersion' = nextVersion + (Len(log) - Since(kept))
     /\ nextVersion' <= MaxVersions + 1
  /\ pass' = "recorded"
  /\ UNCHANGED <<store, log, members, checkpoint, baseline>>

\* Mutant: only the error is stored, the stages stay what they were.
FailsKeepingChecks(r, status) == [r EXCEPT !.retrieval_error = TRUE]

\* A row's result of the last download is replaced, that of its content stays.
Fails(r, status) ==
  [r EXCEPT !.checks = [Unevaluated EXCEPT !["retrieval"] = status], !.retrieval_error = TRUE]

\* Mutant: the row is stored without an outcome.
StubUnchecked(id, u, status) ==
  [id |-> id, url |-> u, tid |-> NameId[u], checks |-> [s \in {} |-> status],
   profiles |-> Unprofiled, retrieval_error |-> TRUE, of |-> None]

Stub(id, u, status) ==
  [id |-> id, url |-> u, tid |-> NameId[u],
   checks |-> [Unevaluated EXCEPT !["retrieval"] = status], profiles |-> Unprofiled,
   retrieval_error |-> TRUE, of |-> None]

\* A failed download of the job; a URL without a row gets one.  The failures of
\* a job are one transaction: any number of them is stored, or none.
SaveRetrievalError(u, status) ==
  /\ pass = "recorded"
  /\ LET known == {r \in rows : r.url = u} IN
     /\ rows' = (rows \ known)
                  \cup (IF known = {} THEN {Stub(nextId, u, status)}
                        ELSE {Fails(r, status) : r \in known})
     /\ known = {} => Events < MaxEvents
     /\ nextId' = IF known = {} THEN nextId + 1 ELSE nextId
  \* the same failure with the same text as before changes nothing
  /\ checkpoint' \in {Dirtied} \cup (IF rows' = rows THEN {checkpoint} ELSE {})
  /\ UNCHANGED <<failures, vulns, log, recorded, members, pass, baseline>>

Publish ==
  /\ pass = "recorded"
  /\ checkpoint' = "clean"
  /\ pass' = "idle" /\ baseline' = FALSE
  /\ UNCHANGED <<store, log, recorded, members>>

\* After the pass of a sync: the indexes that could be read replace what was
\* known of their distributions, the others keep it.
SaveMembership ==
  /\ pass = "idle"
  /\ \E read \in SUBSET Distributions :
     \E index \in [read -> SUBSET Urls] :
       members' = [d \in Distributions |-> IF d \in read THEN index[d] ELSE members[d]]
  /\ UNCHANGED <<store, log, recorded, checkpoint, pass, baseline>>

\* The pass fails or is cancelled, or the process dies.
Interrupt ==
  /\ pass # "idle"
  /\ pass' = "idle" /\ baseline' = FALSE
  /\ UNCHANGED <<store, log, recorded, members, checkpoint>>

-----------------------------------------------------------------------------
(* The repository *)

\* The download of a job, before its pass.
Commit ==
  /\ pass = "idle"
  /\ Events < MaxEvents
  /\ \E u \in Urls : log' = Append(log, u)
  /\ UNCHANGED <<store, recorded, members, checkpoint, pass, baseline>>

\* The checkpoint's commit is gone.
Rewrite ==
  /\ checkpoint \in {"clean", "dirty"}
  /\ pass = "idle"
  /\ checkpoint' = "unreachable"
  /\ UNCHANGED <<store, log, recorded, members, pass, baseline>>

Pass ==
  \/ BeginPass \/ DeleteVulns \/ DeleteRows \/ DeleteUrls
  \/ \E u \in Urls, f \in Files : Validate(u, f)
  \/ \E u \in Urls, status \in {"failed", "missing"} : SaveRetrievalError(u, status)
  \/ RecordVersions \/ Publish

Write == Pass \/ SaveMembership \/ Interrupt \/ Commit \/ Rewrite
=============================================================================
