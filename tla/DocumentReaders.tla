-------------------------- MODULE DocumentReaders --------------------------
(***************************************************************************)
(* Requests that read a provider's database while a pass writes it         *)
(* (storage/documents.rs, storage/versions.rs).  None of them uses a       *)
(* transaction: a request is a sequence of statements, and every statement *)
(* sees what was last committed.                                           *)
(***************************************************************************)
EXTENDS DocumentStore

CONSTANTS
  Requests,  \* filters of the pages asked for
  Limit,     \* documents of a page
  Rank       \* the order of tracking ids

\* Requests do not influence each other, so there is one at a time.  It reads
\* the failures of "rows", or the versions of the document at "url", or what
\* comes after the version "old", which may have been recorded anew since.
VARIABLE request

allVars == <<vars, request>>

NoRequest == [at |-> "none"]

Version   == [id : Nat, url : Urls, commit : Nat]
Requested == {NoRequest} \cup [at : {"failures"}, rows : SUBSET Row]
               \cup [at : {"version"}, url : Urls]
               \cup [at : {"newer"}, old : Version, rebuilt : BOOLEAN]

ReadInit == Init /\ request = NoRequest

-----------------------------------------------------------------------------
(* load_documents_paginated: the page's rows after their count, then failures *)

Filtered(filter) == {r \in rows : Matches(r, filter)}

Before(S, r) == {q \in S : Rank[q.tid] < Rank[r.tid] \/ (q.tid = r.tid /\ q.id < r.id)}

PageRows ==
  /\ request.at = "none"
  /\ \E filter \in Requests, offset \in 0 .. 1 :
       LET S == Filtered(filter)
           shown == {r \in S : Cardinality(Before(S, r)) \in offset .. offset + Limit - 1} IN
       request' = IF shown = {} THEN NoRequest ELSE [at |-> "failures", rows |-> shown]

FailuresOf(id) == {x.failed : x \in {y \in failures : y.row = id}}

\* The failing tests shown with row r.
Failing(r) == IF Evaluated(r) THEN FailuresOf(r.id) ELSE {}

PageFailures ==
  /\ request.at = "failures"
  /\ request' = NoRequest

-----------------------------------------------------------------------------
(* diff_document_versions: URL of the document, version at the commit, next newer *)

DiffDocument ==
  /\ request.at = "none"
  /\ \E r \in rows : request' = [at |-> "version", url |-> r.url]

DiffVersion ==
  /\ request.at = "version"
  /\ \/ \E v \in versions : \* at the commit asked for
         v.url = request.url /\ request' = [at |-> "newer", old |-> v, rebuilt |-> FALSE]
     \/ request' = NoRequest

Newer(v) == {w \in versions : w.url = v.url /\ w.id > v.id}

\* Mutant: the newest version instead of the next one.
NewestOf(S) == CHOOSE w \in S : \A x \in S : x.id <= w.id

NextOf(S) == CHOOSE w \in S : \A x \in S : w.id <= x.id

DiffNewer ==
  /\ request.at = "newer"
  /\ request' = NoRequest

Read == PageRows \/ PageFailures \/ DiffDocument \/ DiffVersion \/ DiffNewer

\* The versions are deleted and recorded anew under new ids.
Rebuilt == \E v \in versions : v \notin versions'

Observe ==
  request' = IF request.at = "newer" /\ Rebuilt
             THEN [at |-> "newer", old |-> request.old, rebuilt |-> TRUE] ELSE request

Next ==
  \/ Write /\ Observe
  \/ Read /\ UNCHANGED vars

Spec == ReadInit /\ [][Next]_allVars

-----------------------------------------------------------------------------
TypeOK ==
  /\ rows \in SUBSET Row
  /\ failures \in SUBSET [row : Nat, failed : FailedTest]
  /\ vulns \in SUBSET [row : Nat, cve : Cves]
  /\ nextId \in Nat \ {0}
  /\ log \in Seq(Urls)
  /\ versions \in SUBSET Version
  /\ nextVersion \in Nat
  /\ members \in [Distributions -> SUBSET Urls]
  /\ checkpoint \in Checkpoints
  /\ pass \in Passes /\ baseline \in BOOLEAN
  /\ request \in Requested

\* A URL has one row, an id names one, and of two documents with one tracking id
\* only one is stored: what the code looks up with "one" is the only one
\* (save_documents, save_retrieval_errors).
OneRowPerDocument ==
  \A r, s \in rows : r # s =>
    /\ r.id # s.id /\ r.url # s.url
    /\ r.tid = s.tid => None \in {r.of, s.of}

OwnFailures(r) == IF r.of = None THEN {} ELSE Result(r.url, r.of).failing
OwnCves(r)     == IF r.of = None THEN {} ELSE Result(r.url, r.of).cves

CvesOf(id) == {x.cve : x \in {y \in vulns : y.row = id}}

\* Nothing in the other tables outlives its row or belongs to another file, and
\* with a usable checkpoint nothing is missing there: the statements that delete
\* all results are not one transaction (delete_all_documents).
ChildrenComplete ==
  /\ {x.row : x \in failures \cup vulns} \subseteq IdsOf(rows)
  /\ \A r \in rows :
       /\ FailuresOf(r.id) \in {{}, OwnFailures(r)}
       /\ CvesOf(r.id) \in {{}, OwnCves(r)}
       /\ checkpoint \in {"clean", "dirty"} =>
            FailuresOf(r.id) = OwnFailures(r) /\ CvesOf(r.id) = OwnCves(r)

\* A page shows a document with its own failing tests or, when the row is
\* replaced between two statements, with none: never with those of another
\* document or version (load_documents_paginated).
PageCoherent ==
  request.at = "failures" => \A r \in request.rows : Failing(r) \in {{}, OwnFailures(r)}

\* Schema, validation and retrieval together classify a document as its file
\* and its last download deserve (overall_status, validate_provider).
VerdictTrue ==
  \A r \in rows : r.of # None =>
    Overall(r) = IF r.retrieval_error THEN "failing" ELSE Verdict(r.of)

\* document_check_summary: "Counts each essential outcome independently using
\* the same stored states as the filters."  And what is neither passing, nor
\* failing, nor a warning has a stage that was not evaluated.
FiltersAgree ==
  LET n(filter) == Cardinality(Filtered(filter))
      summary   == Summary(rows) IN
  /\ \A s \in Stages : \A t \in {r.checks[s] : r \in rows} :
       summary.checks[s][t] = Cardinality({r \in rows : InStatus(r, s, t)})
  /\ summary.retrieval_errors = n("retrieval-errors")
  /\ n("passing") + n("warnings") + Cardinality({r \in rows : Overall(r) = None}) = n("all")
  /\ \A r \in rows : Overall(r) = None => Matches(r, "not-evaluated")
  /\ \A d \in Distributions :
       Health({r \in rows : r.url \in members[d]}).issues =
         Cardinality({r \in Filtered("document-issues") : r.url \in members[d]})

\* "A structured diff between a document version and its next newer version",
\* unless the history is recorded anew in between (diff_document_versions).
DiffsConsecutive ==
  request.at = "newer" /\ ~request.rebuilt /\ Newer(request.old) # {} =>
    LET old == request.old.commit
        new == NextOf(Newer(request.old)).commit IN
    /\ old < new
    /\ \A i \in DOMAIN log : log[i] = request.old.url => ~(old < i /\ i < new)
=============================================================================
