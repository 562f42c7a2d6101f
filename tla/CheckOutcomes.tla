--------------------------- MODULE CheckOutcomes ---------------------------
(***************************************************************************)
(* What a stored result says of a document, and how the server counts and  *)
(* filters stored results.  The same states are read by four independently *)
(* written pieces: the virtual columns of the schema (migration            *)
(* m20240114), the filters of the document list, the summary of a provider *)
(* and the health of a distribution (storage/documents.rs).                *)
(***************************************************************************)
EXTENDS Naturals, FiniteSets, FiniteSetsExt

CONSTANTS
  None,
  Profiles  \* "basic", "extended", "full"

Stages     == {"retrieval", "parsing", "signature", "digest"}
Statuses   == {"passed", "failed", "warning", "missing", "not_evaluated"}
Severities == {"error", "warning", "info"}

\* A profile's columns: issues per severity, tests of the preset, and how many
\* of them have an issue.
Columns == [issues : [Severities -> Nat], tests : Nat, failing : Nat]

Unevaluated == [s \in Stages |-> "not_evaluated"]

\* Retrieved and parsed: otherwise the profiles are those of an older copy, or none.
Evaluated(o) == o.checks["retrieval"] = "passed" /\ o.checks["parsing"] = "passed"

Has(o, severity) ==
  \E p \in Profiles : o.profiles[p] # None /\ o.profiles[p].issues[severity] > 0

Broken(o) ==
  \/ o.checks["retrieval"] \in {"failed", "missing"}
  \/ \E s \in {"parsing", "signature", "digest"} : o.checks[s] = "failed"

\* The virtual column overall_status; None is SQL's NULL.
Overall(o) ==
  IF Broken(o) \/ (Evaluated(o) /\ Has(o, "error")) THEN "failing"
  ELSE IF o.checks["digest"] = "warning" \/ (Evaluated(o) /\ Has(o, "warning")) THEN "warning"
  ELSE IF Evaluated(o) /\ {o.checks["signature"], o.checks["digest"]} \subseteq {"passed", "missing"}
       THEN "passing"
  ELSE None

-----------------------------------------------------------------------------
(* Filters of the document list *)

Filters == {"all", "document-issues", "failing", "warnings", "passing", "retrieval-errors",
            "not-evaluated"}

Issues == {"failed", "warning", "missing"}

\* Mutant: a document the provider no longer has is not a retrieval error.
MatchesFailedOnly(o, filter) ==
  CASE filter = "all" -> TRUE
    [] filter = "document-issues" -> \E s \in Stages : o.checks[s] \in Issues
    [] filter = "failing" -> Overall(o) = "failing"
    [] filter = "warnings" -> Overall(o) \in {"failing", "warning"}
    [] filter = "passing" -> Overall(o) = "passing"
    [] filter = "retrieval-errors" -> o.checks["retrieval"] = "failed"
    [] filter = "not-evaluated" -> \E s \in Stages : o.checks[s] = "not_evaluated"

Matches(o, filter) ==
  CASE filter = "all" -> TRUE
    [] filter = "document-issues" -> \E s \in Stages : o.checks[s] \in Issues
    [] filter = "failing" -> Overall(o) = "failing"
    [] filter = "warnings" -> Overall(o) \in {"failing", "warning"}
    [] filter = "passing" -> Overall(o) = "passing"
    [] filter = "retrieval-errors" -> o.checks["retrieval"] \in {"failed", "missing"}
    [] filter = "not-evaluated" -> \E s \in Stages : o.checks[s] = "not_evaluated"

\* Filters like "signature-failed".
InStatus(o, stage, status) == o.checks[stage] = status

-----------------------------------------------------------------------------
(* Results stored before the stages were kept apart.  They had one error text  *)
(* for parsing, signature and digests, and a flag for either of the latter.    *)

LegacyResult ==
  [retrieval : {None, "error", "not found"},
   error     : {None, "parsing", "document", "signature", "digest", "signature and digest"},
   warning   : BOOLEAN, present : BOOLEAN, evaluated : BOOLEAN]

\* Migrations m20240111 and m20240113.
Converted(l) ==
  LET unread == l.retrieval # None \/ l.error \in {"parsing", "document"} IN
  [s \in Stages |->
     CASE s = "retrieval" ->
            IF l.retrieval = "not found" THEN "missing"
            ELSE IF l.retrieval # None THEN "failed" ELSE "passed"
       [] s = "parsing" ->
            IF unread THEN IF l.retrieval = None /\ l.error = "parsing" THEN "failed"
                           ELSE "not_evaluated"
            ELSE IF l.evaluated THEN "passed" ELSE "not_evaluated"
       [] s = "signature" ->
            IF unread THEN "not_evaluated"
            ELSE IF l.error \in {"signature", "signature and digest"} THEN "failed"
            ELSE IF ~l.present THEN "missing" ELSE "not_evaluated"
       [] s = "digest" ->
            IF unread THEN "not_evaluated"
            ELSE IF l.error \in {"digest", "signature and digest"} THEN "failed"
            ELSE IF l.warning THEN "warning"
            ELSE IF ~l.present THEN "missing" ELSE "not_evaluated"]

-----------------------------------------------------------------------------
(* Counting; S is a set of rows with the columns of an outcome *)

CountOf(S, stage, statuses) == Cardinality({r \in S : r.checks[stage] \in statuses})

\* Tests without and with an issue, over the evaluated documents.
Tested(S, p) == {r \in S : Evaluated(r) /\ r.profiles[p] # None}
Valid(S, p)   == MapThenSumSet(LAMBDA r : r.profiles[p].tests - r.profiles[p].failing, Tested(S, p))
Invalid(S, p) == MapThenSumSet(LAMBDA r : r.profiles[p].failing, Tested(S, p))
Rated(S, p)   == Valid(S, p) + Invalid(S, p) > 0

\* build_summary_from_db and document_check_summary, which groups the rows by
\* their four states and adds the size of each group.
Checked(S) ==
  LET groups == {{r \in S : r.checks = q.checks} : q \in S} IN
  [s \in Stages |-> [t \in Statuses |->
     Cardinality(UNION {g \in groups : \A r \in g : r.checks[s] = t})]]

Summary(S) ==
  [total      |-> Cardinality(S),
   profiles   |-> [p \in Profiles |-> IF Rated(S, p) THEN <<Valid(S, p), Invalid(S, p)>> ELSE None],
   signatures |-> [valid   |-> CountOf(S, "signature", {"passed"}),
                   invalid |-> CountOf(S, "signature", {"failed"}),
                   missing |-> CountOf(S, "signature", {"missing"})],
   retrieval_errors |-> CountOf(S, "retrieval", {"failed", "missing"}),
   checks     |-> Checked(S)]

\* distribution_health over the documents of one distribution.
Health(S) ==
  [documents |-> Cardinality(S),
   issues    |-> Cardinality({r \in S : \E s \in Stages : r.checks[s] \in Issues}),
   rates     |-> [p \in Profiles |-> IF Rated(S, p) THEN <<Valid(S, p), Invalid(S, p)>> ELSE None]]
=============================================================================
