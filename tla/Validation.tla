----------------------------- MODULE Validation -----------------------------
(***************************************************************************)
(* What validate_provider makes of one file (pipeline/validate.rs): the    *)
(* outcome of the four stages, the columns of the profiles and the result  *)
(* handed to the document store.                                           *)
(***************************************************************************)
EXTENDS CheckOutcomes

CONSTANTS
  Ids,    \* tracking ids
  Tests,  \* tests of the profiles
  Cves,
  Urls,
  NameId  \* the tracking id the last part of a URL suggests

\* A file of the snapshot: what parsing it yields, its digests and signature,
\* and the issues a profile's tests find.
File ==
  [kind : {"csaf", "unparsable", "unreadable", "uncheckable"},
   id : Ids,
   sha256 : {None, "match", "mismatch"}, sha512 : {None, "match", "mismatch"},
   signature : {None, "valid", "invalid"},
   issues : [Profiles -> SUBSET (Tests \X Severities)],
   cves : SUBSET Cves]

FailedTest == [profile : Profiles, test : Tests, severity : Severities]

Digests(f) == {f.sha256, f.sha512} \ {None}

\* Mutant: as if every supplied digest had to match.
AssessStrictly(f) ==
  [present |-> Digests(f) # {},
   error   |-> "mismatch" \in Digests(f),
   warning |-> FALSE]

\* One matching digest is enough; a missing one is no success.
Assess(f) ==
  LET passed == "match" \in Digests(f)
      failed == "mismatch" \in Digests(f) IN
  [present |-> Digests(f) # {}, error |-> failed /\ ~passed, warning |-> failed /\ passed]

DigestStatus(f) ==
  LET integrity == Assess(f) IN
  IF integrity.error THEN "failed"
  ELSE IF integrity.warning THEN "warning"
  ELSE IF integrity.present THEN "passed" ELSE "missing"

SignatureStatus(f) ==
  IF f.signature = None THEN "missing"
  ELSE IF f.signature = "valid" THEN "passed" ELSE "failed"

Checks(f) ==
  CASE f.kind = "csaf" -> [Unevaluated EXCEPT !["retrieval"] = "passed",
                                              !["parsing"]   = "passed",
                                              !["signature"] = SignatureStatus(f),
                                              !["digest"]    = DigestStatus(f)]
    [] f.kind = "unparsable" -> [Unevaluated EXCEPT !["retrieval"] = "passed",
                                                    !["parsing"] = "failed"]
    [] OTHER -> [Unevaluated EXCEPT !["retrieval"] = "failed"]

\* A profile without issues has passed.  The issues are counted one by one, the
\* failing tests once each.
Detail(f, p) ==
  IF f.kind # "csaf" THEN None
  ELSE [issues  |-> [v \in Severities |-> Cardinality({i \in f.issues[p] : i[2] = v})],
        tests   |-> Cardinality(Tests),
        failing |-> Cardinality({i[1] : i \in f.issues[p]})]

TrackingId(u, f) == IF f.kind = "csaf" THEN f.id ELSE NameId[u]

\* DocumentValidation of the file at url u.
Result(u, f) ==
  [url      |-> u,
   tid      |-> TrackingId(u, f),
   checks   |-> Checks(f),
   profiles |-> [p \in Profiles |-> Detail(f, p)],
   failing  |-> IF f.kind = "csaf"
                THEN {t \in FailedTest : <<t.test, t.severity>> \in f.issues[t.profile]}
                ELSE {},
   cves     |-> IF f.kind = "csaf" THEN f.cves ELSE {},
   retrieval_error |-> Checks(f)["retrieval"] \in {"failed", "missing"}]

-----------------------------------------------------------------------------
(* What a document is worth, said without the stages *)

Trusted(f) ==
  /\ f.signature # "invalid"
  /\ Digests(f) # {} => "match" \in Digests(f)

Spotless(f, severity) == \A p \in Profiles : \A i \in f.issues[p] : i[2] # severity

Verdict(f) ==
  IF f.kind # "csaf" \/ ~Trusted(f) \/ ~Spotless(f, "error") THEN "failing"
  ELSE IF "mismatch" \in Digests(f) \/ ~Spotless(f, "warning") THEN "warning"
  ELSE "passing"
=============================================================================
