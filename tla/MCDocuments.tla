---------------------------- MODULE MCDocuments ----------------------------
(***************************************************************************)
(* Two URLs and two tracking ids, one the file name of the other, so that  *)
(* documents collide; a file that is fine, one with a tolerated digest and *)
(* two issues, one that cannot be parsed.  What becomes of the versions     *)
(* over several commits is followed without the rest of the results.       *)
(***************************************************************************)
EXTENDS DocumentReaders, VersionHistory, TLC

CONSTANTS u1, u2, i1, i2, t1, t2, cve1, d1, basic

MCNameId == u1 :> i1 @@ u2 :> i2
MCLossy  == i1 :> i1 @@ i2 :> i1
MCRank   == i1 :> 1 @@ i2 :> 2

CsafFile(id, sha256, sha512, signature, issues, cves) ==
  [kind |-> "csaf", id |-> id, sha256 |-> sha256, sha512 |-> sha512,
   signature |-> signature, issues |-> [p \in Profiles |-> issues], cves |-> cves]

Fine       == CsafFile(i1, "match", None, "valid", {}, {cve1})
Tolerated  == CsafFile(i2, "mismatch", "match", None, {<<t1, "warning">>, <<t1, "info">>}, {})
Unparsable == [CsafFile(i1, None, None, None, {}, {}) EXCEPT !.kind = "unparsable"]
MCFiles == {Fine, Tolerated, Unparsable}

MCLegacyResults ==
  {[retrieval |-> None, error |-> "parsing", warning |-> FALSE, present |-> TRUE, evaluated |-> TRUE]}

\* One tracking id on two advisories, and one of its own.
MCAdvisories == {[id |-> i1, says |-> 1], [id |-> i1, says |-> 2], [id |-> i2, says |-> 1]}

-----------------------------------------------------------------------------
VARIABLE part

documentsVars == <<part, allVars, versionVars>>

\* Bound: an index lists one of the two URLs, or nothing.
ListsOne == \A d \in Distributions : members[d] \subseteq {u1}

DocumentsInit ==
  /\ part \in {"results", "versions"}
  /\ ReadInit /\ VersionsInit
  /\ part # "results" => rows = {} /\ checkpoint = "none"
  /\ part # "versions" => snapshots = <<>>

DocumentsNext ==
  /\ \/ part = "results" /\ Next /\ ListsOne' /\ UNCHANGED versionVars
     \/ part = "versions" /\ VersionsNext /\ UNCHANGED allVars
  /\ UNCHANGED part

DocumentsSpec == DocumentsInit /\ [][DocumentsNext]_documentsVars

=============================================================================
