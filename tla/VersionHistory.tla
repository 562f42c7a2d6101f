--------------------------- MODULE VersionHistory ---------------------------
(***************************************************************************)
(* The versions of a provider's documents (storage/versions.rs): recorded  *)
(* from the history of the repository, counted in the rows of documents,   *)
(* and read for the pages of a document.  Rows come and go with the        *)
(* processing passes (scheduler/runner.rs), which find a row by its URL    *)
(* and its tracking id while versions belong to the URL alone.             *)
(*                                                                         *)
(* Every action is one transaction (deleting all results takes several,    *)
(* documents last).  A pass runs while nothing is committed, and scans     *)
(* what module HistoryScan shows it to find.                               *)
(***************************************************************************)
EXTENDS Naturals, Sequences, SequencesExt

CONSTANTS
  Addresses,    \* URLs of advisories
  TrackingIds,
  NameOf,       \* the tracking id a URL ends with
  Advisories,   \* what an advisory may say: its tracking id and the rest
  Absent,
  MaxSnapshots  \* bound on the commits

VARIABLES
  snapshots,    \* the commits: what each address holds
  listed,       \* documents, by URL: tracking id, advisory (none in a stub), count
  versionRows,  \* document_versions in the order of their ids, by URL: commits
  processed,    \* the commit of the checkpoint, or 0
  run,          \* the pass: next step, and what it selected
  uncounted,    \* for the property: rows inserted since versions were counted
  caughtUp      \* likewise: a pass of this release has ended well

versionVars == <<snapshots, listed, versionRows, processed, run, uncounted, caughtUp>>

ASSUME VersionsAssumption ==
  /\ Advisories \subseteq [id : TrackingIds, says : Nat]
  /\ NameOf \in [Addresses -> TrackingIds]
  /\ Absent \notin Advisories
  /\ MaxSnapshots \in Nat \ {0}

Snapshot == [Addresses -> Advisories \cup {Absent}]
Newest   == Len(snapshots)
Nothing  == [a \in Addresses |-> Absent]
Unrecorded == [a \in Addresses |-> <<>>]
Held(i)  == IF i = 0 THEN Nothing ELSE snapshots[i]

NoRun == [step |-> "idle", since |-> 0, baseline |-> FALSE, history |-> {},
          deleted |-> {}, selected |-> {}]

FirstCount == 1
ListedAs(adv, count) == [id |-> adv.id, advisory |-> adv, count |-> count]
StubRow(a) == [id |-> NameOf[a], advisory |-> Absent, count |-> FirstCount]

\* A database is new, or it stems from a release that recorded no versions.
VersionsInit ==
  /\ \/ snapshots = <<>> /\ listed = Nothing
     \/ \E tree \in Snapshot :
          /\ \A a, b \in Addresses :
               a # b /\ Absent \notin {tree[a], tree[b]} => tree[a].id # tree[b].id
          /\ snapshots = <<tree>>
          /\ listed = [a \in Addresses |-> IF tree[a] = Absent THEN Absent
                                           ELSE ListedAs(tree[a], FirstCount)]
  /\ versionRows = Unrecorded
  /\ processed = Newest
  /\ run = NoRun
  /\ uncounted = {}
  /\ caughtUp = FALSE

-----------------------------------------------------------------------------
CommitSnapshot ==
  /\ run.step = "idle"
  /\ Newest < MaxSnapshots
  /\ \E a \in Addresses, v \in Advisories \cup {Absent} :
       /\ v # Held(Newest)[a]
       /\ snapshots' = Append(snapshots, [Held(Newest) EXCEPT ![a] = v])
  /\ UNCHANGED <<listed, versionRows, processed, run, uncounted, caughtUp>>

RewrittenSince(c) ==
  {a \in Addresses : \E i \in c + 1 .. Newest : Held(i)[a] # Held(i - 1)[a]}

\* Beside the advisories that changed, a pass selects those whose signatures
\* did, or all of them.  A forced one drops the checkpoint it starts from.
BeginRun ==
  /\ run.step = "idle"
  /\ Newest > 0
  /\ \E others \in SUBSET Addresses, forced \in BOOLEAN :
       LET present  == {a \in Addresses : Held(Newest)[a] # Absent}
           baseline == processed = 0
           history  == IF baseline THEN {} ELSE RewrittenSince(processed)
       IN
       /\ run' = [step |-> "clean", since |-> processed, baseline |-> baseline,
                  history |-> history, deleted |-> history \ present,
                  selected |-> IF baseline THEN present ELSE (history \cup others) \cap present]
       /\ processed' = IF forced THEN 0 ELSE processed
  /\ UNCHANGED <<snapshots, listed, versionRows, uncounted, caughtUp>>

DeleteAllDocuments ==
  /\ run.step = "clean" /\ run.baseline
  /\ listed' = Nothing
  /\ run' = [run EXCEPT !.step = "validate"]
  /\ UNCHANGED <<snapshots, versionRows, processed, uncounted, caughtUp>>

DeleteDocumentUrl(a) ==
  /\ run.step = "clean"
  /\ a \in run.deleted
  /\ listed' = [listed EXCEPT ![a] = Absent]
  /\ run' = [run EXCEPT !.deleted = @ \ {a}]
  /\ UNCHANGED <<snapshots, versionRows, processed, uncounted, caughtUp>>

\* Mutant: a result starts over with one version.
SaveDocumentAnew(a) ==
  /\ run.step \in {"clean", "validate"}
  /\ run.step = "clean" => ~run.baseline /\ run.deleted = {}
  /\ a \in run.selected
  /\ LET doc == Held(Newest)[a]
         replaced == {b \in Addresses \ {a} : listed[b] # Absent /\ listed[b].id = doc.id}
     IN
     /\ listed' = [b \in Addresses |->
                     IF b = a THEN ListedAs(doc, FirstCount)
                     ELSE IF b \in replaced THEN Absent ELSE listed[b]]
     /\ uncounted' = uncounted \cup ({b \in {a} : listed[b] = Absent})
  /\ run' = [run EXCEPT !.selected = @ \ {a}, !.step = "validate"]
  /\ UNCHANGED <<snapshots, versionRows, processed, caughtUp>>

\* A result takes the place of the rows of its URL, whose count it keeps, and
\* of its tracking id.
SaveDocument(a) ==
  /\ run.step \in {"clean", "validate"}
  /\ run.step = "clean" => ~run.baseline /\ run.deleted = {}
  /\ a \in run.selected
  /\ LET doc == Held(Newest)[a]
         replaced == {b \in Addresses \ {a} : listed[b] # Absent /\ listed[b].id = doc.id}
         count == IF listed[a] = Absent THEN FirstCount ELSE listed[a].count
     IN
     /\ listed' = [b \in Addresses |->
                     IF b = a THEN ListedAs(doc, count)
                     ELSE IF b \in replaced THEN Absent ELSE listed[b]]
     /\ uncounted' = uncounted \cup ({b \in {a} : listed[b] = Absent})
  /\ run' = [run EXCEPT !.selected = @ \ {a}, !.step = "validate"]
  /\ UNCHANGED <<snapshots, versionRows, processed, caughtUp>>

-----------------------------------------------------------------------------
(* Recording *)

\* The commits after c that add or modify the advisory of an address.
Scanned(a, c) == {i \in c + 1 .. Newest : Held(i)[a] \notin {Absent, Held(i - 1)[a]}}

\* In the order of the history.
Oldest(S) == [n \in 1 .. Cardinality(S) |-> CHOOSE i \in S : Cardinality({j \in S : j <= i}) = n]

\* What is recorded already is ignored.
RecordedAfter(a, kept, c) == kept[a] \o Oldest(Scanned(a, c) \ ToSet(kept[a]))

\* Documents without any versions: those of an older release.
VersionsMissing == versionRows = Unrecorded /\ listed # Nothing

\* Rows without versions keep their count.
Recounted(rows, versions, a) ==
  IF rows[a] = Absent \/ versions[a] = <<>> THEN rows[a]
  ELSE [rows[a] EXCEPT !.count = Len(versions[a])]

\* From scratch in a baseline and for a database without versions, else what
\* follows the checkpoint the pass started from, if that concerns advisories.
RecordHistory ==
  LET anew == run.baseline \/ VersionsMissing
      since == IF anew THEN 0 ELSE run.since
      kept == IF anew THEN Unrecorded ELSE versionRows
      touched == {a \in Addresses : anew \/ Scanned(a, since) # {}}
  IN
  /\ run.step \in {"clean", "validate"}
  /\ run.step = "clean" => ~run.baseline /\ run.deleted = {}
  /\ run.selected = {}
  /\ IF anew \/ run.history # {}
     THEN /\ versionRows' = [a \in Addresses |-> RecordedAfter(a, kept, since)]
          /\ listed' = [a \in Addresses |-> IF a \in touched THEN Recounted(listed, versionRows', a)
                                            ELSE listed[a]]
          /\ uncounted' = uncounted \ {a \in Addresses :
                                      listed[a] # Absent /\ (anew \/ a \in run.history)}
     ELSE UNCHANGED <<versionRows, listed, uncounted>>
  /\ run' = [run EXCEPT !.step = "failures"]
  /\ UNCHANGED <<snapshots, processed, caughtUp>>

\* An advisory that cannot be fetched is listed with a stub if it has no row.
SaveStubs ==
  /\ run.step = "failures"
  /\ \E failing \in SUBSET Addresses :
       LET new == {a \in failing : listed[a] = Absent} IN
       /\ listed' = [a \in Addresses |-> IF a \in new THEN StubRow(a) ELSE listed[a]]
       /\ uncounted' = uncounted \cup new
  /\ run' = [run EXCEPT !.step = "publish"]
  /\ UNCHANGED <<snapshots, versionRows, processed, caughtUp>>

PublishCheckpoint ==
  /\ run.step = "publish"
  /\ processed' = Newest
  /\ run' = NoRun
  /\ caughtUp' = TRUE
  /\ UNCHANGED <<snapshots, listed, versionRows, uncounted>>

\* A failure, or the end of the process.
AbandonRun ==
  /\ run.step # "idle"
  /\ run' = NoRun
  /\ UNCHANGED <<snapshots, listed, versionRows, processed, uncounted, caughtUp>>

VersionsNext ==
  \/ CommitSnapshot
  \/ BeginRun
  \/ DeleteAllDocuments
  \/ \E a \in Addresses : DeleteDocumentUrl(a)
  \/ \E a \in Addresses : SaveDocument(a)
  \/ RecordHistory
  \/ SaveStubs
  \/ PublishCheckpoint
  \/ AbandonRun

VersionsSpec == VersionsInit /\ [][VersionsNext]_versionVars

-----------------------------------------------------------------------------
(* Reading, between passes: the requests of a document's pages *)

\* Some document of that tracking id.
DocumentRefs(id) == {a \in Addresses : listed[a] # Absent /\ listed[a].id = id}

\* One page, newest first; the first version of the first page is the latest.
VersionPage(a, from, limit) ==
  LET total == Len(versionRows[a])
      shown == SubSeq(Reverse(versionRows[a]), from + 1,
                      IF from + limit < total THEN from + limit ELSE total)
  IN
  [items |-> [n \in DOMAIN shown |-> [commit |-> shown[n], isLatest |-> from = 0 /\ n = 1]],
   total |-> total]

\* The content of the version recorded last, and of the one of a commit.
CurrentContent(a) ==
  IF versionRows[a] = <<>> THEN Absent ELSE Held(versionRows[a][Len(versionRows[a])])[a]
ContentAt(a, commit) ==
  IF \E n \in DOMAIN versionRows[a] : versionRows[a][n] = commit THEN Held(commit)[a] ELSE Absent

-----------------------------------------------------------------------------
VersionsTypeOK ==
  /\ snapshots \in Seq(Snapshot) /\ Newest <= MaxSnapshots
  /\ \A a \in Addresses :
       /\ listed[a] = Absent \/ listed[a] \in [id : TrackingIds, count : Nat,
                                               advisory : Advisories \cup {Absent}]
       /\ versionRows[a] \in Seq(1 .. Newest)
  /\ processed \in 0 .. Newest
  /\ uncounted \subseteq Addresses /\ caughtUp \in BOOLEAN
  /\ run \in [step : {"idle", "clean", "validate", "failures", "publish"},
              since : 0 .. Newest, baseline : BOOLEAN, history : SUBSET Addresses,
              deleted : SUBSET Addresses, selected : SUBSET Addresses]

\* Once a pass has ended well, the pages of a document agree, whatever passes
\* broke off before it and whatever came and went in the repository: the
\* version marked as the latest, the content served as the current one and the
\* row are of the same bytes, and the count in the row is the number of versions
\* the list has (refresh_version_counts).  A row that was inserted without a
\* change of its advisory, because another one had taken its tracking id or as a
\* stub, counts from one until its advisory next changes.
VersionsTrue ==
  run.step = "idle" /\ caughtUp /\ processed = Newest =>
    \A id \in TrackingIds : \A a \in DocumentRefs(id) :
      LET page == VersionPage(a, 0, 1) IN
      /\ a \notin uncounted =>
           page.total = listed[a].count \/ (listed[a].advisory = Absent /\ page.total = 0)
      /\ listed[a].advisory # Absent /\ page.total # 0 =>
           /\ CurrentContent(a) = listed[a].advisory
           /\ \E n \in DOMAIN page.items :
                page.items[n].isLatest /\ ContentAt(a, page.items[n].commit) = CurrentContent(a)

=============================================================================
