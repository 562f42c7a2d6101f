--------------------------- MODULE PreparedFiles ---------------------------
(***************************************************************************)
(* How the files of a commit reach the validation: process_snapshot empties *)
(* the directory "validation" and writes the selected files of one commit  *)
(* into it (storage/git_processing.rs, path_set.rs, scratch.rs); a thread  *)
(* walks the directory and sends what it finds through a bounded queue     *)
(* (pipeline/source.rs), and each advisory is then read with the sidecars  *)
(* that lie beside it (pipeline/validate.rs).                              *)
(*                                                                         *)
(* What is selected, and what a validation makes of it, is in Processing.  *)
(***************************************************************************)
EXTENDS Naturals, Sequences, FiniteSets

CONSTANTS
  Paths,      \* paths of advisories, as numbers: that is how they are ordered
  Blobs,      \* contents of files
  Absent,     \* no file
  PathBatch,  \* PATH_BATCH
  QueueSize,  \* capacity of the queue between thread and validation
  MaxPasses   \* bound: validations started

ASSUME PathsAssumption ==
  /\ Paths \subseteq Nat \ {0} /\ IsFiniteSet(Paths)
  /\ PathBatch \in Nat \ {0} /\ QueueSize \in Nat \ {0} /\ MaxPasses \in Nat
  /\ Absent \notin Blobs

\* An advisory, and one of its sidecars (.asc, .sha256 or .sha512).
Names == Paths \X {"json", "asc"}

VARIABLES
  committed,  \* the tree of the commit that is being validated
  prepared,   \* the directory "validation"
  step,       \* of the job
  selection,  \* ProcessingSelection.full and .advisories
  page,       \* cursor, and the files of the page that are left to write
  documents,  \* advisories written so far
  walker,     \* what the thread has not sent yet
  queue,      \* the channel
  visited,    \* what was validated, as it was read
  passes      \* validations started so far

preparedVars == <<committed, prepared, step, selection, page, documents, walker, queue,
                  visited, passes>>

Disk == [Names -> Blobs \cup {Absent}]
Visit == [path : Paths, json : Blobs, asc : Blobs \cup {Absent}]

Empty == [n \in Names |-> Absent]
NoSelection == [full |-> FALSE, advisories |-> {}]

PreparedTypeOK ==
  /\ committed \in Disk /\ prepared \in Disk
  /\ step \in {"idle", "clean", "count", "extract", "walk", "validated"}
  /\ selection \in [full : BOOLEAN, advisories : SUBSET Paths]
  /\ page \in [cursor : Paths \cup {0}, left : SUBSET Names]
  /\ documents \in Nat
  /\ walker \subseteq Paths /\ queue \in Seq(Paths) /\ Len(queue) <= QueueSize
  /\ visited \in Seq(Visit)
  /\ passes \in 0 .. MaxPasses

PreparedInit ==
  /\ committed = Empty /\ prepared = Empty
  /\ step = "idle" /\ selection = NoSelection
  /\ page = [cursor |-> 0, left |-> {}] /\ documents = 0
  /\ walker = {} /\ queue = <<>> /\ visited = <<>> /\ passes = 0

AdvisoriesOf(tree) == {p \in Paths : tree[<<p, "json">>] # Absent}
FilesOf(tree) == {n \in Names : tree[n] # Absent}

-----------------------------------------------------------------------------
(* process_snapshot *)

\* Some commit and some selection.  An advisory whose file was found in the
\* downloads may be selected and not be in the commit.  A sync has emptied the
\* scratch directory, and "validation" in it; a revalidation has not.
BeginPass ==
  /\ step \in {"idle", "validated"} /\ passes < MaxPasses
  /\ step' = "clean"
  /\ committed' \in Disk
  /\ \/ selection' = [full |-> TRUE, advisories |-> {}]
     \/ \E advisories \in (SUBSET Paths) \ {{}} :
          selection' = [full |-> FALSE, advisories |-> advisories]
  /\ prepared' \in {prepared, Empty}
  /\ passes' = passes + 1
  /\ visited' = <<>> /\ documents' = 0
  /\ UNCHANGED <<page, walker, queue>>

\* Mutant: what an earlier validation has left is only written over.
CleanNothing ==
  /\ step = "clean" /\ step' = "count"
  /\ UNCHANGED <<committed, prepared, selection, page, documents, walker, queue, visited, passes>>

CleanValidationFiles ==
  /\ step = "clean" /\ step' = "count"
  /\ prepared' = Empty
  /\ UNCHANGED <<committed, selection, page, documents, walker, queue, visited, passes>>

\* materialize_processing_with_progress visits everything twice: it counts first.
CountFiles ==
  /\ step = "count" /\ step' = "extract"
  /\ selection.advisories \subseteq AdvisoriesOf(committed)
  /\ page' = [cursor |-> 0, left |-> IF selection.full THEN FilesOf(committed) ELSE {}]
  /\ UNCHANGED <<committed, prepared, selection, documents, walker, queue, visited, passes>>

\* A page of the selection: the first paths after the cursor, in order.
After(cursor) ==
  {p \in selection.advisories :
     /\ p > cursor
     /\ Cardinality({q \in selection.advisories : cursor < q /\ q < p}) < PathBatch}

NextPage ==
  /\ step = "extract" /\ ~selection.full /\ page.left = {}
  /\ After(page.cursor) # {}
  /\ page' = [cursor |-> CHOOSE p \in After(page.cursor) : \A q \in After(page.cursor) : q <= p,
              left |-> {n \in FilesOf(committed) : n[1] \in After(page.cursor)}]
  /\ UNCHANGED <<committed, prepared, step, selection, documents, walker, queue, visited, passes>>

\* The order is the tree's or the page's; no two writes touch one file.
ExtractFile ==
  /\ step = "extract"
  /\ \E n \in page.left :
       /\ prepared' = [prepared EXCEPT ![n] = committed[n]]
       /\ page' = [page EXCEPT !.left = @ \ {n}]
       /\ documents' = IF n[2] = "json" THEN documents + 1 ELSE documents
  /\ UNCHANGED <<committed, step, selection, walker, queue, visited, passes>>

\* Nothing to validate, or the walk begins: the thread reads the directory.
Extracted ==
  /\ step = "extract" /\ page.left = {}
  /\ selection.full \/ After(page.cursor) = {}
  /\ step' = IF documents = 0 THEN "idle" ELSE "walk"
  /\ walker' = IF documents = 0 THEN {} ELSE AdvisoriesOf(prepared)
  /\ UNCHANGED <<committed, prepared, selection, page, documents, queue, visited, passes>>

-----------------------------------------------------------------------------
(* walk_distribution and walk_prepared *)

\* The directory is read in whatever order the file system has.
Send ==
  /\ step = "walk" /\ Len(queue) < QueueSize
  /\ \E p \in walker : walker' = walker \ {p} /\ queue' = Append(queue, p)
  /\ UNCHANGED <<committed, prepared, step, selection, page, documents, visited, passes>>

\* load_advisory reads the file and its sidecars; the result is stored.
VisitAdvisory ==
  /\ step = "walk" /\ queue # <<>>
  /\ visited' = Append(visited, [path |-> Head(queue),
                                 json |-> prepared[<<Head(queue), "json">>],
                                 asc  |-> prepared[<<Head(queue), "asc">>]])
  /\ queue' = Tail(queue)
  /\ UNCHANGED <<committed, prepared, step, selection, page, documents, walker, passes>>

\* The thread has hung up.  validate_provider compares the counts.
WalkEnds ==
  /\ step = "walk" /\ walker = {} /\ queue = <<>>
  /\ step' = IF Len(visited) = documents THEN "validated" ELSE "idle"
  /\ UNCHANGED <<committed, prepared, selection, page, documents, walker, queue, visited, passes>>

\* An error, a crash: the receiver is gone and the thread ends with it; the
\* directory stays as it is, at worst with a file that is half written.
PassFails ==
  /\ step \notin {"idle", "validated"}
  /\ step' = "idle"
  /\ \/ UNCHANGED prepared
     \/ /\ step = "extract"
        /\ \E n \in page.left, b \in Blobs : prepared' = [prepared EXCEPT ![n] = b]
  /\ walker' = {} /\ queue' = <<>> /\ visited' = <<>>
  /\ page' = [cursor |-> 0, left |-> {}]
  /\ UNCHANGED <<committed, selection, documents, passes>>

\* The job is over: cleanup_worktree removes the scratch directory if it can.
CleanupWorktree ==
  /\ step \in {"idle", "validated"}
  /\ prepared' = Empty
  /\ UNCHANGED <<committed, step, selection, page, documents, walker, queue, visited, passes>>

PreparedNext ==
  \/ BeginPass \/ CleanValidationFiles \/ CountFiles \/ NextPage \/ ExtractFile \/ Extracted
  \/ Send \/ VisitAdvisory \/ WalkEnds \/ PassFails \/ CleanupWorktree

PreparedSpec == PreparedInit /\ [][PreparedNext]_preparedVars

-----------------------------------------------------------------------------

\* What a validation of the selected commit has to read.
Demanded ==
  {[path |-> p, json |-> committed[<<p, "json">>], asc |-> committed[<<p, "asc">>]] :
     p \in IF selection.full THEN AdvisoriesOf(committed) ELSE selection.advisories}

\* Every advisory is validated as it is in the selected commit, with exactly
\* the sidecars it has there, and none twice; when the validation succeeds, it
\* has read all that were selected, page by page, whatever earlier jobs have
\* left in the directory (process_snapshot, walk_prepared, validate_provider).
InputsExact ==
  /\ \A i \in DOMAIN visited : visited[i] \in Demanded
  /\ \A i, j \in DOMAIN visited : visited[i].path = visited[j].path => i = j
  /\ step = "validated" => Cardinality(Demanded) = Len(visited)

=============================================================================
