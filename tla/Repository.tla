----------------------------- MODULE Repository -----------------------------
(***************************************************************************)
(* What the git snapshot store promises (storage/git_repo.rs).             *)
(*                                                                         *)
(* A provider's mirror is a bare repository that others push to as well.   *)
(* A sync collects files and publishes them at one moment: as one commit   *)
(* on top of what its branch holds at that moment, with the files it did   *)
(* not collect taken over unchanged, or not at all.                        *)
(***************************************************************************)
EXTENDS Naturals, Sequences

CONSTANTS
  Paths,      \* files of a snapshot
  Contents,   \* contents of a file
  None,       \* no such file
  Branches,   \* local branches
  Detached,   \* HEAD names a commit or something else that is no branch
  Keys,       \* the files below metadata/keys
  Sidecars,   \* the .asc, .sha256 and .sha512 files of each advisory
  Collides,   \* paths that cannot exist together with a path: a/b and a
  Histories   \* commits that may have been made before

Tree   == [Paths -> Contents \cup {None}]
Commit == [tree : Tree, parents : Seq(Nat), by : {"csaf-trove", "other"}]
Got    == [files : Tree, keys : BOOLEAN]      \* keys: a key set was fetched

NoFiles  == [p \in Paths |-> None]
Nothing  == [files |-> NoFiles, keys |-> FALSE]
Files(t) == {p \in Paths : t[p] # None}

VARIABLES
  head,     \* the branch HEAD names
  refs,     \* the commit each branch names, 0 if it does not exist
  commits,  \* every commit published so far
  got       \* what the sync that is under way has fetched

vars == <<head, refs, commits, got>>

TreeAt(i) == IF i = 0 THEN NoFiles ELSE commits[i].tree
Parents(i) == IF i = 0 THEN <<>> ELSE <<i>>
Exist     == {b \in Branches : refs[b] # 0}

\* A downloaded advisory drops the sidecars it no longer has; a downloaded key
\* set drops the keys it no longer has.
Replaced(g) ==
  {p \in Paths : \/ p \in Keys /\ g.keys
                 \/ \E q \in Files(g.files) : p \in Sidecars[q] \cup Collides[q]}

Overlay(t, g) ==
  [p \in Paths |-> IF g.files[p] # None THEN g.files[p]
                   ELSE IF p \in Replaced(g) THEN None
                   ELSE t[p]]

Init ==
  /\ commits \in Histories
  /\ head \in Branches \cup {Detached}
  /\ \E b \in Branches :
       refs = [c \in Branches |-> IF c = b THEN Len(commits) ELSE 0]
  /\ got = Nothing

Fetch ==
  /\ got' \in Got
  /\ UNCHANGED <<head, refs, commits>>

\* A sync begins with nothing.  HEAD is repaired if it names no branch although
\* there is one.
Begin ==
  /\ got' = Nothing
  /\ head' = head \/ (head \in Branches \ Exist /\ head' \in Exist)
  /\ UNCHANGED <<refs, commits>>

Publish(b) ==
  LET tree == Overlay(TreeAt(refs[b]), got) IN
  /\ refs[b] = 0 \/ tree # TreeAt(refs[b])
  /\ commits' = Append(commits, [tree |-> tree, parents |-> Parents(refs[b]),
                                by |-> "csaf-trove"])
  /\ refs' = [refs EXCEPT ![b] = Len(commits) + 1]
  /\ UNCHANGED <<head, got>>

\* Somebody else pushes, moves or deletes a branch, or changes HEAD.
Others ==
  /\ head' \in Branches \cup {Detached}
  /\ \/ UNCHANGED commits
     \/ /\ Len(commits') = Len(commits) + 1
        /\ SubSeq(commits', 1, Len(commits)) = commits
        /\ commits'[Len(commits')].by = "other"
  /\ \/ UNCHANGED refs
     \/ \E b \in Branches, i \in 0 .. Len(commits') : refs' = [refs EXCEPT ![b] = i]
  /\ UNCHANGED got

Next ==
  \/ Begin \/ Fetch \/ Others
  \/ \E b \in Branches : Publish(b)

Spec == Init /\ [][Next]_vars
=============================================================================
