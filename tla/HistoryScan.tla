---------------------------- MODULE HistoryScan ----------------------------
(***************************************************************************)
(* Reading the history that SnapshotCommit writes: the changed paths since *)
(* a commit (scan_changes of storage/git_processing.rs), the versions of   *)
(* the advisories (collect_versions of storage/git_repo.rs), and the tree  *)
(* comparison both share (storage/git_changes.rs), which skips equal       *)
(* directories and remembers a bounded number of earlier results.          *)
(*                                                                         *)
(* Paths are sequences of names here: a directory is a prefix.  Commits    *)
(* never change, so a scan is a function of the history.                   *)
(***************************************************************************)
EXTENDS SnapshotCommit, SequencesExt

CONSTANTS
  CacheEntries,   \* CACHE_ENTRIES
  CacheMaxDeltas  \* CACHE_MAX_DELTAS

ASSUME CacheAssumption == CacheEntries \in Nat \ {0} /\ CacheMaxDeltas \in Nat

Names == UNION {ToSet(p) : p \in Paths}

\* In a tree no file is a directory as well.
Apart(t) == \A p, q \in Files(t) : ~IsStrictPrefix(p, q)

\* That is what "collides" means of paths, and what git accepts.
ASSUME TreesAssumption ==
  /\ IsFiniteSet(Paths) /\ Paths # {}
  /\ Paths \subseteq Seq(Names) \ {<<>>}
  /\ \A p, q \in Paths : IsStrictPrefix(p, q) => q \in Collides[p]
  /\ \A h \in Histories : \A i \in DOMAIN h : Apart(h[i].tree)
  /\ \A t \in Pushes : Apart(t)

-----------------------------------------------------------------------------
(* Comparing two trees *)

Directories == UNION {{SubSeq(p, 1, n) : n \in 0 .. Len(p) - 1} : p \in Paths}
Below(d)    == {p \in Paths : IsStrictPrefix(d, p)}
Entries(t, d) == {p[Len(d) + 1] : p \in Below(d) \cap Files(t)}
IsTree(t, d, name) == Below(Append(d, name)) \cap Files(t) # {}

\* What git identifies by an object id: everything at and below a path.
Object(t, q) == [p \in Below(q) \cup ({q} \cap Paths) |-> t[p]]

Status(old, new, p) ==
  IF old[p] = None THEN "added" ELSE IF new[p] = None THEN "deleted" ELSE "modified"

NativeDiff(old, new, d) ==
  {[status |-> Status(old, new, p), path |-> p, id |-> new[p]] :
     p \in {q \in Below(d) : old[q] # new[q]}}

\* Mutant: a level is compared as directories if the new tree has only those.
CompareNewSide(old, new) ==
  LET compare[d \in Directories] ==
        IF Object(old, d) = Object(new, d) THEN {}
        ELSE IF \E n \in Entries(new, d) : ~IsTree(new, d, n) THEN NativeDiff(old, new, d)
        ELSE UNION {compare[Append(d, n)] :
                      n \in {m \in Entries(new, d) : Append(d, m) \in Directories}}
  IN compare[<<>>]

\* Directories are descended into as long as there are no files beside them.
Compare(old, new) ==
  LET Mixed(d) == \/ \E n \in Entries(old, d) : ~IsTree(old, d, n)
                  \/ \E n \in Entries(new, d) : ~IsTree(new, d, n)
      compare[d \in Directories] ==
        IF Object(old, d) = Object(new, d) THEN {}
        ELSE IF Mixed(d) THEN NativeDiff(old, new, d)
        ELSE UNION {compare[Append(d, n)] : n \in Entries(old, d) \cup Entries(new, d)}
  IN compare[<<>>]

-----------------------------------------------------------------------------
(* The cache: the most recently used comparisons, the last one at the end *)

Position(cache, old, new) == {i \in DOMAIN cache : cache[i].old = old /\ cache[i].new = new}

Retain(cache, entry) ==
  Append(IF Len(cache) = CacheEntries THEN Tail(cache) ELSE cache, entry)

\* Mutant: an oversized comparison is emptied, and retained.
VisitEmptied(cache, old, new) ==
  LET hit == Position(cache, old, new) IN
  IF hit # {}
    THEN LET i == CHOOSE i \in hit : TRUE IN
         [deltas |-> cache[i].deltas, cache |-> Append(RemoveAt(cache, i), cache[i])]
    ELSE LET deltas == Compare(old, new)
             few == IF Cardinality(deltas) <= CacheMaxDeltas THEN deltas ELSE {}
         IN [deltas |-> deltas,
             cache |-> Retain(cache, [old |-> old, new |-> new, deltas |-> few])]

Visit(cache, old, new) ==
  LET hit == Position(cache, old, new) IN
  IF hit # {}
    THEN LET i == CHOOSE i \in hit : TRUE IN
         [deltas |-> cache[i].deltas, cache |-> Append(RemoveAt(cache, i), cache[i])]
    ELSE LET deltas == Compare(old, new) IN
         [deltas |-> deltas,
          cache |-> IF Cardinality(deltas) <= CacheMaxDeltas
                      THEN Retain(cache, [old |-> old, new |-> new, deltas |-> deltas])
                      ELSE cache]

-----------------------------------------------------------------------------
(* The two scans *)

First(i)  == IF commits[i].parents = <<>> THEN 0 ELSE commits[i].parents[1]
Linear(i) == Len(commits[i].parents) = 1

\* The commits from h back to the one after until, along first parents.
Chain(h, until) ==
  LET chain[i \in 0 .. h] == IF i \in {0, until} THEN <<>> ELSE <<i>> \o chain[First(i)]
  IN chain[h]

\* The comparisons of a sequence of commits, with one cache for all of them.
Diffs(sequence) ==
  LET scan[n \in 0 .. Len(sequence)] ==
        IF n = 0 THEN [cache |-> <<>>, diffs |-> <<>>]
        ELSE LET before == scan[n - 1]
                 i      == sequence[n]
                 v      == Visit(before.cache, TreeAt(First(i)), TreeAt(i)) IN
             [cache |-> v.cache, diffs |-> Append(before.diffs, v.deltas)]
  IN scan[Len(sequence)].diffs

\* Mutant: the root commit has no parent and is taken for the end of the scan.
ScanChangesToRoot(h, previous) ==
  LET chain == Chain(h, previous)
      single == SelectSeq(chain, Linear)
  IN IF \E i \in ToSet(chain) : Len(commits[i].parents) > 1
       THEN [baseline |-> TRUE, paths |-> {}]
       ELSE [baseline |-> FALSE,
             paths |-> {delta.path : delta \in UNION ToSet(Diffs(single))}]

\* A merge or a root before the previous commit makes the scan a baseline.
ScanChanges(h, previous) ==
  LET chain == Chain(h, previous)
  IN IF \E i \in ToSet(chain) : ~Linear(i)
       THEN [baseline |-> TRUE, paths |-> {}]
       ELSE [baseline |-> FALSE,
             paths |-> {delta.path : delta \in UNION ToSet(Diffs(chain))}]

\* Oldest first: the advisories each commit adds or modifies.
CollectVersions(h, since) ==
  LET chain == Reverse(Chain(h, since))
      diffs == Diffs(chain)
  IN UNION {{<<chain[n], delta.path, delta.id>> :
               delta \in {x \in diffs[n] : x.status # "deleted" /\ x.path \in Advisories}} :
            n \in DOMAIN chain}

-----------------------------------------------------------------------------
Newest == Len(commits)

Linearly(previous, h) ==
  LET linear[i \in 0 .. h] == i = previous \/ (i # 0 /\ Linear(i) /\ linear[First(i)])
  IN linear[h]

\* An incremental scan reports every path that differs in any commit since the
\* checkpoint, also those that were reverted later, and asks for a baseline
\* exactly if the checkpoint is no ancestor along a line without merges: no
\* skipped directory and no cached comparison hides a change (scan_changes).
ChangesFound ==
  step = "idle" /\ Newest # 0 =>
    \A previous \in 1 .. Newest :
      LET scan == ScanChanges(Newest, previous) IN
      /\ scan.baseline = ~Linearly(previous, Newest)
      /\ ~scan.baseline =>
           scan.paths = {p \in Paths : \E i \in ToSet(Chain(Newest, previous)) :
                           TreeAt(i)[p] # TreeAt(First(i))[p]}

\* The versions recorded of an advisory are its changes of content along the
\* first parents, reverts and additions after a deletion included, whatever
\* commit the recording starts after (collect_versions).
VersionsFound ==
  step = "idle" /\ Newest # 0 =>
    \A since \in 0 .. Newest :
      CollectVersions(Newest, since) =
        {v \in ToSet(Chain(Newest, since)) \X Advisories \X Contents :
           /\ TreeAt(v[1])[v[2]] = v[3]
           /\ TreeAt(First(v[1]))[v[2]] # v[3]}

\* Both scans find in any history exactly what changed in it.
HistoryFound == ChangesFound /\ VersionsFound

=============================================================================
