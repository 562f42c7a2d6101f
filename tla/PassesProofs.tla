----------------------------- MODULE PassesProofs -----------------------------
(***************************************************************************)
(* Proofs about what lies at the two ends of a pass of the processing: its *)
(* inputs are the documents of the commit, the trends compare with the     *)
(* entries that were written, a provider's pages show what its jobs have   *)
(* computed, a network is let through as often as its budget says, the     *)
(* dashboard shows the document of its URL and the numbers of its pages;   *)
(* and all of this, with what ProcessingProofs says of the rows, holds of  *)
(* their composition.                                                      *)
(***************************************************************************)
EXTENDS MCPasses, ProcessingProofs,
        Integers, SequenceTheorems, FiniteSetTheorems, WellFoundedInduction, TLAPS

-----------------------------------------------------------------------------
(* PreparedFiles *)

\* The files that are on their way: all of the commit, or those of the pages so far.
Reached(p) == selection.full \/ (p \in selection.advisories /\ p <= page.cursor)

Written == {n \in FilesOf(committed) : Reached(n[1])} \ page.left

Chosen == {n \in FilesOf(committed) : selection.full \/ n[1] \in selection.advisories}

ChosenAdvisories == IF selection.full THEN AdvisoriesOf(committed) ELSE selection.advisories

\* The directory holds these files as they are in the commit, and no others.
Exactly(names) == prepared = [n \in Names |-> IF n \in names THEN committed[n] ELSE Absent]

SelectionInv ==
  /\ step # "walk" => walker = {} /\ queue = <<>>
  /\ step \in {"clean", "count"} => documents = 0 /\ visited = <<>>
  /\ step = "count" => prepared = Empty
  /\ step \in {"extract", "walk"} => selection.advisories \subseteq AdvisoriesOf(committed)

ExtractInv ==
  step = "extract" =>
    /\ visited = <<>>
    /\ page.left \subseteq {n \in FilesOf(committed) : Reached(n[1])}
    /\ Exactly(Written)
    /\ documents = Cardinality(AdvisoriesOf(prepared))

WalkInv == step = "walk" => Exactly(Chosen) /\ documents = Cardinality(ChosenAdvisories)

\* Every advisory of A is in one place: not sent, in the queue or visited.
Once(w, q, v, A, D) ==
  /\ w \subseteq A
  /\ \A k \in 1 .. Len(q) : q[k] \in A /\ q[k] \notin w
  /\ \A k, l \in 1 .. Len(q) : q[k] = q[l] => k = l
  /\ \A i \in 1 .. Len(v) : v[i] \in D /\ v[i].path \notin w
  /\ \A i \in 1 .. Len(v), k \in 1 .. Len(q) : v[i].path # q[k]
  /\ \A i, j \in 1 .. Len(v) : v[i].path = v[j].path => i = j

OnceInv == Once(walker, queue, visited, ChosenAdvisories, Demanded)

DoneInv == step = "validated" => Len(visited) = Cardinality(Demanded)

PreparedInv == PreparedTypeOK /\ SelectionInv /\ ExtractInv /\ WalkInv /\ OnceInv /\ DoneInv

-----------------------------------------------------------------------------

LEMMA SmallestMember ==
  ASSUME NEW S \in SUBSET Nat, S # {}
  PROVE  \E x \in S : \A y \in S : x <= y
<1>1. \E x \in S : \A y \in S : ~ (<<y, x>> \in OpToRel(<, Nat))
  BY NatLessThanWellFounded, WFMin, Zenon
<1>2. PICK x \in S : \A y \in S : ~ (<<y, x>> \in OpToRel(<, Nat))
  BY <1>1
<1>3. \A y \in S : ~ (y < x)
  BY <1>2 DEF OpToRel
<1>4. \A y \in S : x <= y
  BY <1>3
<1> QED
  BY <1>4

LEMMA LargestMember ==
  ASSUME NEW S \in SUBSET Nat, IsFiniteSet(S), S # {}
  PROVE  \E x \in S : \A y \in S : y <= x
<1> DEFINE above(p) == {q \in S : q > p}
           sizes    == {Cardinality(above(p)) : p \in S}
<1>1. \A p \in S : IsFiniteSet(above(p)) /\ Cardinality(above(p)) \in Nat
  BY FS_Subset, FS_CardinalityType
<1>2. PICK c \in sizes : \A d \in sizes : c <= d
  <2>1. sizes \in SUBSET Nat /\ sizes # {}
    BY <1>1
  <2> QED
    BY <2>1, SmallestMember
<1>3. PICK x \in S : Cardinality(above(x)) = c
  BY <1>2
<1>4. ASSUME NEW y \in S, y > x PROVE FALSE
  <2>1. above(y) \in SUBSET above(x) /\ y \in above(x) /\ y \notin above(y)
    <3>1. x \in Nat /\ y \in Nat /\ \A q \in S : q \in Nat
      OBVIOUS
    <3>2. \A q \in S : q > y => q > x
      BY <1>4, <3>1
    <3>3. ~(y > y)
      BY <3>1
    <3> QED
      BY <1>4, <3>2, <3>3
  <2>2. Cardinality(above(y)) <= Cardinality(above(x)) /\ Cardinality(above(y)) # Cardinality(above(x))
    BY <1>1, <2>1, FS_Subset
  <2>3. Cardinality(above(x)) <= Cardinality(above(y))
    BY <1>2, <1>3
  <2>4. Cardinality(above(x)) \in Nat /\ Cardinality(above(y)) \in Nat
    BY <1>1
  <2> HIDE DEF above
  <2> QED
    BY <2>2, <2>3, <2>4
<1>5. \A y \in S : y <= x
  BY <1>4
<1> QED
  BY <1>5

\* The first paths after the cursor, of a set of paths.
PageOf(A, c) == {p \in A : p > c /\ Cardinality({q \in A : c < q /\ q < p}) < PathBatch}

LEMMA SomePaths ==
  ASSUME NEW A \in SUBSET Paths
  PROVE  A \in SUBSET Nat /\ IsFiniteSet(A)
<1>1. IsFiniteSet(Paths) /\ Paths \subseteq Nat
  BY PathsAssumption
<1>2. IsFiniteSet(A)
  BY <1>1, FS_Subset, Zenon
<1> QED
  BY <1>1, <1>2

\* Pages leave nothing out, and end with the last path of the set.
LEMMA NextCursor ==
  ASSUME NEW A \in SUBSET Paths, NEW c \in Nat, NEW m, PageOf(A, c) # {},
         m = CHOOSE p \in PageOf(A, c) : \A q \in PageOf(A, c) : q <= p
  PROVE  m \in PageOf(A, c) /\ m \in Nat /\ \A p \in A : p <= m <=> p <= c \/ p \in PageOf(A, c)
<1> DEFINE between(p) == {q \in A : c < q /\ q < p}
<1>0. A \in SUBSET Nat /\ IsFiniteSet(A) /\ PathBatch \in Nat
  BY PathsAssumption, SomePaths
<1>1. PageOf(A, c) \in SUBSET Nat /\ IsFiniteSet(PageOf(A, c))
  <2>1. PageOf(A, c) \in SUBSET A
    BY DEF PageOf
  <2> QED
    BY <1>0, <2>1, FS_Subset
<1>2. \E x \in PageOf(A, c) : \A y \in PageOf(A, c) : y <= x
  BY <1>1, LargestMember
<1>3. m \in PageOf(A, c) /\ \A q \in PageOf(A, c) : q <= m
  BY <1>2
<1>4. ASSUME NEW p \in A, p <= m, p > c PROVE p \in PageOf(A, c)
  <2>1. IsFiniteSet(between(m)) /\ between(p) \in SUBSET between(m)
    <3>1. between(m) \in SUBSET A
      OBVIOUS
    <3>2. between(p) \in SUBSET between(m)
      <4>1. m \in Nat /\ p \in Nat /\ \A q \in A : q \in Nat
        BY <1>0, <1>1, <1>3
      <4>2. \A q \in A : q < p => q < m
        BY <1>4, <4>1
      <4> QED
        BY <4>2
    <3> QED
      BY <1>0, <3>1, <3>2, FS_Subset
  <2>2. Cardinality(between(p)) <= Cardinality(between(m)) /\ Cardinality(between(m)) \in Nat
        /\ Cardinality(between(p)) \in Nat
    BY <2>1, FS_Subset, FS_CardinalityType
  <2>3. Cardinality(between(m)) < PathBatch
    BY <1>3 DEF PageOf
  <2>4. Cardinality(between(p)) < PathBatch
    BY <1>0, <2>2, <2>3
  <2> QED
    BY <1>4, <2>4 DEF PageOf
<1>5. ASSUME NEW p \in A, p <= c PROVE p <= m
  <2>1. m \in Nat /\ p \in Nat /\ m > c
    BY <1>0, <1>1, <1>3 DEF PageOf
  <2> QED
    BY <1>5, <2>1
<1>6. \A p \in A : p <= c \/ p > c
  BY <1>0
<1> QED
  BY <1>1, <1>3, <1>4, <1>5, <1>6

\* The last page is empty.
LEMMA LastCursor ==
  ASSUME NEW A \in SUBSET Paths, NEW c \in Nat, PageOf(A, c) = {}
  PROVE  \A p \in A : p <= c
<1> DEFINE rest == {p \in A : p > c}
<1>0. A \in SUBSET Nat /\ PathBatch \in Nat \ {0}
  BY PathsAssumption
<1>1. CASE rest # {}
  <2>1. PICK p \in rest : \A q \in rest : p <= q
    BY <1>0, <1>1, SmallestMember
  <2>2. {q \in A : c < q /\ q < p} = {}
    <3>1. p \in Nat /\ \A q \in A : q \in Nat
      BY <1>0
    <3>2. \A q \in A : ~(c < q /\ q < p)
      BY <2>1, <3>1
    <3> QED
      BY <3>2
  <2>3. Cardinality({q \in A : c < q /\ q < p}) < PathBatch
    BY <1>0, <2>2, FS_EmptySet
  <2>4. p \in PageOf(A, c)
    BY <2>1, <2>3 DEF PageOf
  <2> QED
    BY <2>4
<1>2. CASE rest = {}
  BY <1>0, <1>2
<1> QED
  BY <1>1, <1>2

\* An advisory is sent.
LEMMA OnceSent ==
  ASSUME NEW w \in SUBSET Paths, NEW q \in Seq(Paths), NEW v, NEW A, NEW D,
         Once(w, q, v, A, D), NEW p \in w
  PROVE  Once(w \ {p}, Append(q, p), v, A, D)
<1> DEFINE n == Len(q)
           a == Append(q, p)
<1>1. n \in Nat /\ Len(a) = n + 1 /\ a[n + 1] = p /\ \A k \in 1 .. n : a[k] = q[k]
  <2>1. p \in Paths
    OBVIOUS
  <2> QED
    BY <2>1, LenProperties, AppendProperties
<1>2. \A k \in 1 .. n + 1 : k \in 1 .. n \/ k = n + 1
  BY <1>1
<1>3. /\ w \subseteq A
      /\ \A k \in 1 .. n : q[k] \in A /\ q[k] \notin w
      /\ \A k, l \in 1 .. n : q[k] = q[l] => k = l
      /\ \A i \in 1 .. Len(v) : v[i] \in D /\ v[i].path \notin w
      /\ \A i \in 1 .. Len(v), k \in 1 .. n : v[i].path # q[k]
      /\ \A i, j \in 1 .. Len(v) : v[i].path = v[j].path => i = j
  BY DEF Once
<1> HIDE DEF n, a
<1>4. \A k \in 1 .. n + 1 : a[k] \in A /\ a[k] \notin w \ {p}
  BY <1>1, <1>2, <1>3
<1>5. \A k, l \in 1 .. n + 1 : a[k] = a[l] => k = l
  BY <1>1, <1>2, <1>3
<1>6. \A i \in 1 .. Len(v), k \in 1 .. n + 1 : v[i].path # a[k]
  BY <1>1, <1>2, <1>3
<1>7. Once(w \ {p}, a, v, A, D)
  BY <1>1, <1>3, <1>4, <1>5, <1>6 DEF Once
<1> QED
  BY <1>7 DEF a

\* An advisory is visited.
LEMMA OnceVisited ==
  ASSUME NEW w \in SUBSET Paths, NEW q \in Seq(Paths), NEW v \in Seq(Visit), NEW A, NEW D,
         Once(w, q, v, A, D), q # <<>>, NEW r \in Visit, r \in D, r.path = Head(q)
  PROVE  Once(w, Tail(q), Append(v, r), A, D)
<1> DEFINE n == Len(q)
           m == Len(v)
           t == Tail(q)
           a == Append(v, r)
<1>1. /\ n \in Nat \ {0} /\ Len(t) = n - 1 /\ r.path = q[1]
      /\ \A k \in 1 .. n - 1 : t[k] = q[k + 1]
  BY EmptySeq, HeadTailProperties
<1>2. m \in Nat /\ Len(a) = m + 1 /\ a[m + 1] = r /\ \A i \in 1 .. m : a[i] = v[i]
  BY LenProperties, AppendProperties
<1>3. /\ w \subseteq A
      /\ \A k \in 1 .. n : q[k] \in A /\ q[k] \notin w
      /\ \A k, l \in 1 .. n : q[k] = q[l] => k = l
      /\ \A i \in 1 .. m : v[i] \in D /\ v[i].path \notin w
      /\ \A i \in 1 .. m, k \in 1 .. n : v[i].path # q[k]
      /\ \A i, j \in 1 .. m : v[i].path = v[j].path => i = j
  BY DEF Once
<1>4. \A i \in 1 .. m + 1 : i \in 1 .. m \/ i = m + 1
  BY <1>2
<1> HIDE DEF n, m, t, a
<1>5. 1 \in 1 .. n /\ \A k \in 1 .. n - 1 : k + 1 \in 1 .. n /\ k + 1 # 1
  BY <1>1
<1>6. \A k \in 1 .. n - 1 : t[k] \in A /\ t[k] \notin w /\ t[k] # q[1]
  BY <1>1, <1>3, <1>5
<1>7. ASSUME NEW k \in 1 .. n - 1, NEW l \in 1 .. n - 1, t[k] = t[l] PROVE k = l
  <2>1. k + 1 = l + 1
    BY <1>1, <1>3, <1>5, <1>7
  <2> QED
    BY <1>1, <2>1
<1>8. \A i \in 1 .. m + 1 : a[i] \in D /\ a[i].path \notin w
  BY <1>1, <1>2, <1>3, <1>4, <1>5
<1>9. ASSUME NEW i \in 1 .. m + 1, NEW k \in 1 .. n - 1 PROVE a[i].path # t[k]
  <2>1. CASE i \in 1 .. m
    <3>1. a[i] = v[i] /\ t[k] = q[k + 1] /\ k + 1 \in 1 .. n
      BY <1>1, <1>2, <1>5, <2>1
    <3>2. PICK l \in 1 .. n : t[k] = q[l]
      BY <3>1
    <3> QED
      BY <1>3, <2>1, <3>1, <3>2
  <2>2. CASE i = m + 1
    BY <1>1, <1>2, <1>6, <2>2
  <2> QED
    BY <1>4, <2>1, <2>2
<1>10. \A i, j \in 1 .. m + 1 : a[i].path = a[j].path => i = j
  BY <1>1, <1>2, <1>3, <1>4, <1>5
<1>11. Once(w, t, a, A, D)
  BY <1>1, <1>2, <1>3, <1>6, <1>7, <1>8, <1>9, <1>10 DEF Once
<1> QED
  BY <1>11 DEF t, a

\* As many are demanded as are chosen.
LEMMA DemandedSize ==
  ASSUME PreparedTypeOK
  PROVE  IsFiniteSet(ChosenAdvisories) /\ Cardinality(Demanded) = Cardinality(ChosenAdvisories)
<1> DEFINE f == [p \in ChosenAdvisories |-> [path |-> p, json |-> committed[<<p, "json">>],
                                             asc |-> committed[<<p, "asc">>]]]
<1>1. ChosenAdvisories \in SUBSET Paths
  BY DEF PreparedTypeOK, ChosenAdvisories, AdvisoriesOf
<1>2. IsFiniteSet(ChosenAdvisories)
  BY <1>1, SomePaths
<1>3. Demanded = {f[p] : p \in ChosenAdvisories}
  BY DEF Demanded, ChosenAdvisories
<1>4. \A p \in ChosenAdvisories : f[p].path = p
  OBVIOUS
<1> HIDE DEF f
<1>5. f \in [ChosenAdvisories -> Demanded]
  BY <1>3 DEF f
<1>6. f \in Bijection(ChosenAdvisories, Demanded)
  BY <1>3, <1>4, <1>5 DEF Bijection, Injection, Surjection, IsInjective
<1>7. ExistsBijection(ChosenAdvisories, Demanded)
  BY <1>6 DEF ExistsBijection
<1> QED
  BY <1>2, <1>7, FS_Bijection, Zenon

\* What the validation finds of an advisory that was chosen.
LEMMA FoundAsCommitted ==
  ASSUME PreparedTypeOK, Exactly(Chosen), selection.advisories \subseteq AdvisoriesOf(committed)
  PROVE  /\ AdvisoriesOf(prepared) = ChosenAdvisories
         /\ \A p \in ChosenAdvisories :
              /\ prepared[<<p, "json">>] = committed[<<p, "json">>]
              /\ prepared[<<p, "asc">>] = committed[<<p, "asc">>]
              /\ committed[<<p, "json">>] # Absent
<1>1. \A n \in Names : prepared[n] = IF n \in Chosen THEN committed[n] ELSE Absent
  BY DEF Exactly
<1>2. \A p \in Paths : <<p, "json">> \in Names /\ <<p, "asc">> \in Names
                       /\ <<p, "json">>[1] = p /\ <<p, "asc">>[1] = p
  BY DEF Names
<1>3. \A n \in Names : n \in Chosen <=> /\ committed[n] # Absent
                                        /\ selection.full \/ n[1] \in selection.advisories
  BY DEF Chosen, FilesOf
<1>4. \A p \in Paths : p \in ChosenAdvisories <=>
        committed[<<p, "json">>] # Absent /\ (selection.full \/ p \in selection.advisories)
  BY DEF ChosenAdvisories, AdvisoriesOf
<1>5. ChosenAdvisories \subseteq Paths
  BY DEF PreparedTypeOK, ChosenAdvisories, AdvisoriesOf
<1>6. \A p \in Paths : prepared[<<p, "json">>] # Absent <=> p \in ChosenAdvisories
  BY <1>1, <1>2, <1>3, <1>4
<1>7. AdvisoriesOf(prepared) = ChosenAdvisories
  BY <1>5, <1>6 DEF AdvisoriesOf
<1>8. ASSUME NEW p \in ChosenAdvisories
      PROVE  /\ prepared[<<p, "json">>] = committed[<<p, "json">>]
             /\ prepared[<<p, "asc">>] = committed[<<p, "asc">>]
             /\ committed[<<p, "json">>] # Absent
  <2>1. p \in Paths /\ committed[<<p, "json">>] # Absent
        /\ (selection.full \/ p \in selection.advisories)
    BY <1>4, <1>5
  <2> QED
    BY <1>1, <1>2, <1>3, <2>1
<1> QED
  BY <1>7, <1>8

LEMMA EmptyOnce ==
  ASSUME NEW A, NEW D
  PROVE  Once({}, <<>>, <<>>, A, D)
BY DEF Once

LEMMA PreparedInitially == PreparedInit => PreparedInv
<1> SUFFICES ASSUME PreparedInit PROVE PreparedInv
  OBVIOUS
<1>1. PreparedTypeOK
  BY PathsAssumption DEF PreparedInit, PreparedTypeOK, Empty, Disk, NoSelection
<1>2. SelectionInv /\ ExtractInv /\ WalkInv /\ DoneInv
  BY DEF PreparedInit, SelectionInv, ExtractInv, WalkInv, DoneInv
<1>3. OnceInv
  BY EmptyOnce DEF PreparedInit, OnceInv
<1> QED
  BY <1>1, <1>2, <1>3 DEF PreparedInv

LEMMA BeginPassKeeps ==
  ASSUME PreparedInv, BeginPass
  PROVE  PreparedInv'
<1>0. /\ PreparedTypeOK /\ SelectionInv /\ step \in {"idle", "validated"}
      /\ step' = "clean" /\ visited' = <<>> /\ documents' = 0
      /\ UNCHANGED <<page, walker, queue>>
  BY DEF PreparedInv, BeginPass
<1>1. PreparedTypeOK'
  <2>1. committed' \in Disk /\ prepared' \in Disk
    BY <1>0 DEF BeginPass, PreparedTypeOK, Empty, Disk
  <2>2. selection' \in [full : BOOLEAN, advisories : SUBSET Paths]
    <3>1. \/ selection' = [full |-> TRUE, advisories |-> {}]
          \/ \E advisories \in SUBSET Paths : selection' = [full |-> FALSE, advisories |-> advisories]
      BY DEF BeginPass
    <3>2. CASE selection' = [full |-> TRUE, advisories |-> {}]
      BY <3>2
    <3>3. ASSUME NEW A \in SUBSET Paths, selection' = [full |-> FALSE, advisories |-> A]
          PROVE  selection' \in [full : BOOLEAN, advisories : SUBSET Paths]
      BY <3>3
    <3> QED
      BY <3>1, <3>2, <3>3
  <2>3. passes' \in 0 .. MaxPasses
    BY <1>0, PathsAssumption DEF BeginPass, PreparedTypeOK
  <2> QED
    BY <1>0, <2>1, <2>2, <2>3 DEF PreparedTypeOK
<1>2. walker' = {} /\ queue' = <<>>
  BY <1>0 DEF SelectionInv
<1>3. SelectionInv' /\ ExtractInv' /\ WalkInv' /\ DoneInv'
  BY <1>0, <1>2 DEF SelectionInv, ExtractInv, WalkInv, DoneInv
<1>4. OnceInv'
  BY <1>0, <1>2, EmptyOnce DEF OnceInv
<1> QED
  BY <1>1, <1>3, <1>4 DEF PreparedInv

LEMMA CleanKeeps ==
  ASSUME PreparedInv, CleanValidationFiles
  PROVE  PreparedInv'
<1>0. /\ PreparedTypeOK /\ SelectionInv /\ OnceInv /\ step = "clean"
      /\ step' = "count" /\ prepared' = Empty
      /\ UNCHANGED <<committed, selection, page, documents, walker, queue, visited, passes>>
  BY DEF PreparedInv, CleanValidationFiles
<1>1. PreparedTypeOK'
  BY <1>0 DEF PreparedTypeOK, Empty, Disk
<1>2. SelectionInv' /\ ExtractInv' /\ WalkInv' /\ DoneInv'
  BY <1>0 DEF SelectionInv, ExtractInv, WalkInv, DoneInv
<1>3. ChosenAdvisories' = ChosenAdvisories /\ Demanded' = Demanded
  BY <1>0 DEF ChosenAdvisories, Demanded, AdvisoriesOf
<1>4. OnceInv'
  BY <1>0, <1>3 DEF OnceInv
<1> QED
  BY <1>1, <1>2, <1>4 DEF PreparedInv

LEMMA CountKeeps ==
  ASSUME PreparedInv, CountFiles
  PROVE  PreparedInv'
<1>0. /\ PreparedTypeOK /\ SelectionInv /\ OnceInv /\ step = "count"
      /\ step' = "extract" /\ prepared = Empty /\ documents = 0 /\ visited = <<>>
      /\ selection.advisories \subseteq AdvisoriesOf(committed)
      /\ page' = [cursor |-> 0, left |-> IF selection.full THEN FilesOf(committed) ELSE {}]
      /\ UNCHANGED <<committed, prepared, selection, documents, walker, queue, visited, passes>>
  BY DEF PreparedInv, CountFiles, SelectionInv
<1>1. PreparedTypeOK'
  <2>1. FilesOf(committed) \subseteq Names
    BY DEF FilesOf
  <2> QED
    BY <1>0, <2>1 DEF PreparedTypeOK
<1>2. SelectionInv' /\ WalkInv' /\ DoneInv'
  BY <1>0 DEF SelectionInv, WalkInv, DoneInv, AdvisoriesOf
<1>3. ExtractInv'
  <2>1. \A p \in selection.advisories : ~(p <= 0)
    BY <1>0, PathsAssumption DEF PreparedTypeOK
  <2>2. \A p : Reached(p)' <=> selection.full
    BY <1>0, <2>1 DEF Reached
  <2>3. FilesOf(committed)' = FilesOf(committed)
    BY <1>0 DEF FilesOf
  <2>4. Written' = {} /\ page'.left \subseteq {n \in FilesOf(committed)' : Reached(n[1])'}
    BY <1>0, <2>2, <2>3 DEF Written
  <2>5. Exactly(Written)'
    BY <1>0, <2>4 DEF Exactly, Empty
  <2>6. AdvisoriesOf(prepared)' = {}
    BY <1>0 DEF AdvisoriesOf, Empty, Names
  <2> QED
    BY <1>0, <2>4, <2>5, <2>6, FS_EmptySet DEF ExtractInv
<1>4. ChosenAdvisories' = ChosenAdvisories /\ Demanded' = Demanded
  BY <1>0 DEF ChosenAdvisories, Demanded, AdvisoriesOf
<1>5. OnceInv'
  BY <1>0, <1>4 DEF OnceInv
<1> QED
  BY <1>1, <1>2, <1>3, <1>5 DEF PreparedInv

LEMMA AfterIsPage ==
  ASSUME PreparedTypeOK
  PROVE  /\ selection.advisories \in SUBSET Paths /\ page.cursor \in Nat
         /\ After(page.cursor) = PageOf(selection.advisories, page.cursor)
<1>1. selection.advisories \in SUBSET Paths /\ page.cursor \in Paths \cup {0}
  BY DEF PreparedTypeOK
<1>2. page.cursor \in Nat
  <2>1. \A p \in Paths : p \in Nat
    BY PathsAssumption
  <2> QED
    BY <1>1, <2>1
<1>3. After(page.cursor) = PageOf(selection.advisories, page.cursor)
  BY Zenon DEF After, PageOf
<1> QED
  BY <1>1, <1>2, <1>3

LEMMA NextPageKeeps ==
  ASSUME PreparedInv, NextPage
  PROVE  PreparedInv'
<1> DEFINE A == selection.advisories
           c == page.cursor
           m == CHOOSE p \in After(c) : \A q \in After(c) : q <= p
<1>0. /\ PreparedTypeOK /\ SelectionInv /\ ExtractInv /\ OnceInv
      /\ step = "extract" /\ ~selection.full /\ page.left = {} /\ After(c) # {}
      /\ page' = [cursor |-> m, left |-> {n \in FilesOf(committed) : n[1] \in After(c)}]
      /\ UNCHANGED <<committed, prepared, step, selection, documents, walker, queue, visited, passes>>
  BY DEF PreparedInv, NextPage
<1>1. A \in SUBSET Paths /\ c \in Nat /\ After(c) = PageOf(A, c)
  BY <1>0, AfterIsPage
<1>2. m \in After(c) /\ m \in Nat /\ \A p \in A : p <= m <=> p <= c \/ p \in After(c)
  <2>1. PICK B \in SUBSET Paths, d \in Nat : B = A /\ d = c
    BY <1>1
  <2>2. PageOf(B, d) = After(c)
    BY <1>1, <2>1
  <2>3. PICK x : x = CHOOSE p \in PageOf(B, d) : \A q \in PageOf(B, d) : q <= p
    OBVIOUS
  <2>4. x \in PageOf(B, d) /\ x \in Nat /\ \A p \in B : p <= x <=> p <= d \/ p \in PageOf(B, d)
    BY <1>0, <2>2, <2>3, NextCursor
  <2>5. x = m
    BY <2>2, <2>3
  <2> QED
    BY <2>1, <2>2, <2>4, <2>5
<1>3. After(c) \subseteq A /\ \A p \in After(c) : ~(p <= c)
  <2>1. \A p \in PageOf(A, c) : p \in A /\ p > c
    BY DEF PageOf
  <2>2. \A p \in A : p \in Nat
    BY <1>1, PathsAssumption
  <2> QED
    BY <1>1, <2>1, <2>2
<1> HIDE DEF m
<1>4. PreparedTypeOK'
  <2>1. m \in Paths /\ FilesOf(committed) \subseteq Names
    BY <1>1, <1>2, <1>3 DEF FilesOf
  <2> QED
    BY <1>0, <2>1 DEF PreparedTypeOK
<1>5. SelectionInv' /\ WalkInv' /\ DoneInv'
  BY <1>0 DEF SelectionInv, WalkInv, DoneInv, AdvisoriesOf
<1>6. ExtractInv'
  <2>1. \A p : Reached(p) <=> p \in A /\ p <= c
    BY <1>0 DEF Reached
  <2>2. \A p : Reached(p)' <=> p \in A /\ p <= m
    BY <1>0 DEF Reached
  <2>3. FilesOf(committed)' = FilesOf(committed) /\ AdvisoriesOf(prepared)' = AdvisoriesOf(prepared)
    BY <1>0 DEF FilesOf, AdvisoriesOf
  <2>4. \A p : Reached(p)' <=> Reached(p) \/ p \in After(c)
    BY <1>2, <1>3, <2>1, <2>2
  <2>5. \A p : Reached(p) => p \notin After(c)
    BY <1>3, <2>1
  <2>6. page'.left = {n \in FilesOf(committed) : n[1] \in After(c)}
    BY <1>0
  <2>7. Written' = Written
    BY <1>0, <2>3, <2>4, <2>5, <2>6 DEF Written
  <2>8. page'.left \subseteq {n \in FilesOf(committed)' : Reached(n[1])'}
    BY <2>3, <2>4, <2>6
  <2> QED
    BY <1>0, <2>3, <2>7, <2>8 DEF ExtractInv, Exactly
<1>7. ChosenAdvisories' = ChosenAdvisories /\ Demanded' = Demanded
  BY <1>0 DEF ChosenAdvisories, Demanded, AdvisoriesOf
<1>8. OnceInv'
  BY <1>0, <1>7 DEF OnceInv
<1> QED
  BY <1>4, <1>5, <1>6, <1>8 DEF PreparedInv

LEMMA ExtractFileKeeps ==
  ASSUME PreparedInv, ExtractFile
  PROVE  PreparedInv'
<1>0. /\ PreparedTypeOK /\ SelectionInv /\ ExtractInv /\ OnceInv /\ step = "extract"
      /\ UNCHANGED <<committed, step, selection, walker, queue, visited, passes>>
  BY DEF PreparedInv, ExtractFile
<1>1. PICK n \in page.left :
        /\ prepared' = [prepared EXCEPT ![n] = committed[n]]
        /\ page' = [page EXCEPT !.left = @ \ {n}]
        /\ documents' = IF n[2] = "json" THEN documents + 1 ELSE documents
  BY DEF ExtractFile
<1>2. /\ page.left \subseteq {x \in FilesOf(committed) : Reached(x[1])}
      /\ Exactly(Written) /\ documents = Cardinality(AdvisoriesOf(prepared)) /\ visited = <<>>
      /\ page \in [cursor : Paths \cup {0}, left : SUBSET Names]
  BY <1>0 DEF ExtractInv, PreparedTypeOK
<1>3. /\ n \in Names /\ n \in FilesOf(committed) /\ Reached(n[1]) /\ n \notin Written
      /\ committed[n] \in Blobs \cup {Absent} /\ committed[n] # Absent
      /\ n[1] \in Paths /\ n[2] \in {"json", "asc"} /\ n = <<n[1], n[2]>>
  BY <1>0, <1>1, <1>2 DEF FilesOf, Written, PreparedTypeOK, Disk, Names
<1>4. page'.cursor = page.cursor /\ page'.left = page.left \ {n}
      /\ page' \in [cursor : Paths \cup {0}, left : SUBSET Names]
  BY <1>1, <1>2
<1>5. prepared[n] = Absent
  BY <1>2, <1>3 DEF Exactly
<1>6. PreparedTypeOK'
  <2>1. prepared' \in Disk /\ documents' \in Nat
    BY <1>0, <1>1, <1>3 DEF PreparedTypeOK, Disk
  <2> QED
    BY <1>0, <1>4, <2>1 DEF PreparedTypeOK
<1>7. SelectionInv' /\ WalkInv' /\ DoneInv'
  BY <1>0 DEF SelectionInv, WalkInv, DoneInv, AdvisoriesOf
<1>8. Exactly(Written)'
  <2>1. \A p : Reached(p)' <=> Reached(p)
    BY <1>0, <1>4 DEF Reached
  <2>2. FilesOf(committed)' = FilesOf(committed)
    BY <1>0 DEF FilesOf
  <2>3. Written' = Written \cup {n}
    BY <1>2, <1>3, <1>4, <2>1, <2>2 DEF Written
  <2>4. prepared' = [x \in Names |-> IF x \in Written \cup {n} THEN committed[x] ELSE Absent]
    BY <1>1, <1>2, <1>3 DEF Exactly
  <2> QED
    BY <1>0, <2>3, <2>4 DEF Exactly
<1>9. page'.left \subseteq {x \in FilesOf(committed)' : Reached(x[1])'}
  BY <1>0, <1>2, <1>4 DEF FilesOf, Reached
<1>10. documents' = Cardinality(AdvisoriesOf(prepared)')
  <2>1. AdvisoriesOf(prepared) \in SUBSET Paths
    BY DEF AdvisoriesOf
  <2>2. IsFiniteSet(AdvisoriesOf(prepared))
    BY <2>1, SomePaths
  <2>3. \A p \in Paths : <<p, "json">> \in Names /\ (<<p, "json">> = n <=> p = n[1] /\ n[2] = "json")
    BY <1>3 DEF Names
  <2>4. prepared \in Disk /\ \A p \in Paths : prepared'[<<p, "json">>] =
          IF p = n[1] /\ n[2] = "json" THEN committed[n] ELSE prepared[<<p, "json">>]
    BY <1>0, <1>1, <2>3 DEF PreparedTypeOK, Disk
  <2>5. CASE n[2] = "json"
    <3>1. n[1] \notin AdvisoriesOf(prepared)
      BY <1>3, <1>5, <2>5 DEF AdvisoriesOf
    <3>2. AdvisoriesOf(prepared)' = AdvisoriesOf(prepared) \cup {n[1]}
      BY <1>3, <2>4, <2>5 DEF AdvisoriesOf
    <3> QED
      BY <1>1, <1>2, <2>2, <2>5, <3>1, <3>2, FS_AddElement
  <2>6. CASE n[2] # "json"
    <3>1. AdvisoriesOf(prepared)' = AdvisoriesOf(prepared)
      BY <2>4, <2>6 DEF AdvisoriesOf
    <3> QED
      BY <1>1, <1>2, <2>6, <3>1
  <2> QED
    BY <2>5, <2>6
<1>11. ExtractInv'
  BY <1>0, <1>2, <1>8, <1>9, <1>10 DEF ExtractInv
<1>12. ChosenAdvisories' = ChosenAdvisories /\ Demanded' = Demanded
  BY <1>0 DEF ChosenAdvisories, Demanded, AdvisoriesOf
<1>13. OnceInv'
  BY <1>0, <1>12 DEF OnceInv
<1> QED
  BY <1>6, <1>7, <1>11, <1>13 DEF PreparedInv

LEMMA ExtractedKeeps ==
  ASSUME PreparedInv, Extracted
  PROVE  PreparedInv'
<1>0. /\ PreparedTypeOK /\ SelectionInv /\ ExtractInv /\ step = "extract" /\ page.left = {}
      /\ selection.full \/ After(page.cursor) = {}
      /\ step' = IF documents = 0 THEN "idle" ELSE "walk"
      /\ walker' = IF documents = 0 THEN {} ELSE AdvisoriesOf(prepared)
      /\ UNCHANGED <<committed, prepared, selection, page, documents, queue, visited, passes>>
  BY DEF PreparedInv, Extracted
<1>1. Written = Chosen
  <2>1. \A p \in Paths : Reached(p) <=> selection.full \/ p \in selection.advisories
    <3>1. CASE selection.full
      BY <3>1 DEF Reached
    <3>2. CASE ~selection.full
      <4>1. /\ selection.advisories \in SUBSET Paths /\ page.cursor \in Nat
            /\ PageOf(selection.advisories, page.cursor) = {}
        BY <1>0, <3>2, AfterIsPage
      <4>2. \A p \in selection.advisories : p <= page.cursor
        BY <4>1, LastCursor
      <4> QED
        BY <4>2 DEF Reached
    <3> QED
      BY <3>1, <3>2
  <2>2. \A n \in FilesOf(committed) : n[1] \in Paths
    BY DEF FilesOf, Names
  <2> QED
    BY <1>0, <2>1, <2>2 DEF Written, Chosen
<1>2. /\ Exactly(Chosen) /\ visited = <<>> /\ queue = <<>>
      /\ documents = Cardinality(AdvisoriesOf(prepared))
      /\ selection.advisories \subseteq AdvisoriesOf(committed)
  BY <1>0, <1>1 DEF ExtractInv, SelectionInv
<1>3. AdvisoriesOf(prepared) = ChosenAdvisories
  BY <1>0, <1>2, FoundAsCommitted
<1>4. PreparedTypeOK'
  <2>1. AdvisoriesOf(prepared) \subseteq Paths
    BY DEF AdvisoriesOf
  <2> QED
    BY <1>0, <2>1 DEF PreparedTypeOK
<1>5. SelectionInv' /\ ExtractInv' /\ DoneInv'
  BY <1>0, <1>2 DEF SelectionInv, ExtractInv, DoneInv, AdvisoriesOf
<1>6. ChosenAdvisories' = ChosenAdvisories /\ Chosen' = Chosen
  BY <1>0 DEF ChosenAdvisories, Chosen, AdvisoriesOf, FilesOf
<1>7. WalkInv'
  BY <1>0, <1>2, <1>3, <1>6 DEF WalkInv, Exactly
<1>8. OnceInv'
  <2>1. walker' \subseteq ChosenAdvisories
    BY <1>0, <1>3
  <2> QED
    BY <1>0, <1>2, <1>6, <2>1 DEF OnceInv, Once
<1> QED
  BY <1>4, <1>5, <1>7, <1>8 DEF PreparedInv

\* At a step of the walk the commit, the directory and the selection stay.
LEMMA WalkSame ==
  ASSUME UNCHANGED <<committed, prepared, selection, documents>>
  PROVE  /\ ChosenAdvisories' = ChosenAdvisories /\ Demanded' = Demanded
         /\ Exactly(Chosen)' <=> Exactly(Chosen)
         /\ AdvisoriesOf(committed)' = AdvisoriesOf(committed)
BY DEF ChosenAdvisories, Demanded, AdvisoriesOf, Exactly, Chosen, FilesOf

LEMMA SendKeeps ==
  ASSUME PreparedInv, Send
  PROVE  PreparedInv'
<1>0. /\ PreparedTypeOK /\ SelectionInv /\ WalkInv /\ OnceInv /\ step = "walk" /\ Len(queue) < QueueSize
      /\ UNCHANGED <<committed, prepared, step, selection, page, documents, visited, passes>>
      /\ walker \in SUBSET Paths /\ queue \in Seq(Paths)
  BY DEF PreparedInv, Send, PreparedTypeOK
<1>1. PICK p \in walker : walker' = walker \ {p} /\ queue' = Append(queue, p)
  BY DEF Send
<1>2. queue' \in Seq(Paths) /\ Len(queue') = Len(queue) + 1 /\ Len(queue) \in Nat
  BY <1>0, <1>1, AppendProperties, LenProperties
<1>3. PreparedTypeOK'
  BY <1>0, <1>1, <1>2, PathsAssumption DEF PreparedTypeOK
<1>4. SelectionInv' /\ ExtractInv' /\ WalkInv' /\ DoneInv'
  BY <1>0, WalkSame DEF SelectionInv, ExtractInv, WalkInv, DoneInv
<1>5. OnceInv'
  BY <1>0, <1>1, WalkSame, OnceSent DEF OnceInv
<1> QED
  BY <1>3, <1>4, <1>5 DEF PreparedInv

LEMMA VisitKeeps ==
  ASSUME PreparedInv, VisitAdvisory
  PROVE  PreparedInv'
<1> DEFINE r == [path |-> Head(queue), json |-> prepared[<<Head(queue), "json">>],
                 asc |-> prepared[<<Head(queue), "asc">>]]
<1>0. /\ PreparedTypeOK /\ SelectionInv /\ WalkInv /\ OnceInv /\ step = "walk" /\ queue # <<>>
      /\ visited' = Append(visited, r) /\ queue' = Tail(queue)
      /\ UNCHANGED <<committed, prepared, step, selection, page, documents, walker, passes>>
      /\ walker \in SUBSET Paths /\ queue \in Seq(Paths) /\ visited \in Seq(Visit)
  BY DEF PreparedInv, VisitAdvisory, PreparedTypeOK
<1>1. Head(queue) = queue[1] /\ 1 \in 1 .. Len(queue) /\ Head(queue) \in Paths
  BY <1>0, EmptySeq, HeadTailProperties
<1>2. Head(queue) \in ChosenAdvisories
  BY <1>0, <1>1 DEF OnceInv, Once
<1>3. /\ prepared[<<Head(queue), "json">>] = committed[<<Head(queue), "json">>]
      /\ prepared[<<Head(queue), "asc">>] = committed[<<Head(queue), "asc">>]
      /\ committed[<<Head(queue), "json">>] # Absent
  BY <1>0, <1>2, FoundAsCommitted DEF WalkInv, SelectionInv
<1>4. r \in Visit /\ r.path = Head(queue)
  BY <1>0, <1>1, <1>3 DEF Visit, PreparedTypeOK, Disk, Names
<1>5. r \in Demanded
  BY <1>2, <1>3 DEF Demanded, ChosenAdvisories
<1> HIDE DEF r
<1>6. /\ queue' \in Seq(Paths) /\ Len(queue') = Len(queue) - 1 /\ Len(queue) \in Nat
      /\ visited' \in Seq(Visit)
  BY <1>0, <1>4, HeadTailProperties, LenProperties, AppendProperties
<1>7. PreparedTypeOK'
  BY <1>0, <1>6, PathsAssumption DEF PreparedTypeOK
<1>8. SelectionInv' /\ ExtractInv' /\ WalkInv' /\ DoneInv'
  BY <1>0, WalkSame DEF SelectionInv, ExtractInv, WalkInv, DoneInv
<1>9. OnceInv'
  BY <1>0, <1>4, <1>5, WalkSame, OnceVisited DEF OnceInv
<1> QED
  BY <1>7, <1>8, <1>9 DEF PreparedInv

LEMMA WalkEndsKeeps ==
  ASSUME PreparedInv, WalkEnds
  PROVE  PreparedInv'
<1>0. /\ PreparedTypeOK /\ SelectionInv /\ WalkInv /\ OnceInv /\ step = "walk"
      /\ walker = {} /\ queue = <<>>
      /\ step' = IF Len(visited) = documents THEN "validated" ELSE "idle"
      /\ UNCHANGED <<committed, prepared, selection, page, documents, walker, queue, visited, passes>>
  BY DEF PreparedInv, WalkEnds
<1>1. PreparedTypeOK'
  BY <1>0 DEF PreparedTypeOK
<1>2. SelectionInv' /\ ExtractInv' /\ WalkInv'
  BY <1>0 DEF SelectionInv, ExtractInv, WalkInv
<1>3. DoneInv'
  BY <1>0, WalkSame, DemandedSize DEF DoneInv, WalkInv
<1>4. OnceInv'
  BY <1>0, WalkSame DEF OnceInv
<1> QED
  BY <1>1, <1>2, <1>3, <1>4 DEF PreparedInv

LEMMA PassFailsKeeps ==
  ASSUME PreparedInv, PassFails
  PROVE  PreparedInv'
<1>0. /\ PreparedTypeOK /\ step' = "idle"
      /\ walker' = {} /\ queue' = <<>> /\ visited' = <<>>
      /\ page' = [cursor |-> 0, left |-> {}]
      /\ UNCHANGED <<committed, selection, documents, passes>>
      /\ \/ UNCHANGED prepared
         \/ \E n \in page.left, b \in Blobs : prepared' = [prepared EXCEPT ![n] = b]
  BY DEF PreparedInv, PassFails
<1>1. PreparedTypeOK'
  <2>1. prepared' \in Disk
    BY <1>0 DEF PreparedTypeOK, Disk
  <2>2. Len(queue') = 0
    BY <1>0
  <2> QED
    BY <1>0, <2>1, <2>2, PathsAssumption DEF PreparedTypeOK
<1>2. SelectionInv' /\ ExtractInv' /\ WalkInv' /\ DoneInv'
  BY <1>0 DEF SelectionInv, ExtractInv, WalkInv, DoneInv
<1>3. OnceInv'
  BY <1>0, EmptyOnce DEF OnceInv
<1> QED
  BY <1>1, <1>2, <1>3 DEF PreparedInv

LEMMA CleanupKeeps ==
  ASSUME PreparedInv, CleanupWorktree
  PROVE  PreparedInv'
<1>0. /\ PreparedTypeOK /\ SelectionInv /\ OnceInv /\ DoneInv /\ step \in {"idle", "validated"}
      /\ prepared' = Empty
      /\ UNCHANGED <<committed, step, selection, page, documents, walker, queue, visited, passes>>
  BY DEF PreparedInv, CleanupWorktree
<1>1. PreparedTypeOK'
  BY <1>0 DEF PreparedTypeOK, Empty, Disk
<1>2. ChosenAdvisories' = ChosenAdvisories /\ Demanded' = Demanded
  BY <1>0 DEF ChosenAdvisories, Demanded, AdvisoriesOf
<1>3. SelectionInv' /\ ExtractInv' /\ WalkInv' /\ DoneInv' /\ OnceInv'
  BY <1>0, <1>2 DEF SelectionInv, ExtractInv, WalkInv, DoneInv, OnceInv
<1> QED
  BY <1>1, <1>3 DEF PreparedInv

LEMMA PreparedAlways == PreparedInv /\ [PreparedNext]_preparedVars => PreparedInv'
<1> SUFFICES ASSUME PreparedInv, [PreparedNext]_preparedVars PROVE PreparedInv'
  OBVIOUS
<1>1. CASE PreparedNext
  BY <1>1, BeginPassKeeps, CleanKeeps, CountKeeps, NextPageKeeps, ExtractFileKeeps, ExtractedKeeps,
     SendKeeps, VisitKeeps, WalkEndsKeeps, PassFailsKeeps, CleanupKeeps DEF PreparedNext
<1>2. CASE UNCHANGED preparedVars
  <2>1. PreparedTypeOK'
    BY <1>2 DEF preparedVars, PreparedInv, PreparedTypeOK
  <2>2. SelectionInv' /\ WalkInv' /\ DoneInv' /\ OnceInv'
    BY <1>2, WalkSame DEF preparedVars, PreparedInv, SelectionInv, WalkInv, DoneInv, OnceInv
  <2>3. ExtractInv'
    BY <1>2 DEF preparedVars, PreparedInv, ExtractInv, Reached, Written, Exactly, FilesOf, AdvisoriesOf
  <2> QED
    BY <2>1, <2>2, <2>3 DEF PreparedInv
<1> QED
  BY <1>1, <1>2

\* A validation reads exactly the advisories and sidecars of the commit that were
\* selected, for any files and selection, pages and queues of any size, and
\* whatever earlier passes have left behind.
THEOREM InputsAlwaysExact == PreparedSpec => [](PreparedTypeOK /\ InputsExact)
<1>1. PreparedInv => PreparedTypeOK /\ InputsExact
  <2> SUFFICES ASSUME PreparedInv PROVE PreparedTypeOK /\ InputsExact
    OBVIOUS
  <2>1. PreparedTypeOK /\ OnceInv /\ DoneInv /\ visited \in Seq(Visit)
    BY DEF PreparedInv, PreparedTypeOK
  <2>2. DOMAIN visited = 1 .. Len(visited)
    BY <2>1, LenProperties
  <2>3. /\ \A i \in 1 .. Len(visited) : visited[i] \in Demanded
        /\ \A i, j \in 1 .. Len(visited) : visited[i].path = visited[j].path => i = j
        /\ step = "validated" => Len(visited) = Cardinality(Demanded)
    BY <2>1 DEF OnceInv, Once, DoneInv
  <2> QED
    BY <2>1, <2>2, <2>3 DEF InputsExact
<1> QED
  BY <1>1, PreparedInitially, PreparedAlways, PTL DEF PreparedSpec

-----------------------------------------------------------------------------
(* Trends *)

\* The file m keeps the latest of the entries t, as many as there are or it has room for.
Kept(m, t) ==
  /\ Len(m) <= Len(t) /\ Len(m) <= Window
  /\ Len(m) = Len(t) \/ Len(m) = Window
  /\ \A k \in 1 .. Len(m), i \in 1 .. Len(t) : i - k = Len(t) - Len(m) => m[k] = t[i]

MetricsInv ==
  /\ metrics # Garbled => Kept(Saved, taken)
  /\ report.at # "idle" => summarized \in Counts /\ Len(taken) < MaxReports
  /\ report.at \in {"loaded", "writing"} =>
       /\ Kept(report.series, Append(taken, report.entry))
       /\ report.entry.date = today \/ report.entry.date = today - 1

\* Something to compare with that was measured on a day: the counts of the latest
\* of the entries t that is old enough, or none if there is none any more.
TrueBaseline(x, t, date, days, read) ==
  \/ \E i \in Latest(t, date, days) : x = t[i].documents
  \/ x = NoData /\ (read => \A i \in Latest(t, date, days) : Len(t) - i >= Window)

SoundBaselines(b) == \A n \in Ago : TrueBaseline(b.of[n], taken, b.date, n, b.read)

BaselinesInv ==
  baselines # NoData => baselines.date <= today /\ (~outlived => SoundBaselines(baselines))

ShownInv == trends # NoData => trends.date <= today

TrendsInv == TrendsTypeOK /\ MetricsInv /\ BaselinesInv /\ ShownInv /\ TrendsTrue

-----------------------------------------------------------------------------

LEMMA TrendConstants ==
  /\ Window \in Nat \ {0} /\ LastDay \in Nat /\ MaxReports \in Nat /\ MaxCount \in Nat
  /\ \A n \in Ago : n \in Nat /\ n > 1
  /\ NoData \notin Int /\ Garbled # NoData
  /\ \A e \in Entry : e.date \in Int /\ e.documents \in Int
BY TrendsAssumption DEF Entry, Days, Counts

LEMMA EntryAppended ==
  ASSUME NEW t \in Seq(Entry), NEW e \in Entry
  PROVE  /\ Append(t, e) \in Seq(Entry) /\ Len(t) \in Nat /\ Len(Append(t, e)) = Len(t) + 1
         /\ Append(t, e)[Len(t) + 1] = e
         /\ \A i \in 1 .. Len(t) : Append(t, e)[i] = t[i] /\ t[i] \in Entry
<1>1. \A i \in 1 .. Len(t) : t[i] \in Entry
  BY ElementOfSeq
<1> QED
  BY <1>1, LenProperties, AppendProperties

\* A series that has one entry more, and is cut to what the file keeps.
LEMMA TrimKeeps ==
  ASSUME NEW m \in Seq(Entry), NEW t \in Seq(Entry), NEW e \in Entry, Kept(m, t)
  PROVE  /\ Trim(Append(m, e)) \in Seq(Entry)
         /\ Len(Trim(Append(m, e))) <= Len(t) + 1
         /\ Kept(Trim(Append(m, e)), Append(t, e))
<1> DEFINE n == Len(m)
           l == Len(t)
           a == Append(m, e)
           b == Append(t, e)
           c == Trim(a)
<1>1. /\ a \in Seq(Entry) /\ n \in Nat /\ Len(a) = n + 1 /\ a[n + 1] = e
      /\ \A i \in 1 .. n : a[i] = m[i]
  BY EntryAppended
<1>2. l \in Nat /\ Len(b) = l + 1 /\ b[l + 1] = e /\ \A i \in 1 .. l : b[i] = t[i]
  BY EntryAppended
<1>3. /\ n <= l /\ n <= Window /\ (n = l \/ n = Window) /\ Window \in Nat \ {0}
      /\ \A k \in 1 .. n, i \in 1 .. l : i - k = l - n => m[k] = t[i]
  BY TrendConstants DEF Kept
<1>4. CASE n < Window
  <2>1. c = a
    BY <1>1, <1>3, <1>4 DEF Trim
  <2>2. n = l
    BY <1>1, <1>3, <1>4
  <2> HIDE DEF n, l, a, b, c
  <2>3. ASSUME NEW k \in 1 .. n + 1, NEW i \in 1 .. l + 1, i - k = (l + 1) - (n + 1)
        PROVE  a[k] = b[i]
    <3>1. i = k
      BY <1>1, <2>2, <2>3
    <3>2. CASE k = n + 1
      BY <1>1, <1>2, <2>2, <3>1, <3>2
    <3>3. CASE k \in 1 .. n
      BY <1>1, <1>2, <1>3, <2>2, <2>3, <3>1, <3>3
    <3> QED
      BY <1>1, <3>2, <3>3
  <2>4. Kept(a, b)
    BY <1>1, <1>2, <1>3, <1>4, <2>2, <2>3 DEF Kept
  <2>5. Len(a) <= l + 1
    BY <1>1, <1>2, <2>2
  <2> QED
    BY <1>1, <2>1, <2>4, <2>5 DEF a, b, c, l
<1>5. CASE n = Window
  <2>1. c = SubSeq(a, 2, n + 1)
    <3>1. Len(a) > Window /\ Len(a) - Window + 1 = 2
      BY <1>1, <1>3, <1>5
    <3> QED
      BY <1>1, <3>1 DEF Trim
  <2>2. \A i \in 2 .. n + 1 : a[i] \in Entry
    <3>1. \A i \in 1 .. Len(a) : a[i] \in Entry
      BY <1>1, ElementOfSeq
    <3> QED
      BY <1>1, <3>1
  <2>3. /\ SubSeq(a, 2, n + 1) \in Seq(Entry)
        /\ Len(SubSeq(a, 2, n + 1)) = n
        /\ \A i \in 1 .. n : SubSeq(a, 2, n + 1)[i] = a[i + 1]
    <3>1. 2 \in Int /\ n + 1 \in Int /\ 2 <= n + 1 /\ (n + 1) - 2 + 1 = n
      BY <1>1, <1>3, <1>5
    <3>2. \A i \in 1 .. n : 2 + i - 1 = i + 1
      BY <1>1
    <3> HIDE DEF n, a
    <3> QED
      BY <2>2, <3>1, <3>2, SubSeqProperties
  <2>4. c \in Seq(Entry) /\ Len(c) = n /\ \A i \in 1 .. n : c[i] = a[i + 1]
    BY <2>1, <2>3
  <2> HIDE DEF n, l, a, b, c
  <2>5. ASSUME NEW k \in 1 .. n, NEW i \in 1 .. l + 1, i - k = (l + 1) - n
        PROVE  c[k] = b[i]
    <3>1. CASE k = n
      <4>1. i = l + 1 /\ c[k] = e
        BY <1>1, <1>2, <2>4, <2>5, <3>1
      <4> QED
        BY <1>2, <4>1
    <3>2. CASE k + 1 \in 1 .. n
      <4>1. PICK j \in 1 .. n : j = k + 1
        BY <3>2
      <4>2. i \in 1 .. l /\ i - j = l - n
        BY <1>1, <1>2, <1>3, <2>5, <4>1
      <4>3. c[k] = m[j] /\ b[i] = t[i]
        BY <1>1, <1>2, <2>4, <4>1, <4>2
      <4> QED
        BY <1>3, <4>2, <4>3
    <3> QED
      BY <1>1, <3>1, <3>2
  <2>6. Kept(c, b)
    BY <1>1, <1>2, <1>3, <1>5, <2>4, <2>5 DEF Kept
  <2>7. Len(c) <= l + 1
    BY <1>1, <1>2, <1>3, <2>4
  <2> QED
    BY <2>4, <2>6, <2>7 DEF a, b, c, l
<1> QED
  BY <1>1, <1>3, <1>4, <1>5

\* An entry that is not old enough does not change which one is the latest that is.
LEMMA LatestAppended ==
  ASSUME NEW t \in Seq(Entry), NEW e \in Entry, NEW date \in Int, NEW days \in Int,
         e.date > date - days
  PROVE  /\ Latest(Append(t, e), date, days) = Latest(t, date, days)
         /\ Latest(t, date, days) \subseteq 1 .. Len(t)
         /\ \A i \in Latest(t, date, days) : Append(t, e)[i] = t[i]
<1> DEFINE l == Len(t)
           a == Append(t, e)
<1>1. /\ DOMAIN t = 1 .. l /\ DOMAIN a = 1 .. l + 1 /\ l \in Nat /\ a[l + 1] = e
      /\ \A i \in 1 .. l : a[i] = t[i] /\ t[i].date \in Int
  BY EntryAppended, LenProperties, TrendConstants
<1>2. e.date \in Int
  BY TrendConstants
<1> HIDE DEF l, a
<1>3. ASSUME NEW i \in 1 .. l + 1, i \in Latest(a, date, days) PROVE i \in Latest(t, date, days)
  <2>1. i # l + 1
    BY <1>1, <1>2, <1>3 DEF Latest
  <2>2. i \in 1 .. l /\ \A j \in 1 .. l : j \in 1 .. l + 1
    BY <1>1, <2>1
  <2> QED
    BY <1>1, <1>3, <2>2 DEF Latest
<1>4. ASSUME NEW i \in 1 .. l, i \in Latest(t, date, days) PROVE i \in Latest(a, date, days)
  <2>1. \A j \in 1 .. l + 1 : j \in 1 .. l \/ j = l + 1
    BY <1>1
  <2>2. i \in 1 .. l + 1
    BY <1>1
  <2> QED
    BY <1>1, <1>2, <1>4, <2>1, <2>2 DEF Latest
<1>5. Latest(t, date, days) \subseteq 1 .. l /\ Latest(a, date, days) \subseteq 1 .. l + 1
  BY <1>1 DEF Latest
<1>6. Latest(a, date, days) = Latest(t, date, days)
  <2>1. 1 .. l \subseteq 1 .. l + 1
    BY <1>1
  <2> QED
    BY <1>3, <1>4, <1>5, <2>1
<1> QED
  BY <1>1, <1>5, <1>6 DEF l, a

\* What is measured in what the file keeps is sound.
LEMMA MeasuredSound ==
  ASSUME NEW m \in Seq(Entry), NEW t \in Seq(Entry), Kept(m, t),
         NEW date \in Int, NEW days \in Int
  PROVE  TrueBaseline(TrendBaseline(m, date, days), t, date, days, TRUE)
<1> DEFINE n == Len(m)
           l == Len(t)
<1>1. n \in Nat /\ DOMAIN m = 1 .. n /\ \A k \in 1 .. n : m[k] \in Entry /\ m[k].date \in Int
  BY LenProperties, ElementOfSeq, TrendConstants
<1>2. l \in Nat /\ DOMAIN t = 1 .. l /\ \A i \in 1 .. l : t[i] \in Entry /\ t[i].date \in Int
  BY LenProperties, ElementOfSeq, TrendConstants
<1>3. /\ n <= l /\ n <= Window /\ (n = l \/ n = Window) /\ Window \in Nat \ {0}
      /\ \A k \in 1 .. n, i \in 1 .. l : i - k = l - n => m[k] = t[i]
  BY TrendConstants DEF Kept
<1> HIDE DEF n, l
<1>4. CASE Latest(m, date, days) # {}
  <2>1. PICK k \in Latest(m, date, days) : TrendBaseline(m, date, days) = m[k].documents
    BY <1>4 DEF TrendBaseline
  <2>2. k \in 1 .. n
    BY <1>1, <2>1 DEF Latest
  <2>3. PICK i \in 1 .. l : i - k = l - n
    <3>1. k + (l - n) \in 1 .. l /\ (k + (l - n)) - k = l - n
      BY <1>1, <1>2, <1>3, <2>2
    <3> QED
      BY <3>1
  <2>4. m[k] = t[i]
    BY <1>3, <2>2, <2>3
  <2>5. ASSUME NEW j \in 1 .. l, j > i PROVE t[j].date > date - days
    <3>1. PICK h \in 1 .. n : j - h = l - n
      <4>1. j - (l - n) \in 1 .. n /\ j - (j - (l - n)) = l - n
        BY <1>1, <1>2, <1>3, <2>2, <2>3, <2>5
      <4> QED
        BY <4>1
    <3>2. h > k
      BY <1>1, <1>2, <2>2, <2>3, <2>5, <3>1
    <3>3. m[h] = t[j]
      BY <1>3, <3>1
    <3> QED
      BY <1>1, <2>1, <3>1, <3>2, <3>3 DEF Latest
  <2>6. t[i].date <= date - days
    BY <2>1, <2>4 DEF Latest
  <2>7. i \in Latest(t, date, days)
    BY <1>2, <2>5, <2>6 DEF Latest
  <2> QED
    BY <2>1, <2>4, <2>7 DEF TrueBaseline
<1>5. CASE Latest(m, date, days) = {}
  <2>1. TrendBaseline(m, date, days) = NoData
    BY <1>5 DEF TrendBaseline
  <2>2. ASSUME NEW i \in Latest(t, date, days) PROVE l - i >= Window
    <3>1. i \in 1 .. l /\ t[i].date <= date - days
          /\ \A j \in 1 .. l : j > i => t[j].date > date - days
      BY <1>2 DEF Latest
    <3>2. CASE i > l - n
      <4>1. PICK k \in 1 .. n : i - k = l - n
        <5>1. i - (l - n) \in 1 .. n /\ i - (i - (l - n)) = l - n
          BY <1>1, <1>2, <1>3, <3>1, <3>2
        <5> QED
          BY <5>1
      <4>2. m[k].date <= date - days
        BY <1>3, <3>1, <4>1
      <4>3. ASSUME NEW h \in 1 .. n, h > k PROVE m[h].date > date - days
        <5>1. PICK j \in 1 .. l : j - h = l - n
          <6>1. h + (l - n) \in 1 .. l /\ (h + (l - n)) - h = l - n
            BY <1>1, <1>2, <1>3
          <6> QED
            BY <6>1
        <5>2. j > i
          BY <1>1, <1>2, <1>3, <3>1, <4>1, <4>3, <5>1
        <5>3. m[h] = t[j]
          BY <1>3, <5>1
        <5> QED
          BY <3>1, <5>1, <5>2, <5>3
      <4>4. k \in Latest(m, date, days)
        BY <1>1, <4>2, <4>3 DEF Latest
      <4> QED
        BY <1>5, <4>4
    <3>3. CASE ~(i > l - n)
      BY <1>1, <1>2, <1>3, <3>1, <3>3
    <3> QED
      BY <3>2, <3>3
  <2> QED
    BY <2>1, <2>2 DEF TrueBaseline, l
<1> QED
  BY <1>4, <1>5

\* It stays so while entries are appended that are not old enough.
LEMMA SoundAppended ==
  ASSUME NEW t \in Seq(Entry), NEW e \in Entry, NEW date \in Int, NEW days \in Int,
         NEW x, NEW read, e.date > date - days, TrueBaseline(x, t, date, days, read)
  PROVE  TrueBaseline(x, Append(t, e), date, days, read)
<1> DEFINE L == Latest(t, date, days)
<1>1. /\ Latest(Append(t, e), date, days) = L /\ L \subseteq 1 .. Len(t)
      /\ \A i \in L : Append(t, e)[i] = t[i]
  BY LatestAppended
<1>2. Len(Append(t, e)) = Len(t) + 1 /\ Len(t) \in Nat /\ Window \in Nat
  BY EntryAppended, TrendConstants
<1>3. (\E i \in L : x = t[i].documents) \/ (x = NoData /\ (read => \A i \in L : Len(t) - i >= Window))
  BY DEF TrueBaseline
<1> HIDE DEF L
<1>4. \A i \in L : Len(t) - i >= Window => Len(Append(t, e)) - i >= Window
  BY <1>1, <1>2
<1> QED
  BY <1>1, <1>3, <1>4 DEF TrueBaseline

LEMMA TrendsInitially == TrendsInit => TrendsInv
<1> SUFFICES ASSUME TrendsInit PROVE TrendsInv
  OBVIOUS
<1>1. <<>> \in Series /\ Len(<<>>) = 0
  BY TrendConstants, EmptySeq DEF Series
<1>2. TrendsTypeOK
  <2>1. 0 \in Days /\ 0 \in Counts
    BY TrendConstants DEF Days, Counts
  <2>2. NoReport \in Report
    BY <1>1, <2>1 DEF NoReport, Report, Entry
  <2> QED
    BY <1>1, <2>1, <2>2 DEF TrendsInit, TrendsTypeOK
<1>3. MetricsInv
  BY <1>1, TrendConstants DEF TrendsInit, MetricsInv, Saved, Kept, NoReport
<1> QED
  BY <1>2, <1>3 DEF TrendsInit, TrendsInv, BaselinesInv, ShownInv, TrendsTrue

\* The steps at which no entry is written and nothing is measured.
LEMMA NothingTaken ==
  ASSUME TrendsInv, UNCHANGED <<taken, baselines, trends, outlived>>, today' \in Int, today <= today'
  PROVE  BaselinesInv' /\ ShownInv' /\ TrendsTrue'
<1>1. /\ TrendsTypeOK /\ BaselinesInv /\ ShownInv /\ TrendsTrue /\ today \in Int
      /\ baselines # NoData => baselines.date \in Int
      /\ trends # NoData => trends.date \in Int
  BY DEF TrendsInv, TrendsTypeOK, Days, Baselines, Page
<1>2. BaselinesInv'
  BY <1>1 DEF BaselinesInv, SoundBaselines
<1>3. ShownInv'
  BY <1>1 DEF ShownInv
<1>4. TrendsTrue'
  BY <1>1 DEF TrendsTrue
<1> QED
  BY <1>2, <1>3, <1>4

LEMMA ReportsKeep ==
  ASSUME TrendsInv, SaveCounts \/ AppendEntry \/ TruncateMetrics \/ ReportFails
  PROVE  TrendsInv'
<1>0. TrendsTypeOK /\ MetricsInv /\ UNCHANGED <<today, taken, baselines, trends, outlived>>
      /\ today \in Int /\ taken \in Seq(Entry) /\ Len(taken) <= MaxReports
  BY DEF TrendsInv, SaveCounts, AppendEntry, TruncateMetrics, ReportFails, TrendsTypeOK, Days, Series
<1>1. BaselinesInv' /\ ShownInv' /\ TrendsTrue'
  BY <1>0, NothingTaken
<1>2. NoReport \in Report
  <2>1. <<>> \in Series
    BY TrendConstants, EmptySeq DEF Series
  <2> QED
    BY <2>1, TrendConstants DEF NoReport, Report, Entry, Days, Counts
<1>3. CASE SaveCounts
  <2>1. /\ summarized' \in Counts /\ report' = [NoReport EXCEPT !.at = "validated"]
        /\ Len(taken) < MaxReports /\ UNCHANGED metrics
    BY <1>3 DEF SaveCounts
  <2>2. report' \in Report /\ report'.at = "validated"
    BY <1>2, <2>1 DEF Report
  <2>3. TrendsTypeOK'
    BY <1>0, <2>1, <2>2 DEF TrendsTypeOK
  <2>4. MetricsInv'
    BY <1>0, <2>1, <2>2 DEF MetricsInv, Saved
  <2> QED
    BY <1>1, <2>3, <2>4 DEF TrendsInv
<1>4. CASE AppendEntry
  <2> DEFINE e == [date |-> today, documents |-> summarized]
  <2>1. /\ report.at = "validated" /\ metrics # Garbled
        /\ report' = [at |-> "loaded", series |-> Trim(Append(Saved, e)), entry |-> e]
        /\ UNCHANGED <<summarized, metrics>>
    BY <1>4 DEF AppendEntry
  <2>2. summarized \in Counts /\ Len(taken) < MaxReports /\ Kept(Saved, taken)
    BY <1>0, <2>1 DEF MetricsInv
  <2>3. e \in Entry
    BY <1>0, <2>2 DEF TrendsTypeOK, Entry
  <2>4. Saved \in Seq(Entry)
    BY <1>0, <2>1, EmptySeq DEF Saved, TrendsTypeOK, Series
  <2>5. /\ Trim(Append(Saved, e)) \in Seq(Entry)
        /\ Len(Trim(Append(Saved, e))) <= Len(taken) + 1
        /\ Kept(Trim(Append(Saved, e)), Append(taken, e))
    BY <1>0, <2>2, <2>3, <2>4, TrimKeeps
  <2>6. Trim(Append(Saved, e)) \in Series
    <3>1. Len(Trim(Append(Saved, e))) \in Nat /\ Len(taken) \in Nat
      BY <1>0, <2>5, LenProperties
    <3> QED
      BY <2>2, <2>5, <3>1, TrendConstants DEF Series
  <2>7. e.date = today
    OBVIOUS
  <2> HIDE DEF e
  <2>8. /\ report' \in Report /\ report'.at = "loaded" /\ report'.entry = e
        /\ report'.series = Trim(Append(Saved, e))
    BY <2>1, <2>3, <2>6 DEF Report
  <2>9. TrendsTypeOK'
    BY <1>0, <2>1, <2>8 DEF TrendsTypeOK
  <2>10. MetricsInv'
    BY <1>0, <2>1, <2>2, <2>5, <2>7, <2>8 DEF MetricsInv, Saved
  <2> QED
    BY <1>1, <2>9, <2>10 DEF TrendsInv
<1>5. CASE TruncateMetrics
  <2>1. /\ report.at = "loaded" /\ metrics' = Garbled /\ report' = [report EXCEPT !.at = "writing"]
        /\ UNCHANGED summarized /\ report \in Report
    BY <1>0, <1>5 DEF TruncateMetrics, TrendsTypeOK
  <2>2. /\ report' \in Report /\ report'.at = "writing"
        /\ report'.entry = report.entry /\ report'.series = report.series
    BY <2>1 DEF Report
  <2>3. TrendsTypeOK'
    BY <1>0, <2>1, <2>2 DEF TrendsTypeOK
  <2>4. MetricsInv'
    BY <1>0, <2>1, <2>2 DEF MetricsInv
  <2> QED
    BY <1>1, <2>3, <2>4 DEF TrendsInv
<1>6. CASE ReportFails
  <2>1. report' = NoReport /\ NoReport.at = "idle" /\ UNCHANGED <<summarized, metrics>>
    BY <1>6 DEF ReportFails, NoReport
  <2>2. TrendsTypeOK'
    BY <1>0, <1>2, <2>1 DEF TrendsTypeOK
  <2>3. MetricsInv'
    BY <1>0, <2>1 DEF MetricsInv, Saved
  <2> QED
    BY <1>1, <2>2, <2>3 DEF TrendsInv
<1> QED
  BY <1>3, <1>4, <1>5, <1>6

LEMMA WriteKeeps ==
  ASSUME TrendsInv, WriteMetrics
  PROVE  TrendsInv'
<1> DEFINE e == report.entry
<1>0. /\ TrendsTypeOK /\ MetricsInv /\ report.at = "writing"
      /\ metrics' = report.series /\ taken' = Append(taken, e) /\ report' = NoReport
      /\ UNCHANGED <<today, summarized, baselines, trends, outlived>>
  BY DEF TrendsInv, WriteMetrics
<1>1. /\ today \in Int /\ taken \in Seq(Entry) /\ e \in Entry /\ report.series \in Series
      /\ e.date \in Int /\ (e.date = today \/ e.date = today - 1) /\ Len(taken) < MaxReports
      /\ Kept(report.series, Append(taken, e))
  BY <1>0, TrendConstants DEF TrendsTypeOK, MetricsInv, Report, Days, Series
<1>2. Len(taken) \in Nat /\ Append(taken, e) \in Seq(Entry) /\ Len(Append(taken, e)) = Len(taken) + 1
  BY <1>1, EntryAppended
<1>3. NoReport \in Report /\ NoReport.at = "idle"
  <2>1. <<>> \in Series
    BY TrendConstants, EmptySeq DEF Series
  <2> QED
    BY <2>1, TrendConstants DEF NoReport, Report, Entry, Days, Counts
<1>4. TrendsTypeOK'
  <2>1. taken' \in Series
    BY <1>0, <1>1, <1>2, TrendConstants DEF Series
  <2> QED
    BY <1>0, <1>1, <1>3, <2>1 DEF TrendsTypeOK
<1>5. MetricsInv'
  <2>1. metrics' # NoData /\ Saved' = report.series
    BY <1>0, <1>1, SeriesAssumption DEF Saved
  <2> QED
    BY <1>0, <1>1, <1>3, <2>1 DEF MetricsInv
<1> HIDE DEF e
<1>6. ASSUME NEW date \in Int, date <= today, NEW n \in Ago PROVE e.date > date - n /\ n \in Int
  <2>1. n \in Nat /\ n > 1
    BY TrendConstants
  <2> QED
    BY <1>1, <1>6, <2>1
<1>7. BaselinesInv'
  <2>1. ASSUME baselines # NoData, ~outlived PROVE SoundBaselines(baselines)'
    <3>1. SoundBaselines(baselines) /\ baselines.date \in Int /\ baselines.date <= today
      BY <1>0, <2>1 DEF TrendsInv, BaselinesInv, TrendsTypeOK, Baselines, Days
    <3>2. ASSUME NEW n \in Ago
          PROVE  TrueBaseline(baselines.of[n], Append(taken, e), baselines.date, n, baselines.read)
      BY <1>1, <1>6, <3>1, SoundAppended DEF SoundBaselines
    <3> QED
      BY <1>0, <3>2 DEF SoundBaselines
  <2> QED
    BY <1>0, <2>1 DEF TrendsInv, BaselinesInv
<1>8. ShownInv'
  BY <1>0 DEF TrendsInv, ShownInv
<1>9. TrendsTrue'
  <2> SUFFICES ASSUME trends # NoData, ~trends.outlived, NEW n \in Ago
               PROVE  LET due == Latest(taken', trends.date, n) IN
                      \/ \E i \in due : trends.change[n] = trends.documents - taken'[i].documents
                      \/ /\ trends.change[n] = NoData
                         /\ trends.read => \A i \in due : Len(taken') - i >= Window
    BY <1>0 DEF TrendsTrue
  <2>1. trends.date \in Int /\ trends.date <= today
    BY <1>0 DEF TrendsInv, TrendsTypeOK, Page, Days, ShownInv
  <2>2. /\ Latest(taken', trends.date, n) = Latest(taken, trends.date, n)
        /\ Latest(taken, trends.date, n) \subseteq 1 .. Len(taken)
        /\ \A i \in Latest(taken, trends.date, n) : taken'[i] = taken[i]
    BY <1>0, <1>1, <1>6, <2>1, LatestAppended DEF e
  <2>3. \/ \E i \in Latest(taken, trends.date, n) : trends.change[n] = trends.documents - taken[i].documents
        \/ /\ trends.change[n] = NoData
           /\ trends.read => \A i \in Latest(taken, trends.date, n) : Len(taken) - i >= Window
    BY DEF TrendsInv, TrendsTrue
  <2>4. \A i \in 1 .. Len(taken) : Len(taken) - i >= Window => Len(taken') - i >= Window
    BY <1>0, <1>2, TrendConstants DEF e
  <2> QED
    BY <2>2, <2>3, <2>4
<1> QED
  BY <1>4, <1>5, <1>7, <1>8, <1>9 DEF TrendsInv

\* What is measured now is what there is to compare with now.
LEMMA MeasureSound ==
  ASSUME TrendsInv
  PROVE  /\ MeasureBaselines \in Baselines /\ SoundBaselines(MeasureBaselines)
         /\ MeasureBaselines.date = today
<1>0. /\ TrendsTypeOK /\ MetricsInv /\ today \in Days /\ today \in Int /\ taken \in Seq(Entry)
      /\ metrics \in {NoData, Garbled} \/ metrics \in Seq(Entry)
  BY DEF TrendsInv, TrendsTypeOK, Days, Series
<1> DEFINE of(n) == IF metrics \in {NoData, Garbled} THEN NoData ELSE TrendBaseline(metrics, today, n)
<1>1. ASSUME NEW n \in Ago PROVE of(n) \in Counts \cup {NoData} /\ TrueBaseline(of(n), taken, today, n, metrics # Garbled)
  <2>0. n \in Int
    BY TrendConstants
  <2>1. CASE metrics = Garbled
    BY <2>1 DEF TrueBaseline
  <2>2. CASE metrics = NoData /\ metrics # Garbled
    <3>1. Kept(<<>>, taken)
      BY <1>0, <2>2 DEF MetricsInv, Saved
    <3>2. Len(taken) = 0
      BY <1>0, <3>1, TrendConstants, LenProperties, EmptySeq DEF Kept
    <3>3. DOMAIN taken = {}
      BY <1>0, <3>2, LenProperties
    <3>4. Latest(taken, today, n) = {}
      BY <3>3 DEF Latest
    <3> QED
      BY <2>2, <3>4 DEF TrueBaseline
  <2>3. CASE metrics \notin {NoData, Garbled}
    <3>1. metrics \in Seq(Entry) /\ Kept(metrics, taken)
      BY <1>0, <2>3 DEF MetricsInv, Saved
    <3>2. TrueBaseline(TrendBaseline(metrics, today, n), taken, today, n, TRUE)
      BY <1>0, <2>0, <3>1, MeasuredSound
    <3>3. TrendBaseline(metrics, today, n) \in Counts \cup {NoData}
      <4>1. CASE Latest(metrics, today, n) = {}
        BY <4>1 DEF TrendBaseline
      <4>2. CASE Latest(metrics, today, n) # {}
        <5>1. PICK i \in Latest(metrics, today, n) :
                TrendBaseline(metrics, today, n) = metrics[i].documents
          BY <4>2 DEF TrendBaseline
        <5>2. i \in 1 .. Len(metrics)
          BY <3>1, <5>1, LenProperties DEF Latest
        <5>3. metrics[i] \in Entry
          BY <3>1, <5>2, ElementOfSeq
        <5> QED
          BY <5>1, <5>3 DEF Entry
      <4> QED
        BY <4>1, <4>2
    <3> QED
      BY <2>3, <3>2, <3>3
  <2> QED
    BY <2>1, <2>2, <2>3
<1>2. MeasureBaselines = [date |-> today, read |-> metrics # Garbled, of |-> [n \in Ago |-> of(n)]]
  BY DEF MeasureBaselines
<1> HIDE DEF of
<1>3. (metrics # Garbled) \in BOOLEAN
  OBVIOUS
<1>4. MeasureBaselines \in Baselines
  BY <1>0, <1>1, <1>2, <1>3 DEF Baselines
<1>5. /\ MeasureBaselines.date = today /\ MeasureBaselines.read = (metrics # Garbled)
      /\ \A n \in Ago : MeasureBaselines.of[n] = of(n)
  BY <1>2
<1>6. SoundBaselines(MeasureBaselines)
  BY <1>1, <1>5 DEF SoundBaselines
<1> QED
  BY <1>4, <1>5, <1>6

LEMMA ShowKeeps ==
  ASSUME TrendsInv, ShowTrends
  PROVE  TrendsInv'
<1> DEFINE s == OverviewSnapshot
<1>0. /\ TrendsTypeOK /\ MetricsInv /\ BaselinesInv /\ summarized # NoData /\ baselines' = s
      /\ outlived' = (outlived /\ baselines = s)
      /\ trends' = [date |-> today, documents |-> summarized, read |-> s.read, outlived |-> outlived',
                    change |-> [n \in Ago |-> IF s.of[n] = NoData THEN NoData ELSE summarized - s.of[n]]]
      /\ UNCHANGED <<today, summarized, metrics, report, taken>>
  BY DEF TrendsInv, ShowTrends
<1>1. today \in Days /\ today \in Int /\ summarized \in Counts /\ outlived \in BOOLEAN
  BY <1>0 DEF TrendsTypeOK, Days
<1>2. s = MeasureBaselines \/ (s = baselines /\ baselines # NoData /\ baselines.date = today)
  BY DEF OverviewSnapshot
<1> HIDE DEF s
<1>3. s \in Baselines /\ s.date = today
  BY <1>0, <1>2, MeasureSound DEF TrendsTypeOK
<1>4. ~outlived' => SoundBaselines(s)
  BY <1>0, <1>2, MeasureSound DEF BaselinesInv
<1>5. outlived' \in BOOLEAN
  BY <1>0
<1>6. \A n \in Ago : s.of[n] \in Counts \cup {NoData} /\ s.read \in BOOLEAN
  BY <1>3 DEF Baselines
<1>7. trends' \in Page
  <2>1. \A n \in Ago : (IF s.of[n] = NoData THEN NoData ELSE summarized - s.of[n]) \in Int \cup {NoData}
    BY <1>1, <1>6, TrendConstants DEF Counts
  <2>2. s.read \in BOOLEAN
    BY <1>3 DEF Baselines
  <2>3. [n \in Ago |-> IF s.of[n] = NoData THEN NoData ELSE summarized - s.of[n]] \in [Ago -> Int \cup {NoData}]
    BY <2>1
  <2> QED
    BY <1>0, <1>1, <1>5, <2>2, <2>3 DEF Page
<1>8. /\ trends'.date = today /\ trends'.documents = summarized /\ trends'.read = s.read
      /\ trends'.outlived = outlived'
      /\ \A n \in Ago : trends'.change[n] = IF s.of[n] = NoData THEN NoData ELSE summarized - s.of[n]
  BY <1>0
<1>9. TrendsTypeOK'
  BY <1>0, <1>3, <1>5, <1>7 DEF TrendsTypeOK
<1>10. MetricsInv'
  BY <1>0 DEF MetricsInv, Saved
<1>12. BaselinesInv'
  <2>1. today <= today
    BY <1>1
  <2>2. PICK b : b = s
    OBVIOUS
  <2>3. SoundBaselines(b)' <=> SoundBaselines(b)
    BY <1>0 DEF SoundBaselines
  <2> QED
    BY <1>0, <1>3, <1>4, <2>1, <2>2, <2>3 DEF BaselinesInv
<1>13. ShownInv'
  BY <1>0, <1>1, <1>8 DEF ShownInv
<1>14. TrendsTrue'
  <2> SUFFICES ASSUME ~outlived', NEW n \in Ago
               PROVE  LET due == Latest(taken, today, n) IN
                      \/ \E i \in due : trends'.change[n] = summarized - taken[i].documents
                      \/ /\ trends'.change[n] = NoData
                         /\ s.read => \A i \in due : Len(taken) - i >= Window
    BY <1>0, <1>8 DEF TrendsTrue
  <2>1. TrueBaseline(s.of[n], taken, today, n, s.read)
    BY <1>3, <1>4 DEF SoundBaselines
  <2>2. CASE s.of[n] = NoData /\ (s.read => \A i \in Latest(taken, today, n) : Len(taken) - i >= Window)
    BY <1>8, <2>2
  <2>3. ASSUME NEW i \in Latest(taken, today, n), s.of[n] = taken[i].documents
        PROVE  trends'.change[n] = summarized - taken[i].documents
    <3>1. taken \in Seq(Entry) /\ i \in 1 .. Len(taken)
      BY <1>0, LenProperties DEF TrendsTypeOK, Series, Latest
    <3>2. taken[i] \in Entry
      BY <3>1, ElementOfSeq
    <3>3. s.of[n] # NoData
      BY <2>3, <3>2, TrendConstants
    <3> QED
      BY <1>8, <2>3, <3>3
  <2> QED
    BY <2>1, <2>2, <2>3 DEF TrueBaseline
<1> QED
  BY <1>9, <1>10, <1>12, <1>13, <1>14 DEF TrendsInv

LEMMA CloseKeeps ==
  ASSUME TrendsInv, CloseTrends \/ InvalidateTrends
  PROVE  TrendsInv'
<1>0. /\ TrendsTypeOK /\ MetricsInv /\ UNCHANGED <<today, summarized, metrics, report, taken>>
      /\ BaselinesInv /\ ShownInv /\ TrendsTrue
  BY DEF TrendsInv, CloseTrends, InvalidateTrends
<1>1. MetricsInv'
  BY <1>0 DEF MetricsInv, Saved
<1>2. CASE CloseTrends
  <2>1. trends' = NoData /\ UNCHANGED <<baselines, outlived>>
    BY <1>2 DEF CloseTrends
  <2>2. TrendsTypeOK'
    BY <1>0, <2>1 DEF TrendsTypeOK
  <2>3. BaselinesInv' /\ ShownInv' /\ TrendsTrue'
    BY <1>0, <2>1 DEF BaselinesInv, SoundBaselines, ShownInv, TrendsTrue
  <2> QED
    BY <1>1, <2>2, <2>3 DEF TrendsInv
<1>3. CASE InvalidateTrends
  <2>1. baselines' = NoData /\ outlived' = FALSE /\ UNCHANGED trends
    BY <1>3 DEF InvalidateTrends
  <2>2. TrendsTypeOK'
    BY <1>0, <2>1 DEF TrendsTypeOK
  <2>3. BaselinesInv' /\ ShownInv' /\ TrendsTrue'
    BY <1>0, <2>1 DEF BaselinesInv, ShownInv, TrendsTrue
  <2> QED
    BY <1>1, <2>2, <2>3 DEF TrendsInv
<1> QED
  BY <1>2, <1>3

LEMMA NextDayKeeps ==
  ASSUME TrendsInv, NextDay
  PROVE  TrendsInv'
<1>0. /\ TrendsTypeOK /\ MetricsInv /\ today < LastDay /\ today' = today + 1
      /\ (report.at \in {"loaded", "writing"} => report.entry.date = today)
      /\ UNCHANGED <<summarized, metrics, report, baselines, trends, taken, outlived>>
  BY DEF TrendsInv, NextDay
<1>1. today \in Nat /\ today' \in Days /\ today' \in Int /\ today <= today' /\ today = today' - 1
  BY <1>0, TrendConstants DEF TrendsTypeOK, Days
<1>2. TrendsTypeOK'
  BY <1>0, <1>1 DEF TrendsTypeOK
<1>3. MetricsInv'
  BY <1>0, <1>1 DEF MetricsInv, Saved
<1>4. BaselinesInv' /\ ShownInv' /\ TrendsTrue'
  BY <1>0, <1>1, NothingTaken
<1> QED
  BY <1>2, <1>3, <1>4 DEF TrendsInv

LEMMA DeleteKeeps ==
  ASSUME TrendsInv, DeleteMetrics
  PROVE  TrendsInv'
<1>0. /\ TrendsTypeOK /\ BaselinesInv /\ report.at = "idle"
      /\ summarized' = NoData /\ metrics' = NoData /\ taken' = <<>> /\ outlived' = TRUE /\ trends' = NoData
      /\ UNCHANGED <<today, report, baselines>>
  BY DEF TrendsInv, DeleteMetrics
<1>1. <<>> \in Series /\ Len(<<>>) = 0
  BY TrendConstants, EmptySeq DEF Series
<1>2. TrendsTypeOK'
  BY <1>0, <1>1 DEF TrendsTypeOK
<1>3. MetricsInv'
  <2>1. Kept(<<>>, <<>>)
    BY <1>1, TrendConstants DEF Kept
  <2> QED
    BY <1>0, <2>1 DEF MetricsInv, Saved
<1>4. BaselinesInv' /\ ShownInv' /\ TrendsTrue'
  BY <1>0 DEF BaselinesInv, ShownInv, TrendsTrue
<1> QED
  BY <1>2, <1>3, <1>4 DEF TrendsInv

LEMMA TrendsAlways == TrendsInv /\ [TrendsNext]_trendVars => TrendsInv'
<1> SUFFICES ASSUME TrendsInv, [TrendsNext]_trendVars PROVE TrendsInv'
  OBVIOUS
<1>1. CASE TrendsNext
  BY <1>1, ReportsKeep, WriteKeeps, ShowKeeps, CloseKeeps, NextDayKeeps, DeleteKeeps DEF TrendsNext
<1>2. CASE UNCHANGED trendVars
  <2>1. /\ UNCHANGED <<today, summarized, metrics, report, baselines, trends, taken, outlived>>
        /\ TrendsTypeOK /\ MetricsInv
    BY <1>2 DEF trendVars, TrendsInv
  <2>2. today' \in Int /\ today <= today'
    BY <2>1 DEF TrendsTypeOK, Days
  <2>3. TrendsTypeOK' /\ MetricsInv'
    BY <2>1 DEF TrendsTypeOK, MetricsInv, Saved
  <2>4. BaselinesInv' /\ ShownInv' /\ TrendsTrue'
    BY <2>1, <2>2, NothingTaken
  <2> QED
    BY <2>3, <2>4 DEF TrendsInv
<1> QED
  BY <1>1, <1>2

\* Every trend compares with the latest job that ended long enough ago, whatever
\* the comparisons, the room in the file and the days that pass; and none is
\* missing but for the reasons the property names.
THEOREM TrendsAlwaysTrue == TrendsSpec => [](TrendsTypeOK /\ TrendsTrue)
<1>1. TrendsInv => TrendsTypeOK /\ TrendsTrue
  BY DEF TrendsInv
<1> QED
  BY <1>1, TrendsInitially, TrendsAlways, PTL DEF TrendsSpec

-----------------------------------------------------------------------------
(* ProviderPages *)

\* What a job has computed is of what there still is, and what it wrote too
\* unless a request wrote after it.
HealthInv ==
  /\ completed => At("idle")
  /\ active.step \in {"truncate", "write"} => active.health = HealthNow
  /\ (completed \/ At("end")) /\ ~late => healthFile = HealthNow

\* How far the promise to a request is kept by what it has read.
Promised(known, sums) == (request.source => known) /\ (request.summed => sums)

RequestInv ==
  /\ request.page = "list" /\ RequestAt("summary") => Promised(listed = "enabled", summarised)
  /\ request.page = "list" /\ RequestAt("source") =>
       Promised(listed = "enabled", request.summary)
  /\ request.page = "detail" /\ RequestAt("source") => Promised(listed # "absent", summarised)
  /\ request.page = "detail" /\ RequestAt("summary") => Promised(request.known, summarised)
  /\ request.step \in {"file", "health", "truncate", "write", "done"} =>
       Promised(request.known \/ request.summary, request.summary)

PagesInv == PagesTypeOK /\ HealthInv /\ RequestInv

LEMMA HealthNowType ==
  ASSUME PagesTypeOK
  PROVE  HealthNow \in Healths
<1>1. /\ metadata = Gone \/ metadata \subseteq Distributions
      /\ records = Gone \/ records \in 0 .. MaxChanges
  BY DEF PagesTypeOK
<1> DEFINE failed(d) == IF failures \in {Gone, Partial} THEN FALSE ELSE d \in failures
<1>2. ASSUME NEW d PROVE failed(d) \in BOOLEAN
  <2>1. CASE failures \notin {Gone, Partial} /\ d \in failures
    <3>1. failed(d) = TRUE
      BY <2>1
    <3> QED
      BY <3>1
  <2>2. CASE ~(failures \notin {Gone, Partial} /\ d \in failures)
    <3>1. failed(d) = FALSE
      BY <2>2
    <3> QED
      BY <3>1
  <2> QED
    BY <2>1, <2>2
<1>3. CASE metadata = Gone \/ records = Gone
  BY <1>3 DEF HealthNow, Healths
<1>4. CASE ~(metadata = Gone \/ records = Gone)
  <2>1. HealthNow = {[of |-> d, records |-> records, failed |-> failed(d)] : d \in metadata}
    BY <1>4 DEF HealthNow
  <2> HIDE DEF failed
  <2>2. \A d \in metadata : [of |-> d, records |-> records, failed |-> failed(d)] \in Health
    BY <1>1, <1>2, <1>4 DEF Health
  <2> QED
    BY <2>1, <2>2 DEF Healths
<1> QED
  BY <1>3, <1>4

LEMMA PagesInitially == PagesInit => PagesInv
<1> SUFFICES ASSUME PagesInit PROVE PagesInv
  OBVIOUS
<1>1. {} \in Healths
  BY DEF Healths
<1>2. PagesTypeOK
  BY <1>1, PagesAssumption DEF PagesInit, PagesTypeOK, Activity, RequestState, Inactive, NoRequest
<1>3. HealthInv
  BY DEF PagesInit, HealthInv, At, Inactive
<1>4. RequestInv
  BY DEF PagesInit, RequestInv, RequestAt, NoRequest
<1> QED
  BY <1>2, <1>3, <1>4 DEF PagesInv

\* The steps of jobs and deletions that leave what requests look at.
LEMMA RequestKept ==
  ASSUME RequestInv, UNCHANGED <<listed, request>>, summarised => summarised'
  PROVE  RequestInv'
BY DEF RequestInv, RequestAt, Promised

LEMMA JobsKeep ==
  ASSUME PagesInv, \/ BeginJob \/ Commit \/ SaveErrors \/ ProcessSnapshot \/ SaveMembership
                   \/ RefreshHealth \/ WriteHealth \/ EndJob \/ FailJob
  PROVE  PagesInv'
<1> USE DEF PagesInv
<1>0. HealthNow \in Healths /\ {} \in Healths
  BY HealthNowType DEF Healths
<1>1. CASE BeginJob
  <2>1. PagesTypeOK'
    BY <1>1 DEF BeginJob, PagesTypeOK, Activity, Goto, stored
  <2>2. HealthInv'
    BY <1>1 DEF BeginJob, HealthInv, At, Goto, stored, PagesTypeOK, Activity
  <2>3. RequestInv'
    BY <1>1, RequestKept DEF BeginJob, stored
  <2> QED
    BY <2>1, <2>2, <2>3
<1>2. CASE Commit
  <2>1. PagesTypeOK'
    BY <1>2 DEF Commit, PagesTypeOK, Activity, Goto
  <2>2. HealthInv'
    BY <1>2 DEF Commit, HealthInv, At, Goto, PagesTypeOK, Activity
  <2>3. RequestInv'
    BY <1>2, RequestKept DEF Commit
  <2> QED
    BY <2>1, <2>2, <2>3
<1>3. CASE SaveErrors
  <2>1. PagesTypeOK'
    BY <1>3 DEF SaveErrors, PagesTypeOK, Activity, Goto
  <2>2. HealthInv'
    BY <1>3 DEF SaveErrors, HealthInv, At, Goto, PagesTypeOK, Activity
  <2>3. RequestInv'
    BY <1>3, RequestKept DEF SaveErrors
  <2> QED
    BY <2>1, <2>2, <2>3
<1>4. ASSUME RowsLeft, NextRows PROVE records' \in {Gone} \cup 0 .. MaxChanges
  <2>1. records = Gone \/ records \in 0 .. MaxChanges
    BY DEF PagesTypeOK
  <2> QED
    BY <1>4, <2>1, PagesAssumption DEF RowsLeft, NextRows
<1>5. CASE ProcessSnapshot
  <2>1. PagesTypeOK'
    BY <1>4, <1>5 DEF ProcessSnapshot, PagesTypeOK, Activity, Goto
  <2>2. HealthInv'
    BY <1>5 DEF ProcessSnapshot, HealthInv, At, Goto, PagesTypeOK, Activity
  <2>3. RequestInv'
    BY <1>5, RequestKept DEF ProcessSnapshot
  <2> QED
    BY <2>1, <2>2, <2>3
<1>6. CASE SaveMembership
  <2>1. PagesTypeOK'
    BY <1>4, <1>6 DEF SaveMembership, PagesTypeOK, Activity, Goto
  <2>2. HealthInv'
    BY <1>6 DEF SaveMembership, HealthInv, At, Goto, PagesTypeOK, Activity
  <2>3. RequestInv'
    BY <1>6, RequestKept DEF SaveMembership
  <2> QED
    BY <2>1, <2>2, <2>3
<1>7. CASE RefreshHealth
  <2>1. PagesTypeOK'
    BY <1>0, <1>7 DEF RefreshHealth, PagesTypeOK, Activity, stored
  <2>2. HealthNow' = HealthNow /\ active' = [step |-> "truncate", health |-> HealthNow]
    BY <1>7 DEF RefreshHealth, HealthNow, stored
  <2>3. HealthInv'
    BY <1>7, <2>2 DEF RefreshHealth, HealthInv, At, stored
  <2>4. RequestInv'
    BY <1>7, RequestKept DEF RefreshHealth, stored
  <2> QED
    BY <2>1, <2>3, <2>4
<1>8. CASE WriteHealth
  <2>0. /\ UNCHANGED <<listed, summarised, metadata, failures, records, request, completed>>
        /\ active \in Activity
    BY <1>8 DEF WriteHealth, PagesTypeOK
  <2>1. HealthNow' = HealthNow /\ RequestInv'
    BY <2>0, RequestKept DEF HealthNow
  <2>2. CASE At("truncate") /\ Goto("write") /\ healthFile' = Partial /\ UNCHANGED late
    <3>1. /\ active' \in Activity /\ active'.step = "write" /\ active'.health = active.health
          /\ active.step = "truncate"
      BY <2>0, <2>2 DEF Goto, Activity, At
    <3>2. PagesTypeOK'
      BY <2>0, <2>2, <3>1 DEF PagesTypeOK
    <3>3. HealthInv'
      BY <2>0, <2>1, <2>2, <3>1 DEF HealthInv, At
    <3> QED
      BY <2>1, <3>2, <3>3
  <2>3. CASE At("write") /\ active' = [step |-> "end", health |-> {}] /\ healthFile' = active.health
             /\ late' = FALSE
    <3>1. /\ active' \in Activity /\ active'.step = "end" /\ active.step = "write"
          /\ active.health \in Healths
      BY <1>0, <2>0, <2>3 DEF Activity, At
    <3>2. PagesTypeOK'
      BY <2>0, <2>3, <3>1 DEF PagesTypeOK
    <3>3. HealthInv'
      BY <2>0, <2>1, <2>3, <3>1 DEF HealthInv, At
    <3> QED
      BY <2>1, <3>2, <3>3
  <2> QED
    BY <1>8, <2>2, <2>3 DEF WriteHealth
<1>9. CASE EndJob
  <2>1. PagesTypeOK'
    BY <1>0, <1>9 DEF EndJob, PagesTypeOK, Activity, Inactive, stored
  <2>2. HealthNow' = HealthNow
    BY <1>9 DEF EndJob, HealthNow, stored
  <2>3. HealthInv'
    BY <1>9, <2>2 DEF EndJob, HealthInv, At, Inactive, stored
  <2>4. RequestInv'
    BY <1>9, RequestKept DEF EndJob, stored
  <2> QED
    BY <2>1, <2>3, <2>4
<1>10. CASE FailJob
  <2>1. PagesTypeOK'
    BY <1>0, <1>10 DEF FailJob, PagesTypeOK, Activity, Inactive, stored
  <2>2. HealthInv'
    BY <1>10 DEF FailJob, HealthInv, At, Inactive, stored, JobSteps
  <2>3. RequestInv'
    BY <1>10, RequestKept DEF FailJob, stored
  <2> QED
    BY <2>1, <2>2, <2>3
<1> QED
  BY <1>1, <1>2, <1>3, <1>5, <1>6, <1>7, <1>8, <1>9, <1>10

LEMMA RestartKeeps ==
  ASSUME PagesInv, RestartServer
  PROVE  PagesInv'
<1> USE DEF PagesInv
<1>1. {} \in Healths
  BY DEF Healths
<1>2. PagesTypeOK'
  BY <1>1 DEF RestartServer, PagesTypeOK, Activity, RequestState, Inactive, NoRequest, stored
<1>3. HealthNow' = HealthNow
  BY DEF RestartServer, HealthNow, stored
<1>4. HealthInv'
  BY <1>3 DEF RestartServer, HealthInv, At, Inactive, stored
<1>5. RequestInv'
  BY DEF RestartServer, RequestInv, RequestAt, NoRequest
<1> QED
  BY <1>2, <1>4, <1>5

\* What a request was promised is taken back when it changes.
LEMMA SeenKeeps ==
  ASSUME PagesTypeOK, RequestInv, NEW knows \in BOOLEAN, NEW sums \in BOOLEAN,
         Seen(knows, sums),
         sums => summarised' = summarised,
         knows => (listed' = listed \/ (request.page = "detail" /\ listed # "absent" /\ listed' # "absent"))
  PROVE  /\ request' \in RequestState
         /\ RequestInv'
<1>1. /\ request' = [request EXCEPT !.source = @ /\ knows, !.summed = @ /\ sums]
      /\ request \in RequestState
  BY DEF Seen, PagesTypeOK, RequestState
<1>2. /\ request'.step = request.step /\ request'.page = request.page
      /\ request'.known = request.known /\ request'.summary = request.summary
      /\ request'.source = (request.source /\ knows) /\ request'.summed = (request.summed /\ sums)
  BY <1>1 DEF RequestState
<1>3. request' \in RequestState
  BY <1>1 DEF RequestState
<1>4. RequestInv'
  BY <1>2 DEF RequestInv, RequestAt, Promised
<1> QED
  BY <1>3, <1>4

LEMMA DeletionKeeps ==
  ASSUME PagesInv, DeleteProvider
  PROVE  PagesInv'
<1> USE DEF PagesInv
<1>0. {} \in Healths
  BY DEF Healths
<1>1. CASE At("idle") /\ Goto("delete repo") /\ completed' = FALSE /\ UNCHANGED <<listed, stored, request, late>>
  <2>1. PagesTypeOK'
    BY <1>1 DEF PagesTypeOK, Activity, Goto, stored
  <2>2. HealthInv'
    BY <1>1 DEF HealthInv, At, Goto, stored, PagesTypeOK, Activity
  <2>3. RequestInv'
    BY <1>1, RequestKept DEF stored
  <2> QED
    BY <2>1, <2>2, <2>3
<1>2. CASE At("delete repo") /\ Goto("delete state") /\ metadata' = Gone
           /\ UNCHANGED <<listed, summarised, failures, records, healthFile, request, completed, late>>
  <2>1. PagesTypeOK'
    BY <1>2 DEF PagesTypeOK, Activity, Goto
  <2>2. HealthInv'
    BY <1>2 DEF HealthInv, At, Goto, PagesTypeOK, Activity
  <2>3. RequestInv'
    BY <1>2, RequestKept
  <2> QED
    BY <2>1, <2>2, <2>3
<1>3. CASE At("delete state") /\ Goto("delete results") /\ failures' = Gone /\ records' = Gone
           /\ UNCHANGED <<listed, summarised, metadata, healthFile, request, completed, late>>
  <2>1. PagesTypeOK'
    BY <1>3 DEF PagesTypeOK, Activity, Goto
  <2>2. HealthInv'
    BY <1>3 DEF HealthInv, At, Goto, PagesTypeOK, Activity
  <2>3. RequestInv'
    BY <1>3, RequestKept
  <2> QED
    BY <2>1, <2>2, <2>3
<1>4. CASE At("delete results") /\ Goto("delete source") /\ summarised' = FALSE /\ healthFile' = Gone
           /\ Seen(TRUE, FALSE) /\ UNCHANGED <<listed, metadata, failures, records, completed, late>>
  <2>1. /\ request' \in RequestState
        /\ RequestInv'
    BY <1>4, SeenKeeps
  <2>2. PagesTypeOK'
    BY <1>4, <2>1 DEF PagesTypeOK, Activity, Goto
  <2>3. HealthInv'
    BY <1>4 DEF HealthInv, At, Goto, PagesTypeOK, Activity
  <2> QED
    BY <2>1, <2>2, <2>3
<1>5. CASE At("delete source") /\ active' = Inactive /\ listed' = "absent" /\ Seen(FALSE, TRUE)
           /\ UNCHANGED <<stored, completed, late>>
  <2>1. /\ request' \in RequestState
        /\ RequestInv'
    BY <1>5, SeenKeeps DEF stored
  <2>2. PagesTypeOK'
    BY <1>0, <1>5, <2>1 DEF PagesTypeOK, Activity, Inactive, stored
  <2>3. HealthInv'
    BY <1>5 DEF HealthInv, At, Inactive, stored
  <2> QED
    BY <2>1, <2>2, <2>3
<1> QED
  BY <1>1, <1>2, <1>3, <1>4, <1>5 DEF DeleteProvider, Delete

LEMMA ReloadKeeps ==
  ASSUME PagesInv, ReloadSources
  PROVE  PagesInv'
<1> USE DEF PagesInv
<1> DEFINE knows == IF request.page = "list" THEN {listed, listed'} = {"enabled"}
                    ELSE "absent" \notin {listed, listed'}
<1>1. /\ listed' \in {"absent", "disabled", "enabled"} /\ listed' # listed /\ Seen(knows, TRUE)
      /\ UNCHANGED <<stored, active, completed, late>>
  BY DEF ReloadSources
<1>2. knows \in BOOLEAN /\ (knows => request.page = "detail" /\ listed # "absent" /\ listed' # "absent")
  <2>1. request.page \in {"list", "detail"}
    BY DEF PagesTypeOK, RequestState
  <2> QED
    BY <1>1, <2>1
<1>3. UNCHANGED summarised
  BY <1>1 DEF stored
<1> HIDE DEF knows
<1>4. /\ request' \in RequestState
      /\ RequestInv'
  BY <1>1, <1>2, <1>3, SeenKeeps
<1>5. PagesTypeOK'
  BY <1>1, <1>4 DEF PagesTypeOK, Activity, stored
<1>6. HealthNow' = HealthNow
  BY <1>1 DEF HealthNow, stored
<1>7. HealthInv'
  BY <1>1, <1>6 DEF HealthInv, At, stored
<1> QED
  BY <1>4, <1>5, <1>7

LEMMA RequestsKeep ==
  ASSUME PagesInv, BeginRequest \/ List \/ Detail \/ ReadHealth \/ ComputeHealth \/ KeepHealth
  PROVE  PagesInv'
<1> USE DEF PagesInv
<1>0. HealthNow \in Healths /\ {} \in Healths
  BY HealthNowType DEF Healths
<1>1. /\ UNCHANGED <<listed, summarised, metadata, failures, records, active, completed>>
      /\ (UNCHANGED <<healthFile, late>> \/ late' = TRUE)
  BY DEF BeginRequest, List, Detail, ReadHealth, ComputeHealth, KeepHealth, Reads, Serve
<1>2. HealthNow' = HealthNow
  BY <1>1 DEF HealthNow
<1>3. HealthInv'
  BY <1>1, <1>2 DEF HealthInv, At
<1>4. CASE BeginRequest
  <2>1. PagesTypeOK'
    BY <1>0, <1>1, <1>4 DEF BeginRequest, Reads, Serve, NoRequest, PagesTypeOK, RequestState
  <2>2. RequestInv'
    BY <1>1, <1>4 DEF BeginRequest, Reads, Serve, NoRequest, RequestInv, RequestAt, Promised
  <2> QED
    BY <1>3, <2>1, <2>2
<1>5. CASE List
  <2>1. PagesTypeOK'
    BY <1>1, <1>5 DEF List, Reads, Serve, PagesTypeOK, RequestState
  <2>2. RequestInv'
    BY <1>1, <1>5 DEF List, Reads, Serve, RequestInv, RequestAt, Promised, PagesTypeOK, RequestState
  <2> QED
    BY <1>3, <2>1, <2>2
<1>6. CASE Detail
  <2>1. PagesTypeOK'
    BY <1>1, <1>6 DEF Detail, Reads, Serve, PagesTypeOK, RequestState
  <2>2. RequestInv'
    BY <1>1, <1>6 DEF Detail, Reads, Serve, RequestInv, RequestAt, Promised, PagesTypeOK, RequestState
  <2> QED
    BY <1>3, <2>1, <2>2
<1>7. CASE ReadHealth
  <2>1. PagesTypeOK'
    BY <1>1, <1>7 DEF ReadHealth, Reads, Serve, PagesTypeOK, RequestState
  <2>2. RequestInv'
    BY <1>1, <1>7 DEF ReadHealth, Reads, Serve, RequestInv, RequestAt, Promised, PagesTypeOK, RequestState
  <2> QED
    BY <1>3, <2>1, <2>2
<1>8. CASE ComputeHealth
  <2>1. PagesTypeOK'
    BY <1>0, <1>1, <1>8 DEF ComputeHealth, Reads, Serve, PagesTypeOK, RequestState
  <2>2. RequestInv'
    BY <1>1, <1>8 DEF ComputeHealth, Reads, Serve, RequestInv, RequestAt, Promised, PagesTypeOK, RequestState
  <2> QED
    BY <1>3, <2>1, <2>2
<1>9. CASE KeepHealth
  <2>1. PagesTypeOK'
    BY <1>0, <1>1, <1>9 DEF KeepHealth, Serve, PagesTypeOK, RequestState
  <2>2. RequestInv'
    BY <1>1, <1>9 DEF KeepHealth, Serve, RequestInv, RequestAt, Promised, PagesTypeOK, RequestState
  <2> QED
    BY <1>3, <2>1, <2>2
<1> QED
  BY <1>4, <1>5, <1>6, <1>7, <1>8, <1>9

LEMMA PagesAlways == PagesInv /\ [PagesNext]_pageVars => PagesInv'
<1> SUFFICES ASSUME PagesInv, [PagesNext]_pageVars PROVE PagesInv'
  OBVIOUS
<1>1. CASE PagesNext
  BY <1>1, JobsKeep, RestartKeeps, DeletionKeeps, ReloadKeeps, RequestsKeep DEF PagesNext
<1>2. CASE UNCHANGED pageVars
  <2>1. PagesTypeOK'
    BY <1>2 DEF pageVars, PagesInv, PagesTypeOK
  <2>2. HealthInv'
    BY <1>2 DEF pageVars, PagesInv, HealthInv, HealthNow, At
  <2>3. RequestInv'
    BY <1>2, RequestKept DEF pageVars, PagesInv
  <2> QED
    BY <2>1, <2>2, <2>3 DEF PagesInv
<1> QED
  BY <1>1, <1>2

\* What is shown of a provider, for any number of distributions and rows: after
\* a job has completed the health that is kept is what there is, and nothing that
\* is known, or summed up, all along is left out.
THEOREM PagesAlwaysTrue == PagesSpec => [](PagesTypeOK /\ PagesTrue)
<1>1. PagesInv => PagesTypeOK /\ PagesTrue
  BY DEF PagesInv, PagesTrue, HealthCurrent, NothingUnlisted, HealthInv, RequestInv, RequestAt,
         Promised, PagesTypeOK
<1> QED
  BY <1>1, PagesInitially, PagesAlways, PTL DEF PagesSpec

-----------------------------------------------------------------------------
(* RateLimit *)

Capacity == Burst * Interval
Budgets  == Networks \cup {Loopback}
Waits    == [key : Budgets, from : Networks, retry : 0 .. Interval, left : 0 .. MaxWait]

\* Whoever waits asks for the budget of its own network.
OwnKey(w) == w.key = w.from

\* What n requests cost.
Price(n) == n * Interval

\* Of the requests let through at the times s, the last c are paid for by what is
\* used at time t and by the time since.
Paid(s, u, t) ==
  \A i \in 1 .. Len(s), c \in Nat \ {0} :
    i + c = Len(s) + 1 => s[i] <= t /\ Price(c) <= u + (t - s[i])

\* The rate, before it is divided by the interval: the c requests from the i-th on.
Spaced(s) ==
  \A i \in 1 .. Len(s), j \in 1 .. Len(s), c \in Nat \ {0} :
    i + c = j + 1 => s[i] <= s[j] /\ Price(c) <= Capacity + (s[j] - s[i])

\* Who was not overtaken fits when its next try comes, which is in time.
InTime(r) ==
  waiting[r] # NoOne =>
    /\ OwnKey(waiting[r])
    /\ r \notin overtaken =>
         WaitTime(waiting[r].key) <= waiting[r].retry /\ waiting[r].retry <= waiting[r].left

PaidNow(n) == Paid(served[n], Used(n), clock) /\ Spaced(served[n])

LimitInv ==
  /\ RateLimitTypeOK
  /\ \A n \in Networks : PaidNow(n)
  /\ \A r \in Requests : InTime(r)

LEMMA LimitConstants ==
  /\ Burst \in Nat /\ Interval \in Nat \ {0} /\ MaxWait \in Nat /\ MaxTime \in Nat
  /\ Capacity \in Nat /\ Interval <= Capacity
<1>1. Burst \in Nat \ {0} /\ Interval \in Nat \ {0} /\ MaxWait \in Nat /\ MaxTime \in Nat
  BY RateLimitAssumption
<1>2. Interval <= Burst * Interval /\ Burst * Interval \in Nat
  BY <1>1
<1> QED
  BY <1>1, <1>2 DEF Capacity

\* A division that rounds down.
LEMMA Divided ==
  ASSUME NEW a \in Nat, NEW b \in Nat, NEW t \in Nat, NEW d \in Nat \ {0},
         a * d <= b * d + t
  PROVE  a <= b + t \div d
<1>1. PICK q \in Nat, r \in Nat : t = d * q + r /\ r < d /\ q = t \div d
  OBVIOUS
<1>2. CASE a <= b + q
  BY <1>1, <1>2
<1>3. CASE a >= b + q + 1
  <2>1. a * d >= (b + q + 1) * d
    BY <1>1, <1>3
  <2>2. (b + q + 1) * d = b * d + d * q + d
    BY <1>1
  <2> QED
    BY <1>1, <2>1, <2>2
<1> QED
  BY <1>1, <1>2, <1>3

LEMMA Prices ==
  ASSUME NEW n \in Int
  PROVE  Price(n) \in Int /\ Price(n + 1) = Price(n) + Interval /\ Price(1) = Interval
BY LimitConstants DEF Price

LEMMA PriceType == \A n \in Int : Price(n) \in Int
BY Prices

LEMMA NextPrice ==
  \A m \in Int, n \in Int : n - m = 1 => Price(n) = Price(m) + Interval
BY Prices

LEMMA Appended ==
  ASSUME NEW s \in Seq(0 .. MaxTime), NEW t \in 0 .. MaxTime
  PROVE  /\ Len(s) \in Nat
         /\ Len(Append(s, t)) = Len(s) + 1
         /\ Append(s, t)[Len(s) + 1] = t
         /\ \A i \in 1 .. Len(s) : Append(s, t)[i] = s[i] /\ s[i] \in Int
<1>1. Len(s) \in Nat
  BY LenProperties
<1>2. \A i \in 1 .. Len(s) : s[i] \in 0 .. MaxTime
  BY ElementOfSeq
<1> QED
  BY <1>1, <1>2, AppendProperties

\* One more request is paid for by one more interval.
LEMMA PaidAppend ==
  ASSUME NEW s \in Seq(0 .. MaxTime), NEW t \in 0 .. MaxTime, NEW u \in Nat,
         Paid(s, u, t), Spaced(s), u + Interval <= Capacity
  PROVE  Paid(Append(s, t), u + Interval, t) /\ Spaced(Append(s, t))
<1> DEFINE k == Len(s)
           a == Append(s, t)
<1>0. /\ k \in Nat /\ Len(a) = k + 1 /\ a[k + 1] = t
      /\ \A i \in 1 .. k : a[i] = s[i] /\ s[i] \in Int
  BY Appended
<1>1. t \in Int /\ Interval \in Nat /\ Capacity \in Nat
  BY LimitConstants
<1>p. /\ \A i \in 1 .. k, c \in Nat \ {0} :
           i + c = k + 1 => s[i] <= t /\ Price(c) <= u + (t - s[i])
      /\ \A i \in 1 .. k, j \in 1 .. k, c \in Nat \ {0} :
           i + c = j + 1 => s[i] <= s[j] /\ Price(c) <= Capacity + (s[j] - s[i])
  BY DEF Paid, Spaced
<1> HIDE DEF k, a
<1>2. ASSUME NEW i \in 1 .. k + 1, NEW c \in Nat \ {0}, i + c = k + 2
      PROVE  a[i] \in Int /\ a[i] <= t /\ Price(c) <= u + Interval + (t - a[i])
  <2>1. CASE i = k + 1
    <3>1. c = 1 /\ a[i] = t
      BY <1>0, <1>2, <2>1
    <3> QED
      BY <1>1, <3>1, Prices
  <2>2. CASE i \in 1 .. k
    <3>1. PICK d \in Nat \ {0} : c - d = 1
      <4>1. c - 1 \in Nat \ {0} /\ c - (c - 1) = 1
        BY <1>0, <1>2, <2>2
      <4> QED
        BY <4>1
    <3>2. i + d = k + 1
      BY <1>0, <1>2, <2>2, <3>1
    <3>3. a[i] = s[i] /\ a[i] \in Int /\ a[i] <= t /\ Price(d) <= u + (t - a[i])
      BY <1>0, <1>p, <2>2, <3>2
    <3>4. Price(c) = Price(d) + Interval /\ Price(d) \in Int
      <4>1. c \in Int /\ d \in Int
        OBVIOUS
      <4> QED
        BY <3>1, <4>1, PriceType, NextPrice, Zenon
    <3> QED
      BY <1>1, <3>3, <3>4
  <2> QED
    BY <1>0, <2>1, <2>2
<1>3. ASSUME NEW i \in 1 .. k + 1, NEW j \in 1 .. k + 1, NEW c \in Nat \ {0}, i + c = j + 1
      PROVE  a[i] <= a[j] /\ Price(c) <= Capacity + (a[j] - a[i])
  <2>1. CASE j = k + 1
    <3>1. i + c = k + 2
      BY <1>0, <1>3, <2>1
    <3>2. a[i] \in Int /\ a[i] <= t /\ Price(c) <= u + Interval + (t - a[i])
      BY <1>2, <3>1
    <3>3. a[j] = t /\ Price(c) \in Int
      BY <1>0, <2>1, Prices
    <3> QED
      BY <1>1, <3>2, <3>3
  <2>2. CASE j \in 1 .. k
    <3>1. i \in 1 .. k
      BY <1>0, <1>3, <2>2
    <3>2. s[i] <= s[j] /\ Price(c) <= Capacity + (s[j] - s[i])
      BY <1>p, <1>3, <2>2, <3>1
    <3>3. a[i] = s[i] /\ a[j] = s[j]
      BY <1>0, <2>2, <3>1
    <3> QED
      BY <3>2, <3>3
  <2> QED
    BY <1>0, <2>1, <2>2
<1>4. Len(a) + 1 = k + 2
  BY <1>0
<1>5. Paid(a, u + Interval, t)
  BY <1>0, <1>2, <1>4 DEF Paid
<1>6. Spaced(a)
  BY <1>0, <1>3 DEF Spaced
<1> QED
  BY <1>5, <1>6 DEF a

\* The time that passes pays back as much.
LEMMA PaidTick ==
  ASSUME NEW s \in Seq(0 .. MaxTime), NEW t \in Nat, NEW u \in Nat, NEW v \in Nat,
         Paid(s, u, t), v >= u - 1
  PROVE  Paid(s, v, t + 1)
<1> DEFINE now == t + 1
<1>1. ASSUME NEW i \in 1 .. Len(s), NEW c \in Nat \ {0}, i + c = Len(s) + 1
      PROVE  s[i] <= now /\ Price(c) <= v + (now - s[i])
  <2>1. s[i] \in Int /\ Price(c) \in Int
    <3>1. s[i] \in 0 .. MaxTime
      BY ElementOfSeq
    <3>2. Price(c) \in Int
      BY PriceType
    <3> QED
      BY <3>1, <3>2
  <2>2. s[i] <= t /\ Price(c) <= u + (t - s[i])
    BY <1>1 DEF Paid
  <2> QED
    BY <2>1, <2>2
<1> HIDE DEF now
<1>2. Paid(s, v, now)
  BY <1>1 DEF Paid
<1> QED
  BY <1>2 DEF now

LEMMA UsedType ==
  ASSUME RateLimitTypeOK, NEW n
  PROVE  Used(n) \in 0 .. Capacity /\ WaitTime(n) \in 0 .. Interval
         /\ (Fits(n) <=> Used(n) + Interval <= Capacity)
         /\ WaitTime(n) <= Used(n)
<1>1. Used(n) \in 0 .. Capacity
  BY LimitConstants DEF RateLimitTypeOK, Used, Capacity
<1> QED
  BY <1>1, LimitConstants DEF WaitTime, Fits, Capacity

\* client_key: behind the proxy or not, whatever the header says.
LEMMA OwnNetwork ==
  ASSUME NEW from \in Addresses, NEW direct \in BOOLEAN,
         NEW claimed \in {<<>>} \cup {<<a>> : a \in Addresses}
  PROVE  ClientKey(direct, IF direct THEN claimed ELSE Append(claimed, from), from)
           = Network[from]
<1>1. Append(claimed, from) # <<>>
      /\ Append(claimed, from)[Len(Append(claimed, from))] = from
  OBVIOUS
<1> QED
  BY <1>1 DEF ClientKey

LEMMA LimitInit == RateLimitInit => LimitInv
<1> SUFFICES ASSUME RateLimitInit PROVE LimitInv
  OBVIOUS
<1>1. RateLimitTypeOK
  BY LimitConstants DEF RateLimitInit, RateLimitTypeOK
<1>2. \A n \in Networks : served[n] = <<>>
  BY DEF RateLimitInit
<1>3. \A r \in Requests : waiting[r] = NoOne
  BY DEF RateLimitInit
<1> QED
  BY <1>1, <1>2, <1>3 DEF LimitInv, PaidNow, Paid, Spaced, InTime

\* A request that is let through is paid for by its network's budget.
LEMMA LetThroughPaid ==
  ASSUME LimitInv, NEW n \in Networks, Fits(n), LetThrough(n, n), UNCHANGED clock
  PROVE  /\ used' \in [DOMAIN used' -> 0 .. Burst * Interval] /\ DOMAIN used' \subseteq Budgets
         /\ served' \in [Networks -> Seq(0 .. MaxTime)]
         /\ \A m \in Budgets \ {n} : Used(m)' = Used(m)
         /\ \A m \in Networks : PaidNow(m)'
<1>0. /\ RateLimitTypeOK /\ Used(n) \in 0 .. Capacity /\ Used(n) + Interval <= Capacity
      /\ clock \in 0 .. MaxTime /\ served \in [Networks -> Seq(0 .. MaxTime)]
  BY UsedType DEF LimitInv, RateLimitTypeOK
<1>1. /\ DOMAIN used' = DOMAIN used \cup {n}
      /\ used'[n] = Used(n) + Interval
      /\ \A m \in DOMAIN used \ {n} : used'[m] = used[m]
  BY DEF LetThrough, Spend
<1>2. /\ used' \in [DOMAIN used' -> 0 .. Burst * Interval] /\ DOMAIN used' \subseteq Budgets
  <2>1. Used(n) + Interval \in 0 .. Burst * Interval
    BY <1>0, LimitConstants DEF Capacity
  <2>2. \A m \in DOMAIN used : used[m] \in 0 .. Burst * Interval
    BY <1>0 DEF RateLimitTypeOK
  <2>3. used' = [m \in DOMAIN used \cup {n} |-> IF m = n THEN Used(n) + Interval ELSE used[m]]
    BY DEF LetThrough, Spend
  <2> QED
    BY <1>0, <2>1, <2>2, <2>3 DEF RateLimitTypeOK, Budgets
<1>3. Used(n)' = Used(n) + Interval /\ \A m \in Budgets \ {n} : Used(m)' = Used(m)
  BY <1>1 DEF Used
<1>4. /\ served' \in [Networks -> Seq(0 .. MaxTime)]
      /\ served'[n] = Append(served[n], clock)
      /\ \A m \in Networks \ {n} : served'[m] = served[m]
  BY <1>0 DEF LetThrough
<1>5. ASSUME NEW m \in Networks, m # n PROVE PaidNow(m)'
  <2>1. PaidNow(m) /\ m \in Budgets
    BY DEF LimitInv, Budgets
  <2> QED
    BY <1>3, <1>4, <1>5, <2>1 DEF PaidNow
<1>6. PaidNow(n)'
  <2>1. PaidNow(n) /\ served[n] \in Seq(0 .. MaxTime) /\ Used(n) \in Nat
    BY <1>0 DEF LimitInv
  <2>2. /\ Paid(Append(served[n], clock), Used(n) + Interval, clock)
        /\ Spaced(Append(served[n], clock))
    BY <1>0, <2>1, PaidAppend DEF PaidNow
  <2> QED
    BY <1>3, <1>4, <2>2 DEF PaidNow
<1> QED
  BY <1>2, <1>3, <1>4, <1>5, <1>6

\* A step that lets nobody through, and at which no time passes.
LEMMA NobodyServed ==
  ASSUME LimitInv, UNCHANGED <<clock, served>>, \A n \in Budgets : Used(n)' = Used(n)
  PROVE  \A n \in Networks : PaidNow(n)'
BY DEF LimitInv, PaidNow, Budgets

LEMMA TickStep ==
  ASSUME LimitInv, Tick
  PROVE  LimitInv'
<1>0. RateLimitTypeOK /\ clock' = clock + 1 /\ clock' \in 0 .. MaxTime
      /\ UNCHANGED <<served, overtaken>>
  <2>1. RateLimitTypeOK /\ clock < MaxTime /\ clock' = clock + 1 /\ UNCHANGED <<served, overtaken>>
    BY DEF LimitInv, Tick
  <2>2. clock \in 0 .. MaxTime
    BY <2>1 DEF RateLimitTypeOK
  <2> QED
    BY <2>1, <2>2, LimitConstants
<1>1. \A n \in DOMAIN used : used[n] \in 0 .. Capacity
  BY <1>0 DEF RateLimitTypeOK, Capacity
<1>2. /\ used' \in [DOMAIN used' -> 0 .. Burst * Interval] /\ DOMAIN used' \subseteq Budgets
      /\ \A n : Used(n)' = Minus(Used(n))
  <2>1. \A n \in DOMAIN used : Minus(used[n]) \in 0 .. Capacity
    BY <1>1, LimitConstants DEF Minus
  <2>2. used' = [n \in DOMAIN used |-> Minus(used[n])]
    BY DEF Tick
  <2>3. \A n : Used(n)' = Minus(Used(n))
    BY <2>2 DEF Used, Minus
  <2> QED
    BY <1>0, <2>1, <2>2, <2>3 DEF Capacity, Budgets, RateLimitTypeOK
<1>3. ASSUME NEW r \in Requests
      PROVE  /\ waiting[r] = NoOne => waiting'[r] = NoOne
             /\ waiting[r] # NoOne =>
                  /\ waiting'[r] \in Waits
                  /\ waiting'[r].key = waiting[r].key /\ waiting'[r].from = waiting[r].from
                  /\ waiting'[r].retry = Minus(waiting[r].retry)
                  /\ waiting'[r].left = Minus(waiting[r].left)
  <2>1. waiting'[r] = IF waiting[r] = NoOne THEN NoOne
                      ELSE [waiting[r] EXCEPT !.retry = Minus(@), !.left = Minus(@)]
    BY DEF Tick
  <2>2. waiting[r] = NoOne \/ waiting[r] \in Waits
    BY <1>0 DEF RateLimitTypeOK, Waits, Budgets
  <2>3. ASSUME waiting[r] \in Waits, waiting[r] # NoOne
        PROVE  /\ waiting'[r] \in Waits
               /\ waiting'[r].key = waiting[r].key /\ waiting'[r].from = waiting[r].from
               /\ waiting'[r].retry = Minus(waiting[r].retry)
               /\ waiting'[r].left = Minus(waiting[r].left)
    <3>1. waiting'[r] = [waiting[r] EXCEPT !.retry = Minus(@), !.left = Minus(@)]
      BY <2>1, <2>3
    <3>2. waiting[r].retry \in 0 .. Interval /\ waiting[r].left \in 0 .. MaxWait
      BY <2>3 DEF Waits
    <3>3. Minus(waiting[r].retry) \in 0 .. Interval /\ Minus(waiting[r].left) \in 0 .. MaxWait
      BY <3>2, LimitConstants DEF Minus
    <3> QED
      BY <2>3, <3>1, <3>3 DEF Waits
  <2> QED
    BY <2>1, <2>2, <2>3
<1>4. RateLimitTypeOK'
  <2>1. waiting' = [r \in Requests |-> waiting'[r]]
    BY DEF Tick
  <2> QED
    BY <1>0, <1>2, <1>3, <2>1 DEF RateLimitTypeOK, Waits, Budgets
<1>5. ASSUME NEW n \in Networks PROVE PaidNow(n)'
  <2>1. PaidNow(n) /\ Used(n) \in Nat /\ Used(n)' = Minus(Used(n))
    BY <1>0, <1>2, UsedType DEF LimitInv
  <2>2. Used(n)' >= Used(n) - 1 /\ Used(n)' \in Nat
    BY <2>1 DEF Minus
  <2>3. served[n] \in Seq(0 .. MaxTime) /\ clock \in Nat
    BY <1>0 DEF RateLimitTypeOK
  <2>4. Paid(served[n], Used(n)', clock + 1) /\ Spaced(served[n])
    BY <2>1, <2>2, <2>3, PaidTick DEF PaidNow
  <2> QED
    BY <1>0, <2>4 DEF PaidNow
<1>6. ASSUME NEW r \in Requests PROVE InTime(r)'
  <2>1. CASE waiting[r] = NoOne
    BY <1>3, <2>1 DEF InTime
  <2>2. CASE waiting[r] # NoOne
    <3> DEFINE key == waiting[r].key
    <3>1. InTime(r) /\ waiting[r] \in Waits /\ Used(key) \in 0 .. Capacity
      BY <1>0, <2>2, UsedType DEF LimitInv, RateLimitTypeOK, Waits, Budgets
    <3>2. waiting'[r].key = key /\ Used(key)' = Minus(Used(key))
      BY <1>2, <1>3, <2>2
    <3>3. WaitTime(key)' = Minus(WaitTime(key))
      BY <3>1, <3>2, LimitConstants DEF WaitTime, Minus, Capacity
    <3>4. WaitTime(key) \in Nat /\ waiting[r].retry \in Nat /\ waiting[r].left \in Nat
      BY <1>0, <3>1, UsedType DEF Waits
    <3> QED
      BY <1>0, <1>3, <2>2, <3>1, <3>2, <3>3, <3>4 DEF InTime, OwnKey, Minus
  <2> QED
    BY <2>1, <2>2
<1> QED
  BY <1>4, <1>5, <1>6 DEF LimitInv

\* What a request that waits has, and who else keeps it.
LEMMA WaitType ==
  ASSUME LimitInv, NEW r \in Requests, waiting[r] # NoOne
  PROVE  /\ waiting[r] \in Waits /\ waiting[r].key = waiting[r].from
         /\ waiting[r].key \in Networks
         /\ waiting[r].retry \in 0 .. Interval /\ waiting[r].left \in 0 .. MaxWait
         /\ r \notin overtaken =>
              WaitTime(waiting[r].key) <= waiting[r].retry /\ waiting[r].retry <= waiting[r].left
<1>1. waiting[r] \in Waits
  BY DEF LimitInv, RateLimitTypeOK, Waits, Budgets
<1>2. InTime(r)
  BY DEF LimitInv
<1>3. waiting[r].from \in Networks /\ waiting[r].retry \in 0 .. Interval
      /\ waiting[r].left \in 0 .. MaxWait
  BY <1>1 DEF Waits
<1> QED
  BY <1>1, <1>2, <1>3 DEF InTime, OwnKey

\* Somebody is let through: those of its network who wait are overtaken, the
\* budget of the others is what it was.
LEMMA OthersInTime ==
  ASSUME LimitInv, NEW n \in Networks, NEW r \in Requests, NEW s \in Requests,
         LetThrough(n, n), \A m \in Budgets \ {n} : Used(m)' = Used(m),
         s # r \/ waiting[s] = NoOne, waiting'[s] = waiting[s],
         Others(r, n) \subseteq overtaken',
         s \in overtaken => s \in overtaken'
  PROVE  InTime(s)'
<1>1. CASE waiting[s] = NoOne
  BY <1>1 DEF InTime
<1>2. CASE waiting[s] # NoOne
  <2>1. s # r /\ waiting[s].key = waiting[s].from /\ waiting[s].key \in Networks
    BY <1>2, WaitType
  <2>2. CASE waiting[s].from = n
    <3>1. s \in overtaken'
      BY <1>2, <2>1, <2>2 DEF Others
    <3> QED
      BY <2>1, <3>1 DEF InTime, OwnKey
  <2>3. CASE waiting[s].from # n
    <3>1. waiting[s].key \in Budgets \ {n}
      BY <2>1, <2>3 DEF Budgets
    <3>2. WaitTime(waiting[s].key)' = WaitTime(waiting[s].key)
      BY <3>1 DEF WaitTime
    <3>3. s \notin overtaken =>
            WaitTime(waiting[s].key) <= waiting[s].retry /\ waiting[s].retry <= waiting[s].left
      BY <1>2, WaitType
    <3> QED
      BY <2>1, <3>2, <3>3 DEF InTime, OwnKey
  <2> QED
    BY <2>2, <2>3
<1> QED
  BY <1>1, <1>2

\* A step at which no budget changes and a request goes on as it was.
LEMMA SameInTime ==
  ASSUME LimitInv, NEW s \in Requests, \A m \in Budgets : Used(m)' = Used(m),
         waiting'[s] = waiting[s], s \in overtaken => s \in overtaken'
  PROVE  InTime(s)'
<1>1. CASE waiting[s] = NoOne
  BY <1>1 DEF InTime
<1>2. CASE waiting[s] # NoOne
  <2>1. waiting[s].key = waiting[s].from /\ waiting[s].key \in Budgets
    BY <1>2, WaitType DEF Budgets
  <2>2. WaitTime(waiting[s].key)' = WaitTime(waiting[s].key)
    BY <2>1 DEF WaitTime
  <2> QED
    BY <1>2, <2>1, <2>2, WaitType DEF InTime, OwnKey
<1> QED
  BY <1>1, <1>2

LEMMA AcquireForStep ==
  ASSUME LimitInv, NEW r \in Requests, NEW n \in Networks, AcquireFor(r, n, n)
  PROVE  LimitInv'
<1>0. RateLimitTypeOK /\ waiting[r] = NoOne /\ UNCHANGED clock
  BY DEF LimitInv, AcquireFor
<1>1. CASE Fits(n)
  <2>1. LetThrough(n, n) /\ overtaken' = overtaken \cup Others(r, n) /\ UNCHANGED waiting
    BY <1>1 DEF AcquireFor
  <2>2. /\ used' \in [DOMAIN used' -> 0 .. Burst * Interval] /\ DOMAIN used' \subseteq Budgets
        /\ served' \in [Networks -> Seq(0 .. MaxTime)]
        /\ \A m \in Budgets \ {n} : Used(m)' = Used(m)
        /\ \A m \in Networks : PaidNow(m)'
    BY <1>0, <1>1, <2>1, LetThroughPaid
  <2>3. RateLimitTypeOK'
    <3>1. Others(r, n) \subseteq Requests
      BY DEF Others
    <3> QED
      BY <1>0, <2>1, <2>2, <3>1 DEF RateLimitTypeOK, Budgets
  <2>4. \A s \in Requests : InTime(s)'
    BY <1>0, <2>1, <2>2, OthersInTime
  <2> QED
    BY <2>2, <2>3, <2>4 DEF LimitInv
<1>2. CASE ~Fits(n)
  <2> DEFINE w == [key |-> n, from |-> n, retry |-> WaitTime(n), left |-> MaxWait]
  <2>1. /\ WaitTime(n) <= MaxWait
        /\ waiting' = [waiting EXCEPT ![r] = w]
        /\ overtaken' = overtaken \ {r} /\ UNCHANGED <<used, served>>
    BY <1>2 DEF AcquireFor
  <2>2. WaitTime(n) \in 0 .. Interval /\ MaxWait \in 0 .. MaxWait
    BY <1>0, UsedType, LimitConstants
  <2>3. w \in Waits
    BY <2>2 DEF Waits, Budgets
  <2>4. waiting'[r] = w /\ \A s \in Requests \ {r} : waiting'[s] = waiting[s]
    BY <1>0, <2>1 DEF RateLimitTypeOK
  <2>5. RateLimitTypeOK'
    BY <1>0, <2>1, <2>3 DEF RateLimitTypeOK, Waits, Budgets
  <2>6. \A m : Used(m)' = Used(m)
    BY <2>1 DEF Used
  <2>7. ASSUME NEW s \in Requests PROVE InTime(s)'
    <3>1. CASE s = r
      <4>1. WaitTime(n)' = WaitTime(n)
        BY <2>6 DEF WaitTime
      <4>2. OwnKey(w) /\ w.key = n /\ w.retry = WaitTime(n) /\ w.left = MaxWait
        BY DEF OwnKey
      <4>3. WaitTime(n) <= WaitTime(n)
        BY <2>2
      <4> HIDE DEF w
      <4> QED
        BY <2>1, <2>4, <3>1, <4>1, <4>2, <4>3 DEF InTime
    <3>2. CASE s # r
      BY <2>1, <2>4, <2>6, <3>2, SameInTime
    <3> QED
      BY <3>1, <3>2
  <2>8. \A m \in Networks : PaidNow(m)'
    BY <1>0, <2>1, <2>6, NobodyServed
  <2> QED
    BY <2>5, <2>7, <2>8 DEF LimitInv
<1> QED
  BY <1>1, <1>2

LEMMA AcquireStep ==
  ASSUME LimitInv, NEW r \in Requests, Acquire(r)
  PROVE  LimitInv'
<1>1. PICK from \in Addresses, direct \in BOOLEAN, claimed \in {<<>>} \cup {<<a>> : a \in Addresses} :
        AcquireFor(r, ClientKey(direct, IF direct THEN claimed ELSE Append(claimed, from), from),
                   Network[from])
  BY DEF Acquire
<1>2. AcquireFor(r, Network[from], Network[from])
  BY <1>1, OwnNetwork
<1>3. Network[from] \in Networks
  BY DEF Networks
<1> QED
  BY <1>2, <1>3, AcquireForStep

LEMMA TryAgainStep ==
  ASSUME LimitInv, NEW r \in Requests, TryAgain(r)
  PROVE  LimitInv'
<1>0. RateLimitTypeOK /\ waiting[r] # NoOne /\ UNCHANGED clock
  BY DEF LimitInv, TryAgain, Due
<1>1. PICK n \in Networks : n = waiting[r].key /\ n = waiting[r].from
  BY <1>0, WaitType
<1>2. /\ Fits(n) /\ LetThrough(n, n)
      /\ overtaken' = (overtaken \ {r}) \cup Others(r, n)
      /\ waiting' = [waiting EXCEPT ![r] = NoOne]
  BY <1>1 DEF TryAgain, CanPass
<1>3. /\ used' \in [DOMAIN used' -> 0 .. Burst * Interval] /\ DOMAIN used' \subseteq Budgets
      /\ served' \in [Networks -> Seq(0 .. MaxTime)]
      /\ \A m \in Budgets \ {n} : Used(m)' = Used(m)
      /\ \A m \in Networks : PaidNow(m)'
  BY <1>0, <1>2, LetThroughPaid
<1>4. waiting'[r] = NoOne /\ \A s \in Requests \ {r} : waiting'[s] = waiting[s]
  BY <1>0, <1>2 DEF RateLimitTypeOK
<1>5. RateLimitTypeOK'
  <2>1. Others(r, n) \subseteq Requests
    BY DEF Others
  <2> QED
    BY <1>0, <1>2, <1>3, <2>1 DEF RateLimitTypeOK, Budgets
<1>6. ASSUME NEW s \in Requests PROVE InTime(s)'
  <2>1. CASE s = r
    BY <1>4, <2>1 DEF InTime
  <2>2. CASE s # r
    BY <1>2, <1>3, <1>4, <2>2, OthersInTime
  <2> QED
    BY <2>1, <2>2
<1> QED
  BY <1>3, <1>5, <1>6 DEF LimitInv

\* Only who was overtaken does not fit at its next try.
LEMMA LateIsOvertaken ==
  ASSUME LimitInv, NEW r \in Requests, Due(r), ~CanPass(r)
  PROVE  r \in overtaken
<1> SUFFICES ASSUME r \notin overtaken PROVE FALSE
  OBVIOUS
<1>1. waiting[r] # NoOne /\ (waiting[r].retry = 0 \/ waiting[r].left = 0)
  BY DEF Due
<1>2. /\ waiting[r].retry \in Nat /\ waiting[r].left \in Nat
      /\ WaitTime(waiting[r].key) <= waiting[r].retry /\ waiting[r].retry <= waiting[r].left
  BY <1>1, WaitType, LimitConstants
<1>3. WaitTime(waiting[r].key) \in Nat
  BY UsedType DEF LimitInv
<1> QED
  BY <1>1, <1>2, <1>3 DEF CanPass, Fits

LEMMA WaitOnStep ==
  ASSUME LimitInv, NEW r \in Requests, WaitOn(r)
  PROVE  LimitInv'
<1>0. RateLimitTypeOK /\ UNCHANGED <<clock, used, served, overtaken>> /\ waiting[r] # NoOne
      /\ r \in overtaken
  BY LateIsOvertaken DEF LimitInv, WaitOn, Due
<1>1. PICK n \in Networks : n = waiting[r].key /\ n = waiting[r].from
  BY <1>0, WaitType
<1>2. waiting[r] \in Waits /\ WaitTime(n) \in 0 .. Interval
  BY <1>0, WaitType, UsedType
<1>3. /\ waiting'[r] = [waiting[r] EXCEPT !.retry = WaitTime(n)]
      /\ \A s \in Requests \ {r} : waiting'[s] = waiting[s]
      /\ waiting' = [s \in Requests |-> waiting'[s]]
  <2>1. waiting' = [waiting EXCEPT ![r].retry = WaitTime(waiting[r].key)]
    BY DEF WaitOn
  <2> QED
    BY <1>0, <1>1, <2>1 DEF RateLimitTypeOK
<1>4. waiting'[r] \in Waits /\ waiting'[r].key = n /\ waiting'[r].from = n
  BY <1>1, <1>2, <1>3 DEF Waits
<1>5. RateLimitTypeOK'
  BY <1>0, <1>3, <1>4 DEF RateLimitTypeOK, Waits, Budgets
<1>6. \A m : Used(m)' = Used(m)
  BY <1>0 DEF Used
<1>7. ASSUME NEW s \in Requests PROVE InTime(s)'
  <2>1. CASE s = r
    BY <1>0, <1>4, <2>1 DEF InTime, OwnKey
  <2>2. CASE s # r
    BY <1>0, <1>3, <1>6, <2>2, SameInTime
  <2> QED
    BY <2>1, <2>2
<1>8. \A m \in Networks : PaidNow(m)'
  BY <1>0, <1>6, NobodyServed
<1> QED
  BY <1>5, <1>7, <1>8 DEF LimitInv

LEMMA EndWaitStep ==
  ASSUME LimitInv, NEW r \in Requests, EndWait(r)
  PROVE  LimitInv'
<1>0. /\ RateLimitTypeOK /\ UNCHANGED <<clock, used, served>> /\ overtaken' = overtaken \ {r}
      /\ waiting' = [waiting EXCEPT ![r] = NoOne]
  BY DEF LimitInv, EndWait
<1>1. waiting'[r] = NoOne /\ \A s \in Requests \ {r} : waiting'[s] = waiting[s]
  BY <1>0 DEF RateLimitTypeOK
<1>2. RateLimitTypeOK'
  BY <1>0 DEF RateLimitTypeOK
<1>3. \A m : Used(m)' = Used(m)
  BY <1>0 DEF Used
<1>4. ASSUME NEW s \in Requests PROVE InTime(s)'
  <2>1. CASE s = r
    BY <1>1, <2>1 DEF InTime
  <2>2. CASE s # r
    BY <1>0, <1>1, <1>3, <2>2, SameInTime
  <2> QED
    BY <2>1, <2>2
<1>5. \A m \in Networks : PaidNow(m)'
  BY <1>0, <1>3, NobodyServed
<1> QED
  BY <1>2, <1>4, <1>5 DEF LimitInv

\* A budget that is whole is the same as none.
LEMMA CleanupStep ==
  ASSUME LimitInv, Cleanup
  PROVE  LimitInv'
<1>0. /\ RateLimitTypeOK /\ UNCHANGED <<clock, waiting, served, overtaken>>
      /\ used' = [n \in {m \in DOMAIN used : used[m] > 0} |-> used[n]]
  BY DEF LimitInv, Cleanup
<1>1. \A m \in DOMAIN used : used[m] \in 0 .. Burst * Interval
  BY <1>0 DEF RateLimitTypeOK
<1>2. RateLimitTypeOK'
  BY <1>0, <1>1 DEF RateLimitTypeOK
<1>3. \A m : Used(m)' = Used(m)
  <2>1. \A m \in DOMAIN used : used[m] > 0 \/ used[m] = 0
    BY <1>1, LimitConstants
  <2> QED
    BY <1>0, <2>1 DEF Used
<1>4. \A s \in Requests : InTime(s)'
  BY <1>0, <1>3, SameInTime
<1>5. \A m \in Networks : PaidNow(m)'
  BY <1>0, <1>3, NobodyServed
<1> QED
  BY <1>2, <1>4, <1>5 DEF LimitInv

LEMMA LimitNext == LimitInv /\ [RateLimitNext]_limitVars => LimitInv'
<1> SUFFICES ASSUME LimitInv, [RateLimitNext]_limitVars PROVE LimitInv'
  OBVIOUS
<1>1. CASE Tick
  BY <1>1, TickStep
<1>2. CASE Cleanup
  BY <1>2, CleanupStep
<1>3. ASSUME NEW r \in Requests, Acquire(r) PROVE LimitInv'
  BY <1>3, AcquireStep
<1>4. ASSUME NEW r \in Requests, TryAgain(r) PROVE LimitInv'
  BY <1>4, TryAgainStep
<1>5. ASSUME NEW r \in Requests, WaitOn(r) PROVE LimitInv'
  BY <1>5, WaitOnStep
<1>6. ASSUME NEW r \in Requests, TooManyRequests(r) \/ Leave(r) PROVE LimitInv'
  BY <1>6, EndWaitStep DEF TooManyRequests, Leave
<1>7. CASE UNCHANGED limitVars
  BY <1>7 DEF limitVars, LimitInv, RateLimitTypeOK, PaidNow, InTime, WaitTime, Used
<1> QED
  BY <1>1, <1>2, <1>3, <1>4, <1>5, <1>6, <1>7 DEF RateLimitNext

LEMMA RateIsKept ==
  ASSUME LimitInv
  PROVE  RateKept
<1>1. ASSUME NEW n \in Networks, NEW i \in DOMAIN served[n], NEW j \in i .. Len(served[n])
      PROVE  j - i + 1 <= Burst + (served[n][j] - served[n][i]) \div Interval
  <2> DEFINE s == served[n]
  <2>1. s \in Seq(0 .. MaxTime) /\ Spaced(s)
    BY DEF LimitInv, RateLimitTypeOK, PaidNow
  <2>2. Len(s) \in Nat /\ DOMAIN s = 1 .. Len(s) /\ \A k \in 1 .. Len(s) : s[k] \in 0 .. MaxTime
    BY <2>1, LenProperties, ElementOfSeq
  <2> HIDE DEF s
  <2>3. i \in 1 .. Len(s) /\ j \in i .. Len(s)
    BY <2>2 DEF s
  <2>4. j \in 1 .. Len(s) /\ s[i] \in Nat /\ s[j] \in Nat
    BY <2>2, <2>3
  <2>5. PICK c \in Nat \ {0} : i + c = j + 1
    <3>1. j - i + 1 \in Nat \ {0} /\ i + (j - i + 1) = j + 1
      BY <2>2, <2>3
    <3> QED
      BY <3>1
  <2>6. s[i] <= s[j] /\ Price(c) <= Capacity + (s[j] - s[i])
    BY <2>1, <2>3, <2>4, <2>5 DEF Spaced
  <2>7. PICK t \in Nat : t = s[j] - s[i]
    BY <2>4, <2>6
  <2>8. c * Interval <= Burst * Interval + t
    BY <2>6, <2>7 DEF Price, Capacity
  <2>9. c <= Burst + t \div Interval
    BY <2>8, LimitConstants, Divided
  <2>10. c = j - i + 1
    BY <2>2, <2>3, <2>5
  <2> QED
    BY <2>7, <2>9, <2>10 DEF s
<1> QED
  BY <1>1 DEF RateKept

LEMMA NobodyRejectedForNothing ==
  ASSUME LimitInv
  PROVE  RejectedForOthers
BY LateIsOvertaken DEF RejectedForOthers, TimedOut

\* The budgets are kept for every burst, rate and longest wait: no stretch of
\* time sees more requests of a network let through than its burst and one for
\* every interval, and who is rejected had others of its network let through
\* before it.
THEOREM BudgetAlwaysKept == RateLimitSpec => []BudgetKept
<1>1. LimitInv => BudgetKept
  BY RateIsKept, NobodyRejectedForNothing DEF BudgetKept
<1> QED
  BY <1>1, LimitInit, LimitNext, PTL DEF RateLimitSpec

-----------------------------------------------------------------------------
(* DocumentPage *)

\* What is held is the answer to the last wanted, if there was one.
AnswerInv ==
  /\ loaded.memo = loaded.asked
  /\ loaded.running => loaded.asked # Blank
  /\ ~loaded.running =>
       IF loaded.asked = Blank THEN loaded.holds = Blank
       ELSE loaded.holds.of = loaded.asked

\* What the document was last asked for is still held, and is of this document.
AskedInv ==
  loaded.of \in {"detail", "content", "versions"} =>
    /\ ~repeated
    /\ lastRequest # Blank =>
         /\ loaded.asked = lastRequest
         /\ loaded.of = "versions" => Mounted /\ lastRequest[1] = url.doc

DocumentPageInv == DocumentPageTypeOK /\ AnswerInv /\ AskedInv

LEMMA UnloadedType ==
  ASSUME NEW r \in Resources
  PROVE  Unloaded(r) \in [of : Resources, memo : Query \cup {Blank}, asked : Query \cup {Blank},
                          running : BOOLEAN, holds : Given \cup {Blank}]
BY DEF Unloaded

LEMMA DocumentPageInitially == DocumentPageInit => DocumentPageInv
<1> SUFFICES ASSUME DocumentPageInit PROVE DocumentPageInv
  OBVIOUS
<1>1. PICK r \in Resources : loaded = Unloaded(r)
  BY DEF DocumentPageInit
<1>2. DocumentPageTypeOK
  <2>1. loaded \in [of : Resources, memo : Query \cup {Blank}, asked : Query \cup {Blank},
                    running : BOOLEAN, holds : Given \cup {Blank}]
    BY <1>1, UnloadedType
  <2>2. entries \in Seq(Url) /\ here \in {0} \cup DOMAIN entries
    BY EmptySeq DEF DocumentPageInit
  <2>3. lastRequest \in Query \cup {Blank} /\ repeated \in BOOLEAN
    BY DEF DocumentPageInit
  <2>4. gate \in {"unknown", "unreachable", "starting", "ready"}
    BY DEF DocumentPageInit
  <2> QED
    BY <2>1, <2>2, <2>3, <2>4 DEF DocumentPageTypeOK
<1>3. AnswerInv /\ AskedInv
  BY <1>1 DEF DocumentPageInit, AnswerInv, AskedInv, Unloaded
<1> QED
  BY <1>2, <1>3 DEF DocumentPageInv

LEMMA GoToDoes ==
  ASSUME DocumentPageTypeOK, NEW u \in Url, GoTo(u)
  PROVE  /\ entries' \in Seq(Url) /\ here' \in DOMAIN entries' /\ here' # 0
         /\ url' = u /\ gate' = gate
<1>1. /\ entries \in Seq(Url) /\ Len(entries) \in Nat /\ here \in 0 .. Len(entries)
  BY LenProperties DEF DocumentPageTypeOK
<1>2. PICK s : s = SubSeq(entries, 1, here)
  OBVIOUS
<1>3. s \in Seq(Url) /\ Len(s) = here
  <2>1. here \in 1 - 1 .. Len(entries) /\ 1 \in 1 .. Len(entries) + 1
    BY <1>1
  <2>2. PICK e, h : e = entries /\ h = here
    OBVIOUS
  <2>3. /\ SubSeq(e, 1, h) \in Seq(Url)
        /\ Len(SubSeq(e, 1, h)) = IF 1 <= h THEN h - 1 + 1 ELSE 0
    BY <1>1, <2>1, <2>2, SubSeqProperties
  <2> QED
    BY <1>1, <1>2, <2>2, <2>3
<1>4. entries' = Append(s, u) /\ here' = Len(s) + 1
  BY <1>2, <1>3 DEF GoTo
<1>5. Append(s, u) \in Seq(Url) /\ Len(Append(s, u)) = Len(s) + 1 /\ Append(s, u)[Len(s) + 1] = u
  BY <1>3, AppendProperties
<1>6. Len(s) + 1 \in DOMAIN Append(s, u) /\ Len(s) + 1 # 0
  BY <1>1, <1>3, <1>5, LenProperties
<1> QED
  BY <1>4, <1>5, <1>6 DEF url, GoTo

LEMMA UrlType ==
  ASSUME DocumentPageTypeOK, Mounted
  PROVE  url \in Url
BY ElementOfSeq, LenProperties DEF DocumentPageTypeOK, Mounted, url

\* Another URL of the same document.
LEMMA FollowKeeps ==
  ASSUME DocumentPageInv, NEW u \in Url, u.doc = url.doc, Follow(u)
  PROVE  DocumentPageInv'
<1>1. DocumentPageTypeOK /\ AnswerInv /\ AskedInv /\ GoTo(u) /\ UNCHANGED <<loaded, lastRequest, repeated>>
  BY DEF DocumentPageInv, Follow
<1>2. entries' \in Seq(Url) /\ here' \in DOMAIN entries' /\ here' # 0 /\ url' = u /\ gate' = gate
  BY <1>1, GoToDoes
<1>3. DocumentPageTypeOK'
  BY <1>1, <1>2 DEF DocumentPageTypeOK
<1>4. AnswerInv' /\ AskedInv'
  BY <1>1, <1>2 DEF AnswerInv, AskedInv, Mounted
<1> QED
  BY <1>3, <1>4 DEF DocumentPageInv

LEMMA OpenDocumentKeeps ==
  ASSUME DocumentPageInv, NEW doc \in Documents, OpenDocument(doc)
  PROVE  DocumentPageInv'
<1> DEFINE u == [doc |-> doc, tab |-> "overview", commit |-> Blank, offset |-> 0]
<1>1. DocumentPageTypeOK /\ AskedInv /\ GoTo(u) /\ loaded' = Unloaded(loaded.of)
      /\ lastRequest' = Blank /\ repeated' = repeated
  BY DEF DocumentPageInv, OpenDocument
<1>2. u \in Url
  BY PageAssumption DEF Url
<1>3. entries' \in Seq(Url) /\ here' \in DOMAIN entries' /\ here' # 0 /\ gate' = gate
  BY <1>1, <1>2, GoToDoes
<1>4. loaded.of \in Resources
  BY <1>1 DEF DocumentPageTypeOK
<1>5. DocumentPageTypeOK'
  BY <1>1, <1>3, <1>4, UnloadedType DEF DocumentPageTypeOK
<1>6. AnswerInv' /\ AskedInv'
  BY <1>1 DEF AnswerInv, AskedInv, Unloaded
<1> QED
  BY <1>5, <1>6 DEF DocumentPageInv

LEMMA TravelKeeps ==
  ASSUME DocumentPageInv, Mounted, Travel
  PROVE  DocumentPageInv'
<1>1. DocumentPageTypeOK /\ AnswerInv /\ AskedInv
  BY DEF DocumentPageInv
<1>2. PICK e \in DOMAIN entries \ {here} :
        here' = e /\ lastRequest' = IF entries[e].doc = url.doc THEN lastRequest ELSE Blank
  BY DEF Travel
<1>3. UNCHANGED <<gate, entries, loaded, repeated>>
  BY DEF Travel
<1>4. here' # 0 /\ here' \in DOMAIN entries' /\ url' = entries[e]
  BY <1>1, <1>2, <1>3, LenProperties DEF DocumentPageTypeOK, url
<1>5. DocumentPageTypeOK'
  BY <1>1, <1>2, <1>3, <1>4 DEF DocumentPageTypeOK
<1>6. AnswerInv' /\ AskedInv'
  BY <1>1, <1>2, <1>3, <1>4 DEF AnswerInv, AskedInv, Mounted
<1> QED
  BY <1>5, <1>6 DEF DocumentPageInv

LEMMA NavigateKeeps == DocumentPageInv /\ Navigate => DocumentPageInv'
<1> SUFFICES ASSUME DocumentPageInv, Navigate PROVE DocumentPageInv'
  OBVIOUS
<1>0. Mounted => url \in Url
  BY UrlType DEF DocumentPageInv
<1>1. ASSUME Mounted, NEW tab \in Tabs, OpenTab(tab) PROVE DocumentPageInv'
  <2> DEFINE u == [doc |-> url.doc, tab |-> tab, commit |-> Blank,
                   offset |-> IF tab = "history" THEN url.offset ELSE 0]
  <2>1. u \in Url /\ u.doc = url.doc
    BY <1>0, <1>1, PageAssumption DEF Url
  <2> QED
    BY <1>1, <2>1, FollowKeeps DEF OpenTab
<1>2. ASSUME Mounted, NEW commit \in Selectable, SelectVersion(commit) PROVE DocumentPageInv'
  <2>1. [url EXCEPT !.commit = commit] \in Url /\ [url EXCEPT !.commit = commit].doc = url.doc
    BY <1>0, <1>2 DEF Url
  <2> QED
    BY <1>2, <2>1, FollowKeeps DEF SelectVersion
<1>3. ASSUME Mounted, NEW first \in Offsets, TurnPage(first) PROVE DocumentPageInv'
  <2>1. [url EXCEPT !.offset = first] \in Url /\ [url EXCEPT !.offset = first].doc = url.doc
    BY <1>0, <1>3 DEF Url
  <2> QED
    BY <1>3, <2>1, FollowKeeps DEF TurnPage
<1> QED
  BY <1>1, <1>2, <1>3, OpenDocumentKeeps, TravelKeeps DEF Navigate

\* What a resource depends on, of the document that is shown.
LEMMA DependencyType ==
  ASSUME DocumentPageInv, Mounted
  PROVE  /\ Dependency \in Query \cup {Blank}
         /\ loaded.of \in {"detail", "content"} => Dependency = url.doc /\ Dependency # Blank
         /\ loaded.of = "versions" =>
              /\ Dependency # Blank => Dependency[1] = url.doc
              /\ lastRequest # Blank => Dependency # Blank
<1>0. /\ url \in Url /\ loaded.of \in Resources /\ loaded.memo \in Query \cup {Blank}
      /\ AnswerInv /\ AskedInv
  BY UrlType DEF DocumentPageInv, DocumentPageTypeOK
<1>1. url.doc \in Documents /\ url.commit \in Selectable \cup {Blank} /\ url.offset \in Offsets
  BY <1>0 DEF Url
<1>2. /\ url.doc \in Query /\ <<url.doc, url.offset>> \in Query
      /\ url.commit # Blank => <<url.doc, url.commit>> \in Query
  BY <1>1 DEF Query
<1>3. Blank \notin Query
  BY PageAssumption
<1>4. CASE loaded.of \in {"detail", "content"}
  BY <1>2, <1>3, <1>4 DEF Dependency
<1>5. CASE loaded.of = "versions"
  <2>1. Dependency = VersionsRequest
    BY <1>5 DEF Dependency
  <2>2. VersionsRequest \in Query \cup {Blank}
    BY <1>0, <1>2 DEF VersionsRequest
  <2>3. VersionsRequest # Blank => VersionsRequest[1] = url.doc
    BY DEF VersionsRequest
  <2>4. lastRequest # Blank => VersionsRequest # Blank
    BY <1>0, <1>2, <1>3, <1>5 DEF VersionsRequest, AnswerInv, AskedInv
  <2> QED
    BY <1>5, <2>1, <2>2, <2>3, <2>4
<1>6. CASE loaded.of \in {"historical", "diff", "source"}
  BY <1>2, <1>6 DEF Dependency, VersionSelected, SourceOf
<1> QED
  BY <1>0, <1>4, <1>5, <1>6 DEF Resources

LEMMA AskKeeps == DocumentPageInv /\ Ask => DocumentPageInv'
<1> SUFFICES ASSUME DocumentPageInv, Ask PROVE DocumentPageInv'
  OBVIOUS
<1>1. /\ DocumentPageTypeOK /\ AnswerInv /\ AskedInv /\ Mounted /\ UNCHANGED <<gate, entries, here>>
      /\ Dependency # loaded.asked
  BY DEF DocumentPageInv, Ask, Settled
<1>2. PICK wanted : wanted = Dependency
  OBVIOUS
<1>3. /\ loaded' = [loaded EXCEPT !.memo = wanted, !.asked = wanted,
                     !.running = wanted # Blank, !.holds = IF wanted = Blank THEN Blank ELSE @]
      /\ IF wanted = Blank THEN UNCHANGED <<lastRequest, repeated>>
         ELSE lastRequest' = wanted /\ repeated' = (repeated \/ wanted = lastRequest)
  BY <1>2 DEF Ask
<1>4. /\ wanted \in Query \cup {Blank}
      /\ loaded.of \in {"detail", "content"} => wanted # Blank
      /\ loaded.of = "versions" =>
           /\ wanted # Blank => wanted[1] = url.doc
           /\ lastRequest # Blank => wanted # Blank
  BY <1>1, <1>2, DependencyType
<1>5. /\ loaded'.of = loaded.of /\ loaded'.memo = wanted /\ loaded'.asked = wanted
      /\ (loaded'.running <=> wanted # Blank)
      /\ loaded'.holds = IF wanted = Blank THEN Blank ELSE loaded.holds
  BY <1>1, <1>3 DEF DocumentPageTypeOK
<1>6. url' = url /\ Mounted'
  BY <1>1 DEF url, Mounted
<1>7. DocumentPageTypeOK'
  <2>1. loaded' \in [of : Resources, memo : Query \cup {Blank}, asked : Query \cup {Blank},
                     running : BOOLEAN, holds : Given \cup {Blank}]
    BY <1>1, <1>3, <1>4 DEF DocumentPageTypeOK
  <2>2. lastRequest' \in Query \cup {Blank} /\ repeated' \in BOOLEAN
    BY <1>1, <1>3, <1>4 DEF DocumentPageTypeOK
  <2> QED
    BY <1>1, <2>1, <2>2 DEF DocumentPageTypeOK
<1>8. AnswerInv'
  BY <1>5 DEF AnswerInv
<1>9. AskedInv'
  <2>1. CASE loaded.of \notin {"detail", "content", "versions"}
    BY <1>5, <2>1 DEF AskedInv
  <2>2. CASE loaded.of \in {"detail", "content", "versions"} /\ wanted = Blank
    BY <1>1, <1>3, <1>4, <1>5, <2>2 DEF AskedInv
  <2>3. CASE loaded.of \in {"detail", "content", "versions"} /\ wanted # Blank
    <3>1. ~repeated'
      BY <1>1, <1>2, <1>3, <2>3 DEF AskedInv
    <3> QED
      BY <1>3, <1>4, <1>5, <1>6, <2>3, <3>1 DEF AskedInv
  <2> QED
    BY <2>1, <2>2, <2>3
<1> QED
  BY <1>7, <1>8, <1>9 DEF DocumentPageInv

LEMMA ArriveKeeps == DocumentPageInv /\ Arrive => DocumentPageInv'
<1> SUFFICES ASSUME DocumentPageInv, Arrive PROVE DocumentPageInv'
  OBVIOUS
<1>1. DocumentPageTypeOK /\ AnswerInv /\ AskedInv /\ UNCHANGED <<gate, entries, here, lastRequest, repeated>>
      /\ loaded.running
  BY DEF DocumentPageInv, Arrive
<1>2. PICK says \in {"found", "missing", "failed"} :
        loaded' = [loaded EXCEPT !.running = FALSE, !.holds = [of |-> loaded.asked, says |-> says]]
  BY DEF Arrive
<1>3. loaded.asked \in Query
  BY <1>1 DEF AnswerInv, DocumentPageTypeOK
<1>4. [of |-> loaded.asked, says |-> says] \in Given
  BY <1>3 DEF Given
<1>5. loaded' \in [of : Resources, memo : Query \cup {Blank}, asked : Query \cup {Blank},
                   running : BOOLEAN, holds : Given \cup {Blank}]
  BY <1>1, <1>2, <1>4 DEF DocumentPageTypeOK
<1>6. DocumentPageTypeOK'
  BY <1>1, <1>5 DEF DocumentPageTypeOK
<1>7. /\ loaded'.of = loaded.of /\ loaded'.memo = loaded.memo /\ loaded'.asked = loaded.asked
      /\ ~loaded'.running /\ loaded'.holds = [of |-> loaded.asked, says |-> says]
  BY <1>1, <1>2 DEF DocumentPageTypeOK
<1>8. AnswerInv'
  BY <1>1, <1>7 DEF AnswerInv
<1>9. AskedInv'
  BY <1>1, <1>7 DEF AskedInv, Mounted, url
<1> QED
  BY <1>6, <1>8, <1>9 DEF DocumentPageInv

LEMMA DocumentPageAlways == DocumentPageInv /\ [DocumentPageNext]_documentVars => DocumentPageInv'
<1> SUFFICES ASSUME DocumentPageInv, [DocumentPageNext]_documentVars PROVE DocumentPageInv'
  OBVIOUS
<1>1. CASE Poll
  BY <1>1 DEF Poll, DocumentPageInv, DocumentPageTypeOK, AnswerInv, AskedInv, Mounted, url
<1>2. CASE UNCHANGED documentVars
  BY <1>2 DEF documentVars, DocumentPageInv, DocumentPageTypeOK, AnswerInv, AskedInv, Mounted, url
<1> QED
  BY <1>1, <1>2, NavigateKeeps, AskKeeps, ArriveKeeps DEF DocumentPageNext

LEMMA InvShown == DocumentPageInv => ShownTrue
<1> SUFFICES ASSUME DocumentPageInv PROVE ShownTrue
  OBVIOUS
<1>1. AnswerInv /\ AskedInv
  BY DEF DocumentPageInv
<1>2. NothingReloaded
  BY <1>1 DEF AskedInv, NothingReloaded
<1>3. ASSUME Mounted, loaded.of \in Body, Settled, ~loaded.running
      PROVE  loaded.holds.of = (CASE loaded.of = "versions" -> <<url.doc, url.offset>>
                         [] loaded.of \in {"historical", "diff"} -> <<url.doc, url.commit>>
                         [] OTHER -> url.doc)
  <2>0. url \in Url /\ Blank \notin Query
    BY <1>3, UrlType, PageAssumption DEF DocumentPageInv
  <2>1. loaded.asked = Dependency
    BY <1>3 DEF Settled
  <2>2. Dependency # Blank => loaded.holds.of = Dependency
    BY <1>1, <1>3, <2>1 DEF AnswerInv
  <2>3. /\ url.doc \in Query /\ <<url.doc, url.offset>> \in Query
        /\ url.commit # Blank => <<url.doc, url.commit>> \in Query
    BY <2>0 DEF Url, Query
  <2>4. loaded.of = "versions" => url.tab = "history"
    BY <1>3 DEF Body
  <2>5. loaded.of \in {"historical", "diff"} => url.commit # Blank
    BY <1>3 DEF Body
  <2>6. loaded.of = "source" => url.tab = "source"
    BY <1>3 DEF Body
  <2>7. loaded.of \in {"detail", "content", "versions", "historical", "diff", "source"}
    BY DEF DocumentPageInv, DocumentPageTypeOK, Resources
  <2>8. CASE loaded.of = "versions"
    BY <2>0, <2>2, <2>3, <2>4, <2>8 DEF Dependency, VersionsRequest
  <2>9. CASE loaded.of \in {"historical", "diff"}
    BY <2>0, <2>2, <2>3, <2>5, <2>9 DEF Dependency, VersionSelected
  <2>10. CASE loaded.of \in {"detail", "content"}
    BY <2>0, <2>2, <2>3, <2>10 DEF Dependency
  <2>11. CASE loaded.of = "source"
    BY <2>0, <2>2, <2>3, <2>6, <2>11 DEF Dependency, SourceOf
  <2> QED
    BY <2>7, <2>8, <2>9, <2>10, <2>11
<1> QED
  BY <1>2, <1>3 DEF ShownTrue, ShownBelongs

\* The page of a document (dashboard/src/pages/document.rs) shows what its URL
\* names once everything has arrived, and asks for nothing of a document twice.
THEOREM ShownAlwaysTrue == DocumentPageSpec => [](DocumentPageTypeOK /\ ShownTrue)
<1>1. DocumentPageInv => DocumentPageTypeOK /\ ShownTrue
  BY InvShown DEF DocumentPageInv
<1> QED
  BY <1>1, DocumentPageInitially, DocumentPageAlways, PTL DEF DocumentPageSpec

-----------------------------------------------------------------------------
(* Pagination *)

LEMMA PageCounts ==
  ASSUME PaginationTypeOK
  PROVE  TotalPages \in Nat \ {0} /\ CurrentPage \in Nat \ {0}
<1>1. PICK l, t, o : l = PageLimit /\ t = total /\ o = offset
  OBVIOUS
<1>2. l \in Nat \ {0} /\ t \in Nat /\ o \in Nat
  BY <1>1, PaginationAssumption DEF PaginationTypeOK
<1>3. \A x \in Nat : x \div l \in Nat /\ (x >= l => x \div l # 0)
  BY <1>2
<1>4. t # 0 => t + l - 1 \in Nat /\ t + l - 1 >= l
  BY <1>2
<1> QED
  BY <1>1, <1>2, <1>3, <1>4 DEF TotalPages, CurrentPage

\* The number of pages from f to l.
LEMMA Span ==
  ASSUME NEW f \in Nat, NEW l \in Nat
  PROVE  \E k \in Nat : (f <= l => k = l - f + 1) /\ (~(f <= l) => k = 0)
<1>1. CASE f <= l
  <2>1. l - f + 1 \in Nat
    BY <1>1
  <2> QED
    BY <1>1, <2>1
<1>2. CASE ~(f <= l)
  BY <1>2
<1> QED
  BY <1>1, <1>2

LEMMA PagesFromTo ==
  ASSUME NEW f \in Nat, NEW l \in Nat,
         NEW k \in Nat, f <= l => k = l - f + 1, ~(f <= l) => k = 0
  PROVE  /\ PagesFrom(f, l) \in Seq(Nat) /\ Len(PagesFrom(f, l)) = k
         /\ \A i \in 1 .. k : PagesFrom(f, l)[i] = f + i - 1
<1>1. 1 .. l - f + 1 = 1 .. k
  OBVIOUS
<1>2. PagesFrom(f, l) = [i \in 1 .. k |-> f + i - 1]
  BY <1>1 DEF PagesFrom
<1>3. \A i \in 1 .. k : f + i - 1 \in Nat
  OBVIOUS
<1>4. PagesFrom(f, l) \in Seq(Nat) /\ Len(PagesFrom(f, l)) = k
  BY <1>2, <1>3, IsASeq
<1> QED
  BY <1>2, <1>4

\* A gap or none.
Dots(g) == IF g = 1 THEN <<Gap>> ELSE <<>>

LEMMA DotsAre ==
  ASSUME NEW g \in {0, 1}
  PROVE  Dots(g) \in Seq(Nat) /\ Len(Dots(g)) = g /\ \A i \in 1 .. g : Dots(g)[i] = 0
<1>1. CASE g = 0
  BY <1>1 DEF Dots
<1>2. CASE g = 1
  BY <1>2 DEF Dots, Gap
<1> QED
  BY <1>1, <1>2

\* The first page, the pages from f to l and the last one, with gaps.
Joined(g, f, l, h, n) == <<1>> \o Dots(g) \o PagesFrom(f, l) \o Dots(h) \o <<n>>

\* What stands where in it, k being the number of pages from f to l.
PartsOf(w, g, f, k, h, n) ==
  /\ w \in Seq(Nat) /\ Len(w) = g + k + h + 2
  /\ w[1] = 1 /\ w[g + k + h + 2] = n
  /\ g = 1 => w[2] = 0
  /\ h = 1 => w[g + k + 2] = 0
  /\ \A i \in 1 .. k : w[g + i + 1] = f + i - 1

LEMMA WindowParts ==
  ASSUME NEW n \in Nat, NEW f \in Nat, NEW l \in Nat, NEW g \in {0, 1}, NEW h \in {0, 1},
         NEW k \in Nat, f <= l => k = l - f + 1, ~(f <= l) => k = 0
  PROVE  PartsOf(Joined(g, f, l, h, n), g, f, k, h, n)
<1>a. PICK one, last : one = <<1>> /\ last = <<n>>
  OBVIOUS
<1> DEFINE A == Dots(g)
           M == PagesFrom(f, l)
           B == Dots(h)
           u == one \o A
           v == u \o M
           x == v \o B
           w == x \o last
<1>0. Joined(g, f, l, h, n) = w
  BY <1>a DEF Joined
<1>1. A \in Seq(Nat) /\ Len(A) = g /\ \A i \in 1 .. g : A[i] = 0
  BY DotsAre
<1>2. B \in Seq(Nat) /\ Len(B) = h /\ \A i \in 1 .. h : B[i] = 0
  BY DotsAre
<1>3. M \in Seq(Nat) /\ Len(M) = k /\ \A i \in 1 .. k : M[i] = f + i - 1
  BY PagesFromTo
<1>4. one \in Seq(Nat) /\ Len(one) = 1 /\ one[1] = 1
  BY <1>a
<1>5. last \in Seq(Nat) /\ Len(last) = 1 /\ last[1] = n
  BY <1>a
<1>6. g \in Nat /\ h \in Nat
  OBVIOUS
<1> HIDE DEF A, M, B
<1>7. u \in Seq(Nat) /\ Len(u) = g + 1 /\ u[1] = 1 /\ (g = 1 => u[2] = 0)
  <2>1. /\ u \in Seq(Nat) /\ Len(u) = 1 + g
        /\ \A i \in 1 .. 1 + g : u[i] = IF i <= 1 THEN one[i] ELSE A[i - 1]
    <3>1. PICK p \in Nat : p = 1
      OBVIOUS
    <3>2. Len(one) = p
      BY <1>4, <3>1
    <3>a. one \in Seq(Nat) /\ A \in Seq(Nat) /\ Len(A) = g /\ p \in Nat
      BY <1>1, <1>4, <3>1
    <3>3. /\ one \o A \in Seq(Nat) /\ Len(one \o A) = p + g
          /\ \A i \in 1 .. p + g : (one \o A)[i] = IF i <= p THEN one[i] ELSE A[i - p]
      <4>1. /\ one \o A \in Seq(Nat) /\ Len(one \o A) = Len(one) + Len(A)
            /\ \A i \in 1 .. Len(one) + Len(A) :
                 (one \o A)[i] = IF i <= Len(one) THEN one[i] ELSE A[i - Len(one)]
        BY <3>a, ConcatProperties
      <4> QED
        BY <3>2, <3>a, <4>1
    <3> QED
      BY <3>1, <3>3
  <2> HIDE DEF u
  <2>2. u[1] = 1
    BY <1>4, <1>6, <2>1
  <2>3. g = 1 => u[2] = A[1]
    BY <1>6, <2>1
  <2>4. g = 1 => A[1] = 0
    BY <1>1
  <2> QED
    BY <1>6, <2>1, <2>2, <2>3, <2>4
<1> HIDE DEF u
<1>8. /\ v \in Seq(Nat) /\ Len(v) = g + k + 1
      /\ v[1] = 1 /\ (g = 1 => v[2] = 0)
      /\ \A i \in 1 .. k : v[g + i + 1] = f + i - 1
  <2>1. /\ v \in Seq(Nat) /\ Len(v) = (g + 1) + k
        /\ \A i \in 1 .. (g + 1) + k : v[i] = IF i <= g + 1 THEN u[i] ELSE M[i - (g + 1)]
    BY <1>3, <1>7, ConcatProperties
  <2> HIDE DEF v
  <2>2. \A i \in 1 .. g + 1 : v[i] = u[i]
    BY <1>6, <2>1
  <2>3. ASSUME NEW i \in 1 .. k PROVE v[g + i + 1] = M[i]
    <3>1. g + i + 1 \in 1 .. (g + 1) + k /\ ~(g + i + 1 <= g + 1) /\ (g + i + 1) - (g + 1) = i
      BY <1>6
    <3> QED
      BY <2>1, <3>1
  <2>4. v[1] = 1
    BY <1>6, <1>7, <2>2
  <2>5. g = 1 => v[2] = 0
    BY <1>7, <2>2
  <2> QED
    BY <1>3, <1>6, <2>1, <2>3, <2>4, <2>5
<1> HIDE DEF v
<1>9. /\ x \in Seq(Nat) /\ Len(x) = g + k + h + 1
      /\ \A i \in 1 .. g + k + 1 : x[i] = v[i]
      /\ h = 1 => x[g + k + 2] = 0
  <2>1. /\ x \in Seq(Nat) /\ Len(x) = (g + k + 1) + h
        /\ \A i \in 1 .. (g + k + 1) + h : x[i] = IF i <= g + k + 1 THEN v[i] ELSE B[i - (g + k + 1)]
    BY <1>2, <1>8, ConcatProperties
  <2> HIDE DEF x
  <2>2. \A i \in 1 .. g + k + 1 : x[i] = v[i]
    BY <1>6, <2>1
  <2>3. ASSUME h = 1 PROVE x[g + k + 2] = 0
    <3>1. /\ g + k + 2 \in 1 .. (g + k + 1) + h /\ ~(g + k + 2 <= g + k + 1)
          /\ (g + k + 2) - (g + k + 1) = 1 /\ 1 \in 1 .. h
      BY <1>6, <2>3
    <3>2. x[g + k + 2] = B[1]
      BY <2>1, <3>1
    <3> QED
      BY <1>2, <3>1, <3>2
  <2> QED
    BY <1>6, <2>1, <2>2, <2>3
<1> HIDE DEF x
<1>10. /\ w \in Seq(Nat) /\ Len(w) = (g + k + h + 1) + 1
       /\ \A i \in 1 .. (g + k + h + 1) + 1 :
            w[i] = IF i <= g + k + h + 1 THEN x[i] ELSE last[i - (g + k + h + 1)]
  <2>1. PICK p \in Nat, q \in Nat : p = 1 /\ q = g + k + h + 1
    BY <1>6
  <2>2. Len(last) = p /\ Len(x) = q
    BY <1>5, <1>9, <2>1
  <2>a. x \in Seq(Nat) /\ last \in Seq(Nat) /\ p \in Nat /\ q \in Nat
    BY <1>5, <1>9, <2>1
  <2>3. /\ x \o last \in Seq(Nat) /\ Len(x \o last) = q + p
        /\ \A i \in 1 .. q + p : (x \o last)[i] = IF i <= q THEN x[i] ELSE last[i - q]
    <3>1. /\ x \o last \in Seq(Nat) /\ Len(x \o last) = Len(x) + Len(last)
          /\ \A i \in 1 .. Len(x) + Len(last) :
               (x \o last)[i] = IF i <= Len(x) THEN x[i] ELSE last[i - Len(x)]
      BY <2>a, ConcatProperties
    <3> QED
      BY <2>2, <2>a, <3>1
  <2> QED
    BY <2>1, <2>3
<1> HIDE DEF w
<1>11. \A i \in 1 .. g + k + h + 1 : w[i] = x[i]
  <2>1. \A i \in 1 .. g + k + h + 1 : i \in 1 .. (g + k + h + 1) + 1
    BY <1>6
  <2>2. \A i \in 1 .. g + k + h + 1 : i <= g + k + h + 1
    OBVIOUS
  <2> QED
    BY <1>10, <2>1, <2>2
<1>12. w[g + k + h + 2] = n
  <2>1. /\ g + k + h + 2 \in 1 .. (g + k + h + 1) + 1 /\ ~(g + k + h + 2 <= g + k + h + 1)
        /\ (g + k + h + 2) - (g + k + h + 1) = 1
    BY <1>6
  <2> QED
    BY <1>5, <1>10, <2>1
<1>13. \A i \in 1 .. g + k + 1 : w[i] = v[i]
  BY <1>6, <1>9, <1>11
<1>14. w[1] = 1 /\ (g = 1 => w[2] = 0)
  BY <1>6, <1>8, <1>13
<1>15. h = 1 => w[g + k + 2] = 0
  BY <1>6, <1>9, <1>11
<1>16. \A i \in 1 .. k : w[g + i + 1] = f + i - 1
  BY <1>6, <1>8, <1>13
<1>17. Len(w) = g + k + h + 2
  BY <1>6, <1>10
<1> QED
  BY <1>0, <1>10, <1>12, <1>14, <1>15, <1>16, <1>17 DEF PartsOf

\* The window of page c of n pages, as the property says it.
WindowFor(c, n, w) ==
  /\ w \in Seq(Nat) /\ Len(w) >= 1
  /\ \A i \in 1 .. Len(w) : w[i] \in 0 .. n
  /\ \A p \in {1, n} \cup ({c - 1, c, c + 1} \cap 1 .. n) : \E i \in 1 .. Len(w) : w[i] = p
  /\ w[1] # 0 /\ w[Len(w)] # 0
  /\ \A i \in 1 .. Len(w) - 1 : w[i] # 0 =>
       IF w[i + 1] = 0 THEN w[i + 2] > w[i] + 1
       ELSE w[i + 1] = w[i] + 1

\* The window in general: the current page may also lie beyond the last.
LEMMA WindowOf ==
  ASSUME NEW c \in Nat \ {0}, NEW n \in Nat \ {0}
  PROVE  WindowFor(c, n, PageWindow(c, n))
<1> SUFFICES ASSUME NEW w, w = PageWindow(c, n) PROVE WindowFor(c, n, w)
  OBVIOUS
<1>1. CASE n <= 7
  <2>1. w = PagesFrom(1, n)
    BY <1>1 DEF PageWindow
  <2>2. w \in Seq(Nat) /\ Len(w) = n /\ \A i \in 1 .. n : w[i] = i
    <3>1. (1 <= n => n = n - 1 + 1) /\ (~(1 <= n) => n = 0)
      OBVIOUS
    <3>2. w \in Seq(Nat) /\ Len(w) = n /\ \A i \in 1 .. n : w[i] = 1 + i - 1
      BY <2>1, <3>1, PagesFromTo
    <3> QED
      BY <3>2
  <2> QED
    BY <2>2 DEF WindowFor
<1>2. CASE ~(n <= 7)
  <2>1. PICK f \in Nat, l \in Nat : /\ f = IF c - 1 < 2 THEN 2 ELSE c - 1
                                    /\ l = IF c + 1 < n - 1 THEN c + 1 ELSE n - 1
    BY <1>2
  <2>2. PICK g \in {0, 1} : g = 1 <=> c > 3
    OBVIOUS
  <2>3. PICK h \in {0, 1} : h = 1 <=> c < n - 2
    OBVIOUS
  <2>4. w = Joined(g, f, l, h, n)
    BY <1>2, <2>1, <2>2, <2>3 DEF PageWindow, Joined, Dots
  <2>5. PICK k \in Nat : (f <= l => k = l - f + 1) /\ (~(f <= l) => k = 0)
    BY Span
  <2>6. /\ w \in Seq(Nat) /\ Len(w) = g + k + h + 2
        /\ w[1] = 1 /\ w[g + k + h + 2] = n
        /\ g = 1 => w[2] = 0
        /\ h = 1 => w[g + k + 2] = 0
        /\ \A i \in 1 .. k : w[g + i + 1] = f + i - 1
    <3>1. PartsOf(Joined(g, f, l, h, n), g, f, k, h, n)
      BY <2>5, WindowParts
    <3> QED
      BY <2>4, <3>1 DEF PartsOf
  <2>7. /\ g \in Nat /\ h \in Nat /\ 2 <= f /\ l <= n - 1
        /\ c - 1 < 2 => f = 2
        /\ ~(c - 1 < 2) => f = c - 1
        /\ c + 1 < n - 1 => l = c + 1
        /\ ~(c + 1 < n - 1) => l = n - 1
    BY <1>2, <2>1
  \* Every position: first, gap, middle, gap, last.
  <2>8. ASSUME NEW i \in 1 .. g + k + h + 2
        PROVE  \/ i = 1 \/ i = g + k + h + 2
               \/ g = 1 /\ i = 2
               \/ \E j \in 1 .. k : i = g + j + 1
               \/ h = 1 /\ i = g + k + 2
    <3>1. CASE i <= g + 1
      BY <2>7, <3>1
    <3>2. CASE g + 1 < i /\ i <= g + k + 1
      <4>1. i - g - 1 \in 1 .. k /\ i = g + (i - g - 1) + 1
        BY <2>7, <3>2
      <4> QED
        BY <4>1
    <3>3. CASE g + k + 1 < i
      BY <2>7, <3>3
    <3> QED
      BY <2>7, <3>1, <3>2, <3>3
  <2>9. ASSUME NEW i \in 1 .. g + k + h + 2 PROVE w[i] \in 0 .. n
    <3>1. \A j \in 1 .. k : w[g + j + 1] \in 0 .. n
      <4>1. ASSUME NEW j \in 1 .. k PROVE f + j - 1 \in 0 .. n
        BY <1>2, <2>5, <2>7
      <4> QED
        BY <2>6, <4>1
    <3>2. 0 \in 0 .. n /\ 1 \in 0 .. n /\ n \in 0 .. n
      BY <1>2
    <3> QED
      BY <2>6, <2>8, <3>1, <3>2
  <2>10. ASSUME NEW p \in f .. l PROVE \E i \in 1 .. g + k + h + 2 : w[i] = p
    <3>1. PICK j \in 1 .. k : p = f + j - 1
      <4>1. p - f + 1 \in 1 .. k /\ p = f + (p - f + 1) - 1
        BY <2>5
      <4> QED
        BY <4>1
    <3>2. g + j + 1 \in 1 .. g + k + h + 2
      BY <2>7
    <3> QED
      BY <2>6, <3>1, <3>2
  <2>11. 1 \in 1 .. g + k + h + 2 /\ g + k + h + 2 \in 1 .. g + k + h + 2
    BY <2>7
  <2>12. \A p \in {1, n} : \E i \in 1 .. g + k + h + 2 : w[i] = p
    BY <2>6, <2>11
  <2>13. \A p \in {c - 1, c, c + 1} \cap 1 .. n : p \in {1, n} \cup f .. l
    BY <1>2, <2>7
  <2>14. ASSUME NEW i \in 1 .. g + k + h + 2, i # g + k + h + 2, w[i] # 0
         PROVE  IF w[i + 1] = 0 THEN w[i + 2] > w[i] + 1 ELSE w[i + 1] = w[i] + 1
    <3>1. CASE i = 1 /\ g = 1 /\ f <= l
      <4>1. 1 \in 1 .. k
        BY <2>5, <3>1
      <4>2. w[1 + 1 + 1] = f + 1 - 1
        BY <2>6, <3>1, <4>1
      <4>3. w[2] = 0 /\ w[3] = f /\ f > 2
        BY <2>2, <2>6, <2>7, <3>1, <4>2
      <4> QED
        BY <2>6, <3>1, <4>3
    <3>2. CASE i = 1 /\ g = 1 /\ ~(f <= l)
      <4>1. k = 0 /\ h = 0
        BY <1>2, <2>2, <2>3, <2>5, <2>7, <3>2
      <4>2. w[2] = 0 /\ w[3] = n
        BY <2>6, <3>2, <4>1
      <4> QED
        BY <1>2, <2>6, <3>2, <4>2
    <3>3. CASE i = 1 /\ g = 0
      <4>1. f = 2 /\ 1 \in 1 .. k
        BY <1>2, <2>2, <2>5, <2>7, <3>3
      <4>2. w[0 + 1 + 1] = f + 1 - 1
        BY <2>6, <3>3, <4>1
      <4>3. w[2] = 2
        BY <4>1, <4>2
      <4> QED
        BY <2>6, <3>3, <4>3
    <3>4. ASSUME NEW j \in 1 .. k, i = g + j + 1
          PROVE  IF w[i + 1] = 0 THEN w[i + 2] > w[i] + 1 ELSE w[i + 1] = w[i] + 1
      <4>1. w[i] = f + j - 1
        BY <2>6, <3>4
      <4>2. CASE j < k
        <5>1. j + 1 \in 1 .. k /\ i + 1 = g + (j + 1) + 1
          BY <2>7, <3>4, <4>2
        <5>2. w[i + 1] = f + (j + 1) - 1
          BY <2>6, <5>1
        <5>3. w[i + 1] = w[i] + 1 /\ w[i + 1] # 0
          BY <2>7, <4>1, <5>2
        <5> QED
          BY <5>3
      <4>3. CASE j = k /\ h = 1
        <5>1. w[i] = l /\ i + 1 = g + k + 2 /\ i + 2 = g + k + h + 2
          BY <2>5, <2>7, <3>4, <4>1, <4>3
        <5>2. w[i + 1] = 0 /\ w[i + 2] = n
          BY <2>6, <4>3, <5>1
        <5>3. n > l + 1
          BY <1>2, <2>3, <2>7, <4>3
        <5> QED
          BY <5>1, <5>2, <5>3
      <4>4. CASE j = k /\ h = 0
        <5>1. w[i] = l /\ i + 1 = g + k + h + 2 /\ f <= l
          BY <2>5, <2>7, <3>4, <4>1, <4>4
        <5>2. w[i + 1] = n
          BY <2>6, <5>1
        <5>3. n = l + 1
          BY <1>2, <2>3, <2>7, <4>4, <5>1
        <5> QED
          BY <1>2, <5>1, <5>2, <5>3
      <4> QED
        BY <4>2, <4>3, <4>4
    <3>5. ~(g = 1 /\ i = 2) /\ ~(h = 1 /\ i = g + k + 2)
      BY <2>6, <2>14
    <3>6. i = 1 \/ \E j \in 1 .. k : i = g + j + 1
      BY <2>8, <2>14, <3>5
    <3>7. CASE i = 1
      BY <3>1, <3>2, <3>3, <3>7
    <3>8. CASE \E j \in 1 .. k : i = g + j + 1
      BY <3>4, <3>8
    <3> QED
      BY <3>6, <3>7, <3>8
  <2>15. w[1] # 0 /\ w[Len(w)] # 0 /\ Len(w) >= 1
    BY <1>2, <2>6, <2>7
  <2>16. \A i \in 1 .. Len(w) : w[i] \in 0 .. n
    BY <2>6, <2>9
  <2>17. \A p \in {1, n} \cup ({c - 1, c, c + 1} \cap 1 .. n) : \E i \in 1 .. Len(w) : w[i] = p
    BY <2>6, <2>10, <2>12, <2>13
  <2>18. \A i \in 1 .. Len(w) - 1 : w[i] # 0 =>
           IF w[i + 1] = 0 THEN w[i + 2] > w[i] + 1 ELSE w[i + 1] = w[i] + 1
    <3>1. \A i \in 1 .. Len(w) - 1 : i \in 1 .. g + k + h + 2 /\ i # g + k + h + 2
      BY <2>6, <2>7
    <3> QED
      BY <2>14, <3>1
  <2> QED
    BY <2>6, <2>15, <2>16, <2>17, <2>18 DEF WindowFor
<1> QED
  BY <1>1, <1>2

LEMMA TypeGivesWindow == PaginationTypeOK => WindowTrue
<1> SUFFICES ASSUME PaginationTypeOK PROVE WindowTrue
  OBVIOUS
<1>1. PICK c, n, w : c = CurrentPage /\ n = TotalPages /\ w = Numbers
  OBVIOUS
<1>2. c \in Nat \ {0} /\ n \in Nat \ {0} /\ w = PageWindow(c, n)
  BY <1>1, PageCounts DEF Numbers
<1>a. WindowFor(c, n, w)
  BY <1>2, WindowOf
<1>3. /\ w \in Seq(Nat) /\ Len(w) >= 1
      /\ \A i \in 1 .. Len(w) : w[i] \in 0 .. n
      /\ \A p \in {1, n} \cup ({c - 1, c, c + 1} \cap 1 .. n) : \E i \in 1 .. Len(w) : w[i] = p
      /\ w[1] # 0 /\ w[Len(w)] # 0
      /\ \A i \in 1 .. Len(w) - 1 : w[i] # 0 =>
           IF w[i + 1] = 0 THEN w[i + 2] > w[i] + 1
           ELSE w[i + 1] = w[i] + 1
  BY <1>a DEF WindowFor
<1>4. ToSet(w) = {w[i] : i \in 1 .. Len(w)}
  BY <1>3, LenProperties DEF ToSet
<1>5. ToSet(w) \ {0} \subseteq 1 .. n
  BY <1>2, <1>3, <1>4
<1>6. {1, n} \cup ({c - 1, c, c + 1} \cap 1 .. n) \subseteq ToSet(w) \ {0}
  <2>1. \A p \in {1, n} \cup ({c - 1, c, c + 1} \cap 1 .. n) : p # 0
    BY <1>2
  <2>2. \A p \in {1, n} \cup ({c - 1, c, c + 1} \cap 1 .. n) : p \in ToSet(w)
    BY <1>3, <1>4
  <2> QED
    BY <2>1, <2>2
<1> QED
  BY <1>1, <1>3, <1>5, <1>6 DEF WindowTrue, Gap

\* The numbers below a table (dashboard/src/components/pagination.rs) lead to
\* pages that exist, and the dots stand where some are left out, for any offset
\* and any number of records.
THEOREM WindowAlwaysTrue == PaginationSpec => [](PaginationTypeOK /\ WindowTrue)
<1>1. PaginationInit => PaginationTypeOK
  BY PaginationAssumption DEF PaginationInit, PaginationTypeOK
<1>2. PaginationTypeOK /\ [PaginationNext]_numberVars => PaginationTypeOK'
  <2> SUFFICES ASSUME PaginationTypeOK, [PaginationNext]_numberVars PROVE PaginationTypeOK'
    OBVIOUS
  <2>0. offset \in Nat /\ total \in Nat /\ PageLimit \in Nat \ {0} /\ MaxTotal \in Nat
    BY PaginationAssumption DEF PaginationTypeOK
  <2>1. CASE OnPrev \/ OnNext \/ NewTotal \/ UNCHANGED numberVars
    BY <2>0, <2>1 DEF OnPrev, OnNext, NewTotal, numberVars, PaginationTypeOK
  <2>2. CASE GoToPage
    <3>1. PICK p \in ToSet(Numbers) \ {Gap, CurrentPage} : offset' = (p - 1) * PageLimit /\ total' = total
      BY <2>2 DEF GoToPage
    <3>2. p \in 1 .. TotalPages /\ TotalPages \in Nat
      BY <3>1, TypeGivesWindow, PageCounts DEF WindowTrue
    <3>3. p - 1 \in Nat
      BY <3>2
    <3>4. (p - 1) * PageLimit \in Nat
      BY <2>0, <3>3
    <3> QED
      BY <2>0, <3>1, <3>4 DEF PaginationTypeOK
  <2> QED
    BY <2>1, <2>2 DEF PaginationNext
<1> QED
  BY <1>1, <1>2, TypeGivesWindow, PTL DEF PaginationSpec

-----------------------------------------------------------------------------
(* DiffView: loops over the lines *)

LEMMA UpTo ==
  ASSUME NEW N \in Nat, NEW T, \A n \in 0 .. N : 0 .. n - 1 \subseteq T => n \in T
  PROVE  0 .. N \subseteq T
<1> DEFINE rest == 0 .. N \ T
           R == {ss \in Nat \X Nat : ss[1] < ss[2]}
<1> SUFFICES ASSUME rest # {} PROVE FALSE
  OBVIOUS
<1>1. IsWellFoundedOn(R, Nat)
  BY NatLessThanWellFounded DEF OpToRel
<1>2. rest \subseteq Nat
  OBVIOUS
<1> HIDE DEF R
<1>3. PICK m \in rest : \A k \in rest : <<k, m>> \notin R
  BY <1>1, <1>2, WFMin
<1>4. \A k \in rest : ~(k < m)
  BY <1>2, <1>3 DEF R
<1>5. 0 .. m - 1 \subseteq T
  BY <1>3, <1>4
<1> QED
  BY <1>3, <1>5

\* A loop: its first state, and the next one of a state.
Loop(N, S, b, G) == N \in Nat /\ b \in S /\ \A n \in 1 .. N : \A s \in S : G[<<n, s>>] \in S

LEMMA Looping ==
  ASSUME NEW N, NEW S, NEW b, NEW G, Loop(N, S, b, G)
  PROVE  \E f \in [0 .. N -> S] : f[0] = b /\ \A n \in 1 .. N : f[n] = G[<<n, f[n - 1]>>]
<1> DEFINE Is(f, m) == f \in [0 .. m -> S] /\ f[0] = b /\ \A n \in 1 .. m : f[n] = G[<<n, f[n - 1]>>]
           T == {m \in Nat : \E f : Is(f, m)}
<1>1. N \in Nat /\ b \in S /\ \A n \in 1 .. N : \A s \in S : G[<<n, s>>] \in S
  BY DEF Loop
<1>2. ASSUME NEW m \in 0 .. N, 0 .. m - 1 \subseteq T PROVE m \in T
  <2>1. CASE m = 0
    <3>1. PICK f : f = [i \in 0 .. 0 |-> b]
      OBVIOUS
    <3>2. Is(f, m)
      BY <1>1, <2>1, <3>1
    <3> QED
      BY <1>1, <3>2
  <2>2. CASE m # 0
    <3>1. m - 1 \in 0 .. m - 1 /\ m \in 1 .. N /\ m \in Nat
      BY <1>1, <2>2
    <3>2. m - 1 \in T
      BY <1>2, <3>1
    <3>3. PICK f : Is(f, m - 1)
      BY <3>2
    <3>4. f[m - 1] \in S
      BY <3>1, <3>3
    <3>5. PICK v \in S : v = G[<<m, f[m - 1]>>]
      BY <1>1, <3>1, <3>4
    <3>6. PICK g : g = [i \in 0 .. m |-> IF i = m THEN v ELSE f[i]]
      OBVIOUS
    <3>7. \A i \in 0 .. m : i # m => i \in 0 .. m - 1
      BY <3>1
    <3>8. g \in [0 .. m -> S] /\ g[m] = v /\ \A i \in 0 .. m - 1 : g[i] = f[i]
      BY <3>1, <3>3, <3>6, <3>7
    <3>9. g[0] = b
      BY <3>1, <3>3, <3>8
    <3>10. ASSUME NEW n \in 1 .. m PROVE g[n] = G[<<n, g[n - 1]>>]
      <4>1. CASE n = m
        BY <3>1, <3>5, <3>8, <4>1
      <4>2. CASE n # m
        <5>1. n \in 1 .. m - 1 /\ n \in 0 .. m - 1 /\ n - 1 \in 0 .. m - 1
          BY <3>1, <4>2
        <5> QED
          BY <3>3, <3>8, <5>1
      <4> QED
        BY <4>1, <4>2
    <3>11. Is(g, m)
      BY <3>8, <3>9, <3>10
    <3> HIDE DEF Is
    <3> QED
      BY <3>1, <3>11
  <2> QED
    BY <2>1, <2>2
<1>3. 0 .. N \subseteq T
  <2> HIDE DEF T
  <2> QED
    BY <1>1, <1>2, UpTo
<1>4. N \in T
  <2> HIDE DEF T
  <2> QED
    BY <1>1, <1>3
<1>5. PICK f : Is(f, N)
  <2> HIDE DEF Is
  <2> QED
    BY <1>4
<1> QED
  BY <1>5

(* DiffView: counting *)

LEMMA CountTypes ==
  ASSUME NEW N \in Nat, NEW A \in SUBSET (1 .. N)
  PROVE  IsFiniteSet(A) /\ Cardinality(A) \in Nat
<1>1. 1 \in Int /\ N \in Int
  OBVIOUS
<1>2. IsFiniteSet(1 .. N)
  BY <1>1, FS_Interval
<1>3. IsFiniteSet(A)
  BY <1>2, FS_Subset
<1> QED
  BY <1>3, FS_CardinalityType

LEMMA OneMore ==
  ASSUME NEW N \in Nat, NEW A \in SUBSET (1 .. N), NEW n \in Nat, n \notin A
  PROVE  Cardinality(A \cup {n}) = Cardinality(A) + 1
BY CountTypes, FS_AddElement

\* The elements of A up to n.
Count(A, n) == Cardinality({j \in A : j <= n})

LEMMA CountIs ==
  ASSUME NEW N \in Nat, NEW A \in SUBSET (1 .. N)
  PROVE  /\ \A n \in Nat : Count(A, n) \in Nat
         /\ Count(A, 0) = 0
         /\ \A n \in Nat \ {0} : Count(A, n) = IF n \in A THEN Count(A, n - 1) + 1 ELSE Count(A, n - 1)
         /\ \A n \in Nat : n >= N => Count(A, n) = Cardinality(A)
<1>0. \A j \in A : j \in Nat /\ 1 <= j /\ j <= N
  OBVIOUS
<1>1. \A n \in Nat : {j \in A : j <= n} \in SUBSET (1 .. N)
  OBVIOUS
<1>2. \A n \in Nat : Count(A, n) \in Nat
  BY <1>1, CountTypes DEF Count
<1>3. {j \in A : j <= 0} = {}
  <2>1. \A j \in A : ~(j <= 0)
    BY <1>0
  <2> QED
    BY <2>1
<1>4. ASSUME NEW n \in Nat \ {0}
      PROVE  Count(A, n) = IF n \in A THEN Count(A, n - 1) + 1 ELSE Count(A, n - 1)
  <2>1. PICK B \in SUBSET (1 .. N) : B = {j \in A : j <= n - 1}
    OBVIOUS
  <2>2. n \notin B /\ n \in Nat
    BY <2>1
  <2>3. CASE n \in A
    <3>1. {j \in A : j <= n} = B \cup {n}
      <4>1. \A j \in A : j <= n <=> j <= n - 1 \/ j = n
        BY <1>0
      <4>2. n <= n
        OBVIOUS
      <4> QED
        BY <2>1, <2>3, <4>1, <4>2
    <3>2. Cardinality(B \cup {n}) = Cardinality(B) + 1
      BY <2>2, OneMore
    <3> QED
      BY <2>1, <2>3, <3>1, <3>2 DEF Count
  <2>4. CASE n \notin A
    <3>1. {j \in A : j <= n} = B
      <4>1. \A j \in A : j # n => (j <= n <=> j <= n - 1)
        BY <1>0
      <4> QED
        BY <2>1, <2>4, <4>1
    <3> QED
      BY <2>1, <2>4, <3>1 DEF Count
  <2> QED
    BY <2>3, <2>4
<1>5. \A n \in Nat : n >= N => {j \in A : j <= n} = A
  <2>1. ASSUME NEW n \in Nat, n >= N, NEW j \in A PROVE j <= n
    BY <1>0, <2>1
  <2> QED
    BY <2>1
<1> QED
  BY <1>2, <1>3, <1>4, <1>5, FS_EmptySet DEF Count

(* DiffView: the numbers of the lines *)

DiffLines == [tag : Tags, old : Nat, new : Nat]

LinesOfOld(tags) == {j \in DOMAIN tags : tags[j] # "insert"}
LinesOfNew(tags) == {j \in DOMAIN tags : tags[j] # "delete"}

\* Line i with its numbers, said without a loop.
PlaceIn(tags, i) ==
  [tag |-> tags[i],
   old |-> IF tags[i] = "insert" THEN 0 ELSE Count(LinesOfOld(tags), i),
   new |-> IF tags[i] = "delete" THEN 0 ELSE Count(LinesOfNew(tags), i)]

\* One more line in the loop of assign_line_numbers.
NumberedNext(tags, before, n) ==
  LET tag == tags[n]
      old == IF tag = "insert" THEN before.old ELSE before.old + 1
      new == IF tag = "delete" THEN before.new ELSE before.new + 1 IN
  [old |-> old, new |-> new,
   lines |-> Append(before.lines, [tag |-> tag,
               old |-> IF tag = "insert" THEN 0 ELSE old,
               new |-> IF tag = "delete" THEN 0 ELSE new])]

LEMMA NumberedIs ==
  ASSUME NEW tags
  PROVE  Numbered(tags) =
           (CHOOSE numbered : numbered = [n \in 0 .. Len(tags) |->
              IF n = 0 THEN [old |-> 0, new |-> 0, lines |-> <<>>]
              ELSE NumberedNext(tags, numbered[n - 1], n)])[Len(tags)].lines
BY DEF Numbered, NumberedNext

LEMMA LinesNumbered ==
  ASSUME NEW tags \in Seq(Tags)
  PROVE  /\ Numbered(tags) \in Seq(DiffLines)
         /\ Len(Numbered(tags)) = Len(tags)
         /\ \A i \in 1 .. Len(tags) : Numbered(tags)[i] = PlaceIn(tags, i)
<1> DEFINE N == Len(tags)
           Start == [old |-> 0, new |-> 0, lines |-> <<>>]
           S == [old : Nat, new : Nat, lines : Seq(DiffLines)]
           looped(f) == [n \in 0 .. N |-> IF n = 0 THEN Start ELSE NumberedNext(tags, f[n - 1], n)]
           A == LinesOfOld(tags)
           B == LinesOfNew(tags)
<1>1. N \in Nat /\ DOMAIN tags = 1 .. N /\ \A n \in 1 .. N : tags[n] \in Tags
  BY LenProperties, ElementOfSeq
<1>2. Start \in S
  OBVIOUS
<1>3. ASSUME NEW before \in S, NEW n \in 1 .. N
      PROVE  /\ NumberedNext(tags, before, n) \in S
             /\ NumberedNext(tags, before, n).old = IF tags[n] = "insert" THEN before.old ELSE before.old + 1
             /\ NumberedNext(tags, before, n).new = IF tags[n] = "delete" THEN before.new ELSE before.new + 1
             /\ NumberedNext(tags, before, n).lines =
                  Append(before.lines,
                         [tag |-> tags[n],
                          old |-> IF tags[n] = "insert" THEN 0 ELSE before.old + 1,
                          new |-> IF tags[n] = "delete" THEN 0 ELSE before.new + 1])
  <2>1. PICK tag \in Tags : tag = tags[n]
    BY <1>1
  <2>2. PICK old \in Nat : old = IF tag = "insert" THEN before.old ELSE before.old + 1
    OBVIOUS
  <2>3. PICK new \in Nat : new = IF tag = "delete" THEN before.new ELSE before.new + 1
    OBVIOUS
  <2>4. PICK line \in DiffLines : line = [tag |-> tag,
                                          old |-> IF tag = "insert" THEN 0 ELSE old,
                                          new |-> IF tag = "delete" THEN 0 ELSE new]
    <3>1. PICK o \in Nat : o = IF tag = "insert" THEN 0 ELSE old
      OBVIOUS
    <3>2. PICK m \in Nat : m = IF tag = "delete" THEN 0 ELSE new
      OBVIOUS
    <3>3. [tag |-> tag, old |-> o, new |-> m] \in DiffLines
      BY DEF DiffLines
    <3> QED
      BY <3>1, <3>2, <3>3
  <2>5. line = [tag |-> tag,
                old |-> IF tag = "insert" THEN 0 ELSE before.old + 1,
                new |-> IF tag = "delete" THEN 0 ELSE before.new + 1]
    BY <2>2, <2>3, <2>4
  <2>6. NumberedNext(tags, before, n) = [old |-> old, new |-> new, lines |-> Append(before.lines, line)]
    BY <2>1, <2>2, <2>3, <2>4 DEF NumberedNext
  <2>7. Append(before.lines, line) \in Seq(DiffLines)
    BY AppendProperties
  <2> QED
    BY <2>1, <2>2, <2>3, <2>5, <2>6, <2>7
<1>4. \E f : f = looped(f)
  <2> DEFINE G == [x \in (1 .. N) \X S |-> NumberedNext(tags, x[2], x[1])]
  <2>1. \A n \in 1 .. N : \A s \in S : G[<<n, s>>] = NumberedNext(tags, s, n)
    OBVIOUS
  <2>2. Loop(N, S, Start, G)
    <3> HIDE DEF S, Start, G
    <3> QED
      BY <1>1, <1>2, <1>3, <2>1 DEF Loop
  <2> HIDE DEF S, Start, G, N
  <2>3. PICK f \in [0 .. N -> S] : f[0] = Start /\ \A n \in 1 .. N : f[n] = G[<<n, f[n - 1]>>]
    BY <2>2, Looping
  <2>4. ASSUME NEW n \in 0 .. N, n # 0 PROVE f[n] = NumberedNext(tags, f[n - 1], n)
    <3>1. n \in 1 .. N /\ n - 1 \in 0 .. N
      BY <1>1, <2>4
    <3> QED
      BY <2>1, <2>3, <3>1
  <2>5. f = looped(f)
    BY <2>3, <2>4
  <2> QED
    BY <2>5
<1>5. PICK f : f = (CHOOSE g : g = looped(g)) /\ f = looped(f)
  BY <1>4
<1>6. \A n \in 0 .. N : f[n] = IF n = 0 THEN Start ELSE NumberedNext(tags, f[n - 1], n)
  <2>1. PICK g : g = looped(f)
    OBVIOUS
  <2>2. \A n \in 0 .. N : g[n] = IF n = 0 THEN Start ELSE NumberedNext(tags, f[n - 1], n)
    BY <2>1
  <2>3. g = f
    BY <1>5, <2>1
  <2> QED
    BY <2>2, <2>3
<1>7. A \in SUBSET (1 .. N) /\ B \in SUBSET (1 .. N)
  BY <1>1 DEF LinesOfOld, LinesOfNew
<1>8. \A n \in 1 .. N : (n \in A <=> tags[n] # "insert") /\ (n \in B <=> tags[n] # "delete")
  BY <1>1 DEF LinesOfOld, LinesOfNew
<1>9. \A n \in 1 .. N : PlaceIn(tags, n) =
        [tag |-> tags[n], old |-> IF tags[n] = "insert" THEN 0 ELSE Count(A, n),
         new |-> IF tags[n] = "delete" THEN 0 ELSE Count(B, n)]
  BY DEF PlaceIn
<1> HIDE DEF A, B
<1> DEFINE Done(n) == /\ f[n] \in S
                      /\ f[n].old = Count(A, n) /\ f[n].new = Count(B, n)
                      /\ Len(f[n].lines) = n
                      /\ \A k \in 1 .. n : f[n].lines[k] = PlaceIn(tags, k)
           T == {n \in 0 .. N : Done(n)}
<1>10. ASSUME NEW n \in 0 .. N, 0 .. n - 1 \subseteq T PROVE n \in T
  <2>1. CASE n = 0
    <3>1. f[n] = Start
      BY <1>6, <2>1
    <3>2. Count(A, 0) = 0 /\ Count(B, 0) = 0
      BY <1>1, <1>7, CountIs
    <3>3. Start.old = 0 /\ Start.new = 0 /\ Len(Start.lines) = 0 /\ 1 .. 0 = {}
      OBVIOUS
    <3> HIDE DEF S, Start
    <3>4. Done(n)
      BY <1>2, <2>1, <3>1, <3>2, <3>3
    <3> QED
      BY <3>4
  <2>2. CASE n # 0
    <3>1. n \in 1 .. N /\ n - 1 \in 0 .. n - 1 /\ n \in Nat \ {0}
      BY <1>1, <2>2
    <3>2. Done(n - 1)
      BY <1>10, <3>1
    <3>3. PICK before \in S : before = f[n - 1]
      BY <3>2
    <3>4. /\ before.old = Count(A, n - 1) /\ before.new = Count(B, n - 1)
          /\ Len(before.lines) = n - 1
          /\ \A k \in 1 .. n - 1 : before.lines[k] = PlaceIn(tags, k)
      BY <3>2, <3>3
    <3>5. f[n] = NumberedNext(tags, before, n)
      BY <1>6, <2>2, <3>3
    <3>6. f[n] \in S
      BY <1>3, <3>1, <3>5
    <3>7. /\ Count(A, n) = IF n \in A THEN Count(A, n - 1) + 1 ELSE Count(A, n - 1)
          /\ Count(B, n) = IF n \in B THEN Count(B, n - 1) + 1 ELSE Count(B, n - 1)
      BY <1>1, <1>7, <3>1, CountIs
    <3>8. f[n].old = Count(A, n) /\ f[n].new = Count(B, n)
      BY <1>3, <1>8, <3>1, <3>4, <3>5, <3>7
    <3>9. PICK line : line = PlaceIn(tags, n)
      OBVIOUS
    <3>10. f[n].lines = Append(before.lines, line)
      <4>1. tags[n] # "insert" => before.old + 1 = Count(A, n)
        BY <1>8, <3>1, <3>4, <3>7
      <4>2. tags[n] # "delete" => before.new + 1 = Count(B, n)
        BY <1>8, <3>1, <3>4, <3>7
      <4>3. line = [tag |-> tags[n],
                    old |-> IF tags[n] = "insert" THEN 0 ELSE before.old + 1,
                    new |-> IF tags[n] = "delete" THEN 0 ELSE before.new + 1]
        BY <1>9, <3>1, <3>9, <4>1, <4>2
      <4> QED
        BY <1>3, <3>1, <3>5, <4>3
    <3>11. PICK lines \in Seq(DiffLines) : lines = before.lines
      BY <3>3
    <3>12. Len(Append(lines, line)) = n /\ Append(lines, line)[n] = line
           /\ \A k \in 1 .. n - 1 : Append(lines, line)[k] = lines[k]
      BY <3>1, <3>4, <3>11
    <3>13. \A k \in 1 .. n : k \in 1 .. n - 1 \/ k = n
      BY <3>1
    <3>14. \A k \in 1 .. n : Append(lines, line)[k] = PlaceIn(tags, k)
      BY <3>4, <3>9, <3>11, <3>12, <3>13
    <3> HIDE DEF S
    <3> QED
      BY <3>6, <3>8, <3>10, <3>11, <3>12, <3>14
  <2> QED
    BY <2>1, <2>2
<1>11. 0 .. N \subseteq T
  <2> HIDE DEF T
  <2> QED
    BY <1>1, <1>10, UpTo
<1>12. Done(N)
  BY <1>1, <1>11
<1>13. Numbered(tags) = f[N].lines
  BY <1>5, NumberedIs
<1> QED
  BY <1>12, <1>13

(* DiffView: the sections *)

\* The lines that some change makes visible.
VisibleIn(lines) == UNION {Around(i) : i \in {j \in DOMAIN lines : lines[j].tag # "equal"}}

\* One more line in the loop of compute_sections.
PutNext(sections, line, v) ==
  IF sections # <<>> /\ Last(sections).visible = v
    THEN Append(Front(sections), [Last(sections) EXCEPT !.lines = Append(@, line)])
    ELSE Append(sections, [visible |-> v, lines |-> <<line>>])

LEMMA SectionsAre ==
  ASSUME NEW lines
  PROVE  Sections(lines) =
           (CHOOSE put : put = [n \in 0 .. Len(lines) |->
              IF n = 0 THEN <<>>
              ELSE PutNext(put[n - 1], lines[n], n \in VisibleIn(lines))])[Len(lines)]
BY DEF Sections, PutNext, VisibleIn

Section(L, F) == [visible : F, lines : Seq(L)]

\* The sections cut the first n lines at the places e; v says of each line
\* whether it is visible.
IsCut(sections, e, lines, v, n, L, F) ==
  /\ sections \in Seq(Section(L, F))
  /\ e \in [0 .. Len(sections) -> 0 .. n]
  /\ e[0] = 0 /\ e[Len(sections)] = n
  /\ \A s \in 1 .. Len(sections) :
       /\ e[s - 1] < e[s]
       /\ Len(sections[s].lines) = e[s] - e[s - 1]
       /\ \A k \in 1 .. e[s] - e[s - 1] : /\ sections[s].lines[k] = lines[e[s - 1] + k]
                                          /\ sections[s].visible = v[e[s - 1] + k]

LEMMA CutOnce ==
  ASSUME NEW L, NEW F, NEW lines, NEW v, NEW n \in Nat \ {0}, lines[n] \in L, v[n] \in F,
         NEW sections, NEW e, IsCut(sections, e, lines, v, n - 1, L, F)
  PROVE  \E g : IsCut(PutNext(sections, lines[n], v[n]), g, lines, v, n, L, F)
<1>1. PICK M \in Nat : M = Len(sections)
  BY LenProperties DEF IsCut
<1>2. /\ sections \in Seq(Section(L, F)) /\ e \in [0 .. M -> 0 .. n - 1]
      /\ e[0] = 0 /\ e[M] = n - 1
      /\ \A s \in 1 .. M : sections[s] \in Section(L, F)
  BY <1>1, ElementOfSeq DEF IsCut
<1>3. \A s \in 1 .. M :
        /\ e[s - 1] < e[s] /\ Len(sections[s].lines) = e[s] - e[s - 1]
        /\ \A k \in 1 .. e[s] - e[s - 1] : /\ sections[s].lines[k] = lines[e[s - 1] + k]
                                           /\ sections[s].visible = v[e[s - 1] + k]
  BY <1>1 DEF IsCut
<1>4. PICK line \in L : line = lines[n]
  OBVIOUS
<1>5. PICK flag \in F : flag = v[n]
  OBVIOUS
<1>6. PICK next : next = PutNext(sections, line, flag)
  OBVIOUS
<1>7. CASE sections # <<>> /\ sections[M].visible = flag
  <2>1. M # 0
    BY <1>1, <1>2, <1>7, EmptySeq
  <2>2. M \in 1 .. M /\ M - 1 \in 0 .. M /\ M - 1 \in Nat
    BY <2>1
  <2>3. PICK last \in Section(L, F) : last = sections[M]
    BY <1>2, <2>2
  <2>4. PICK body \in Seq(L) : body = last.lines
    BY <2>3 DEF Section
  <2>5. PICK longer \in Seq(L) :
          /\ longer = Append(body, line)
          /\ Len(longer) = Len(body) + 1 /\ longer[Len(body) + 1] = line
          /\ \A k \in 1 .. Len(body) : longer[k] = body[k]
    <3>1. /\ Append(body, line) \in Seq(L)
          /\ Len(Append(body, line)) = Len(body) + 1 /\ Append(body, line)[Len(body) + 1] = line
          /\ \A k \in 1 .. Len(body) : Append(body, line)[k] = body[k]
      BY AppendProperties
    <3> QED
      BY <3>1
  <2>6. PICK one \in Section(L, F) : one = [last EXCEPT !.lines = longer]
                                     /\ one.visible = flag /\ one.lines = longer
    <3>1. last.visible = flag
      BY <1>7, <2>3
    <3>2. [last EXCEPT !.lines = longer] = [visible |-> flag, lines |-> longer]
      BY <3>1 DEF Section
    <3>3. [visible |-> flag, lines |-> longer] \in Section(L, F)
      BY DEF Section
    <3> QED
      BY <3>2, <3>3
  <2>7. PICK front \in Seq(Section(L, F)) :
          front = Front(sections) /\ Len(front) = M - 1 /\ \A s \in 1 .. M - 1 : front[s] = sections[s]
    <3>1. PICK front : front = SubSeq(sections, 1, M - 1)
      OBVIOUS
    <3>2. front \in Seq(Section(L, F)) /\ Len(front) = M - 1 /\ \A s \in 1 .. M - 1 : front[s] = sections[s]
      BY <1>1, <1>2, <2>2, <3>1
    <3> QED
      BY <1>1, <3>1, <3>2 DEF Front
  <2>8. next = Append(front, one)
    <3>1. next = Append(Front(sections), [Last(sections) EXCEPT !.lines = Append(Last(sections).lines, line)])
      BY <1>1, <1>6, <1>7 DEF PutNext, Last
    <3> QED
      BY <1>1, <2>3, <2>4, <2>5, <2>6, <2>7, <3>1 DEF Last
  <2>9. /\ next \in Seq(Section(L, F)) /\ Len(next) = M /\ next[M] = one
        /\ \A s \in 1 .. M : s # M => next[s] = sections[s]
    <3>1. PICK whole : whole = Append(front, one)
      OBVIOUS
    <3>2. /\ whole \in Seq(Section(L, F)) /\ Len(whole) = Len(front) + 1
          /\ whole[Len(front) + 1] = one
          /\ \A s \in 1 .. Len(front) : whole[s] = front[s]
      BY <3>1, AppendProperties
    <3>3. Len(front) + 1 = M /\ \A s \in 1 .. M : s # M => s \in 1 .. Len(front)
      BY <2>2, <2>7
    <3>4. \A s \in 1 .. Len(front) : front[s] = sections[s]
      BY <2>7
    <3> QED
      BY <2>8, <3>1, <3>2, <3>3, <3>4
  <2>10. PICK g : g = [s \in 0 .. M |-> IF s = M THEN n ELSE e[s]]
    OBVIOUS
  <2>11. /\ g \in [0 .. M -> 0 .. n] /\ g[0] = 0 /\ g[M] = n
         /\ \A s \in 0 .. M : s # M => g[s] = e[s]
    BY <1>2, <2>1, <2>10
  <2>12. ASSUME NEW s \in 1 .. M
         PROVE  /\ g[s - 1] < g[s] /\ Len(next[s].lines) = g[s] - g[s - 1]
                /\ \A k \in 1 .. g[s] - g[s - 1] : /\ next[s].lines[k] = lines[g[s - 1] + k]
                                                   /\ next[s].visible = v[g[s - 1] + k]
    <3>1. s - 1 \in 0 .. M /\ s - 1 # M /\ s \in 0 .. M
      OBVIOUS
    <3>2. g[s - 1] = e[s - 1]
      BY <2>11, <3>1
    <3>3. CASE s # M
      BY <1>3, <2>9, <2>11, <3>1, <3>2, <3>3
    <3>4. CASE s = M
      <4>1. PICK c \in 0 .. n - 1 : c = e[M - 1] /\ c < n - 1
        BY <1>2, <1>3, <2>2
      <4>2. Len(body) = n - 1 - c
        BY <1>2, <1>3, <2>2, <2>3, <2>4, <4>1
      <4>3. \A k \in 1 .. n - 1 - c : body[k] = lines[c + k] /\ flag = v[c + k]
        BY <1>2, <1>3, <1>7, <2>2, <2>3, <2>4, <4>1
      <4>4. \A k \in 1 .. n - c : k \in 1 .. n - 1 - c \/ (k = n - c /\ c + k = n)
        BY <4>1
      <4>5. Len(longer) = n - c /\ \A k \in 1 .. n - c : longer[k] = lines[c + k] /\ flag = v[c + k]
        <5>1. Len(longer) = n - c /\ Len(body) + 1 = n - c
          BY <2>5, <4>1, <4>2
        <5>2. ASSUME NEW k \in 1 .. n - 1 - c PROVE longer[k] = lines[c + k] /\ flag = v[c + k]
          BY <2>5, <4>2, <4>3
        <5>3. ASSUME NEW k \in 1 .. n - c, k = n - c, c + k = n
              PROVE  longer[k] = lines[c + k] /\ flag = v[c + k]
          BY <1>4, <1>5, <2>5, <5>1, <5>3
        <5> QED
          BY <4>4, <5>1, <5>2, <5>3
      <4>6. g[s] = n /\ g[s - 1] = c /\ next[s] = one
        BY <2>9, <2>11, <3>2, <3>4, <4>1
      <4> QED
        BY <2>6, <4>1, <4>5, <4>6
    <3> QED
      BY <3>3, <3>4
  <2>13. IsCut(next, g, lines, v, n, L, F)
    BY <2>9, <2>11, <2>12 DEF IsCut
  <2> QED
    BY <1>4, <1>5, <1>6, <2>13
<1>8. CASE ~(sections # <<>> /\ sections[M].visible = flag)
  <2>1. PICK body \in Seq(L) : body = <<line>> /\ Len(body) = 1 /\ body[1] = line
    <3>1. <<line>> \in Seq(L) /\ Len(<<line>>) = 1 /\ <<line>>[1] = line
      OBVIOUS
    <3> QED
      BY <3>1
  <2>2. PICK one \in Section(L, F) : one = [visible |-> flag, lines |-> body]
                                     /\ one.visible = flag /\ one.lines = body
    <3>1. [visible |-> flag, lines |-> body] \in Section(L, F)
      BY DEF Section
    <3> QED
      BY <3>1
  <2>3. next = Append(sections, one)
    BY <1>1, <1>6, <1>8, <2>1, <2>2 DEF PutNext, Last
  <2>4. /\ next \in Seq(Section(L, F)) /\ Len(next) = M + 1 /\ next[M + 1] = one
        /\ \A s \in 1 .. M : next[s] = sections[s]
    BY <1>1, <1>2, <2>3
  <2>5. PICK g : g = [s \in 0 .. M + 1 |-> IF s = M + 1 THEN n ELSE e[s]]
    OBVIOUS
  <2>6. /\ g \in [0 .. M + 1 -> 0 .. n] /\ g[0] = 0 /\ g[M + 1] = n
        /\ \A s \in 0 .. M : g[s] = e[s]
    <3>1. \A s \in 0 .. M + 1 : s # M + 1 => s \in 0 .. M
      OBVIOUS
    <3>2. \A s \in 0 .. M : s \in 0 .. M + 1 /\ s # M + 1
      OBVIOUS
    <3>3. \A s \in 0 .. M : e[s] \in 0 .. n
      BY <1>2
    <3> QED
      BY <1>2, <2>5, <3>1, <3>2, <3>3
  <2>7. ASSUME NEW s \in 1 .. M + 1
        PROVE  /\ g[s - 1] < g[s] /\ Len(next[s].lines) = g[s] - g[s - 1]
               /\ \A k \in 1 .. g[s] - g[s - 1] : /\ next[s].lines[k] = lines[g[s - 1] + k]
                                                  /\ next[s].visible = v[g[s - 1] + k]
    <3>1. CASE s # M + 1
      <4>1. s \in 1 .. M /\ s - 1 \in 0 .. M /\ s \in 0 .. M
        BY <3>1
      <4>2. g[s - 1] = e[s - 1] /\ g[s] = e[s] /\ next[s] = sections[s]
        BY <2>4, <2>6, <4>1
      <4> QED
        BY <1>3, <4>1, <4>2
    <3>2. CASE s = M + 1
      <4>1. g[s] = n /\ g[s - 1] = n - 1 /\ next[s] = one
        BY <1>2, <2>4, <2>6, <3>2
      <4>2. n - (n - 1) = 1 /\ \A k \in 1 .. 1 : k = 1 /\ n - 1 + k = n
        OBVIOUS
      <4> QED
        BY <1>4, <1>5, <2>1, <2>2, <4>1, <4>2
    <3> QED
      BY <3>1, <3>2
  <2>8. IsCut(next, g, lines, v, n, L, F)
    BY <2>4, <2>6, <2>7 DEF IsCut
  <2> QED
    BY <1>4, <1>5, <1>6, <2>8
<1> QED
  BY <1>7, <1>8

LEMMA PutTypes ==
  ASSUME NEW L, NEW F, NEW sections \in Seq(Section(L, F)), NEW line \in L, NEW flag \in F
  PROVE  PutNext(sections, line, flag) \in Seq(Section(L, F))
<1>1. PICK M \in Nat : M = Len(sections)
  BY LenProperties
<1>2. PICK next : next = PutNext(sections, line, flag)
  OBVIOUS
<1>3. CASE sections # <<>> /\ sections[M].visible = flag
  <2>1. M \in 1 .. M /\ M - 1 \in 0 .. M
    BY <1>1, <1>3, EmptySeq
  <2>2. PICK last \in Section(L, F) : last = sections[M]
    BY <1>1, <2>1, ElementOfSeq
  <2>3. PICK body \in Seq(L) : body = last.lines
    BY <2>2 DEF Section
  <2>4. PICK longer \in Seq(L) : longer = Append(body, line)
    BY AppendProperties
  <2>5. PICK one \in Section(L, F) : one = [last EXCEPT !.lines = longer]
    BY DEF Section
  <2>6. PICK front \in Seq(Section(L, F)) : front = Front(sections)
    <3>1. SubSeq(sections, 1, M - 1) \in Seq(Section(L, F))
      BY <1>1, <2>1
    <3> QED
      BY <1>1, <3>1 DEF Front
  <2>7. next = Append(Front(sections), [Last(sections) EXCEPT !.lines = Append(Last(sections).lines, line)])
    BY <1>1, <1>2, <1>3 DEF PutNext, Last
  <2>8. next = Append(front, one)
    BY <1>1, <2>2, <2>3, <2>4, <2>5, <2>6, <2>7 DEF Last
  <2> QED
    BY <1>2, <2>8, AppendProperties
<1>4. CASE ~(sections # <<>> /\ sections[M].visible = flag)
  <2>1. PICK body \in Seq(L) : body = <<line>>
    <3>1. <<line>> \in Seq(L)
      OBVIOUS
    <3> QED
      BY <3>1
  <2>2. PICK one \in Section(L, F) : one = [visible |-> flag, lines |-> body]
    BY DEF Section
  <2>3. next = Append(sections, one)
    BY <1>1, <1>2, <1>4, <2>1, <2>2 DEF PutNext, Last
  <2> QED
    BY <1>2, <2>3, AppendProperties
<1> QED
  BY <1>3, <1>4

\* N lines of L, each with its flag.
Flagged(L, F, N, lines, v) == N \in Nat /\ \A n \in 1 .. N : lines[n] \in L /\ v[n] \in F

\* The loop of compute_sections run over them.
CutBy(f, N, lines, v) ==
  DOMAIN f = 0 .. N /\ f = [n \in DOMAIN f |-> f[n]]
  /\ f[0] = <<>> /\ \A n \in 1 .. N : f[n] = PutNext(f[n - 1], lines[n], v[n])

LEMMA CutLoop ==
  ASSUME NEW L, NEW F, NEW N, NEW lines, NEW v, Flagged(L, F, N, lines, v)
  PROVE  /\ \E f : CutBy(f, N, lines, v)
         /\ \A f : CutBy(f, N, lines, v) => \E e : IsCut(f[N], e, lines, v, N, L, F)
<1> DEFINE S == Seq(Section(L, F))
<1>0. N \in Nat /\ \A n \in 1 .. N : lines[n] \in L /\ v[n] \in F
  BY DEF Flagged
<1>1. ASSUME NEW n \in 1 .. N, NEW sections \in S PROVE PutNext(sections, lines[n], v[n]) \in S
  BY <1>0, PutTypes
<1>2. <<>> \in S
  BY EmptySeq
<1>3. \E f : CutBy(f, N, lines, v)
  <2> DEFINE G == [x \in (1 .. N) \X S |-> PutNext(x[2], lines[x[1]], v[x[1]])]
  <2>1. \A n \in 1 .. N : \A s \in S : G[<<n, s>>] = PutNext(s, lines[n], v[n])
    OBVIOUS
  <2> HIDE DEF S, G
  <2>2. PICK b : b = <<>>
    OBVIOUS
  <2>3. PICK f \in [0 .. N -> S] : f[0] = b /\ \A n \in 1 .. N : f[n] = G[<<n, f[n - 1]>>]
    <3>1. b \in S
      BY <1>2, <2>2
    <3>2. Loop(N, S, b, G)
      BY <1>0, <1>1, <2>1, <3>1 DEF Loop
    <3> QED
      BY <3>2, Looping
  <2>4. ASSUME NEW n \in 1 .. N PROVE f[n] = PutNext(f[n - 1], lines[n], v[n])
    <3>1. n - 1 \in 0 .. N
      BY <1>0
    <3>2. f[n - 1] \in S
      BY <2>3, <3>1
    <3> QED
      BY <2>1, <2>3, <3>2
  <2> QED
    BY <2>2, <2>3, <2>4 DEF CutBy
<1>4. ASSUME NEW f, CutBy(f, N, lines, v)
      PROVE  \E e : IsCut(f[N], e, lines, v, N, L, F)
  <2> DEFINE T == {n \in 0 .. N : \E e : IsCut(f[n], e, lines, v, n, L, F)}
  <2>1. ASSUME NEW n \in 0 .. N, 0 .. n - 1 \subseteq T PROVE n \in T
    <3>1. CASE n = 0
      <4>1. PICK e : e = [s \in 0 .. 0 |-> 0]
        OBVIOUS
      <4>2. Len(f[n]) = 0 /\ f[n] \in Seq(Section(L, F))
        BY <1>2, <1>4, <3>1, EmptySeq DEF CutBy
      <4>3. e \in [0 .. 0 -> 0 .. 0] /\ e[0] = 0 /\ 1 .. 0 = {}
        BY <4>1
      <4>4. IsCut(f[n], e, lines, v, n, L, F)
        BY <3>1, <4>2, <4>3 DEF IsCut
      <4> QED
        BY <4>4
    <3>2. CASE n # 0
      <4>1. n \in 1 .. N /\ n - 1 \in 0 .. n - 1 /\ n \in Nat \ {0} /\ n - 1 \in Nat
        BY <1>0, <3>2
      <4>2. PICK e : IsCut(f[n - 1], e, lines, v, n - 1, L, F)
        BY <2>1, <4>1
      <4>3. PICK sections : sections = f[n - 1]
        OBVIOUS
      <4>4. IsCut(sections, e, lines, v, n - 1, L, F)
        BY <4>2, <4>3
      <4>5. lines[n] \in L /\ v[n] \in F
        BY <1>0, <4>1
      <4>6. \E g : IsCut(PutNext(sections, lines[n], v[n]), g, lines, v, n, L, F)
        BY <4>1, <4>4, <4>5, CutOnce
      <4>7. f[n] = PutNext(sections, lines[n], v[n])
        BY <1>4, <4>1, <4>3 DEF CutBy
      <4> QED
        BY <4>6, <4>7
    <3> QED
      BY <3>1, <3>2
  <2>2. 0 .. N \subseteq T
    <3> HIDE DEF T
    <3> QED
      BY <1>0, <2>1, UpTo
  <2>3. N \in T
    <3> HIDE DEF T
    <3> QED
      BY <1>0, <2>2
  <2> QED
    BY <2>3
<1> QED
  BY <1>3, <1>4

LEMMA SectionsCut ==
  ASSUME NEW L, NEW lines \in Seq(L)
  PROVE  \E F, v, e : /\ \A n \in 1 .. Len(lines) : v[n] \in F /\ v[n] = (n \in VisibleIn(lines))
                      /\ IsCut(Sections(lines), e, lines, v, Len(lines), L, F)
<1>1. PICK N \in Nat : N = Len(lines)
  BY LenProperties
<1>2. PICK V : V = VisibleIn(lines)
  OBVIOUS
<1>3. PICK F : F = BOOLEAN
  OBVIOUS
<1>4. PICK v : v = [n \in 1 .. N |-> n \in V]
  OBVIOUS
<1>5. \A n \in 1 .. N : v[n] = (n \in V)
  BY <1>4
<1>6. \A n \in 1 .. N : v[n] \in F
  BY <1>3, <1>4
<1>7. Flagged(L, F, N, lines, v)
  <2>1. \A n \in 1 .. N : lines[n] \in L
    BY <1>1, ElementOfSeq
  <2> QED
    BY <1>6, <2>1 DEF Flagged
<1> DEFINE looped(f) == [n \in 0 .. N |-> IF n = 0 THEN <<>> ELSE PutNext(f[n - 1], lines[n], n \in V)]
<1>8. \E f : f = looped(f)
  <2>1. PICK f : CutBy(f, N, lines, v)
    BY <1>7, CutLoop
  <2>2. ASSUME NEW n \in 0 .. N, n # 0 PROVE f[n] = PutNext(f[n - 1], lines[n], n \in V)
    <3>1. n \in 1 .. N
      BY <2>2
    <3> QED
      BY <1>5, <2>1, <3>1 DEF CutBy
  <2>3. f = looped(f)
    BY <2>1, <2>2 DEF CutBy
  <2> QED
    BY <2>3
<1>9. PICK f : f = (CHOOSE g : g = looped(g)) /\ f = looped(f)
  BY <1>8
<1>10. CutBy(f, N, lines, v)
  <2>1. PICK g : g = looped(f)
    OBVIOUS
  <2>2. \A n \in 0 .. N : g[n] = IF n = 0 THEN <<>> ELSE PutNext(f[n - 1], lines[n], n \in V)
    BY <2>1
  <2>3. g = f
    BY <1>9, <2>1
  <2>4. 0 \in 0 .. N /\ \A n \in 1 .. N : n \in 0 .. N /\ n # 0
    OBVIOUS
  <2>5. DOMAIN f = 0 .. N /\ f = [n \in DOMAIN f |-> f[n]]
    BY <1>9
  <2> QED
    BY <1>5, <2>2, <2>3, <2>4, <2>5 DEF CutBy
<1>11. Sections(lines) = f[N]
  BY <1>1, <1>2, <1>9, SectionsAre
<1>12. PICK e : IsCut(f[N], e, lines, v, N, L, F)
  BY <1>7, <1>10, CutLoop
<1>13. \A n \in 1 .. N : v[n] \in F /\ v[n] = (n \in V)
  BY <1>5, <1>6
<1> QED
  BY <1>1, <1>2, <1>11, <1>12, <1>13

(* DiffView: what is read, in its order *)

\* The text is the lines of X in their order; p is every line.
InOrder(text, X, p, L) ==
  /\ text \in Seq(L) /\ Len(text) = Cardinality(X)
  /\ \A i \in X : Count(X, i) \in 1 .. Len(text) /\ text[Count(X, i)] = p[i]
  /\ \A k \in 1 .. Len(text) : \E i \in X : Count(X, i) = k

\* A block of lines that follows those of X.
IsBlock(X, m, d, block, p, L) ==
  /\ m \in Nat /\ d \in Nat /\ X \in SUBSET (1 .. m)
  /\ block \in Seq(L) /\ Len(block) = d /\ \A k \in 1 .. d : block[k] = p[m + k]

LEMMA OneBlock ==
  ASSUME NEW text, NEW X, NEW p, NEW L, NEW m, NEW d, NEW block,
         InOrder(text, X, p, L), IsBlock(X, m, d, block, p, L)
  PROVE  InOrder(text \o block, X \cup (m + 1 .. m + d), p, L)
<1>1. /\ m \in Nat /\ d \in Nat /\ X \in SUBSET (1 .. m)
      /\ block \in Seq(L) /\ Len(block) = d /\ \A k \in 1 .. d : block[k] = p[m + k]
  BY DEF IsBlock
<1>2. PICK C \in Nat : C = Cardinality(X)
  BY <1>1, CountTypes
<1>3. /\ text \in Seq(L) /\ Len(text) = C
      /\ \A i \in X : Count(X, i) \in 1 .. C /\ text[Count(X, i)] = p[i]
      /\ \A k \in 1 .. C : \E i \in X : Count(X, i) = k
  BY <1>2 DEF InOrder
<1>4. PICK Y : Y = X \cup (m + 1 .. m + d)
  OBVIOUS
<1>5. \A i \in X : i \in Nat /\ 1 <= i /\ i <= m /\ i \in Y
  BY <1>1, <1>4
<1>6. \A i \in Y : i \in X \/ (i \in Nat /\ m < i /\ i <= m + d)
  BY <1>1, <1>4
<1>7. m + d \in Nat /\ Y \in SUBSET (1 .. m + d)
  BY <1>1, <1>4
<1>8. \A k \in 1 .. d : m + k \in Y /\ m + k \in Nat \ {0} /\ m + k - 1 = m + (k - 1)
  BY <1>1, <1>4
<1>9. ASSUME NEW n \in Nat, n <= m PROVE Count(Y, n) = Count(X, n)
  <2>1. \A i \in Y : i <= n => i \in X
    BY <1>1, <1>6, <1>9
  <2>2. {j \in Y : j <= n} = {j \in X : j <= n}
    BY <1>5, <2>1
  <2> QED
    BY <2>2 DEF Count
<1>10. Count(Y, m) = C
  <2>1. m <= m /\ m >= m
    BY <1>1
  <2> QED
    BY <1>1, <1>2, <1>9, <2>1, CountIs
<1> DEFINE T == {k \in 0 .. d : Count(Y, m + k) = C + k}
<1>11. ASSUME NEW k \in 0 .. d, 0 .. k - 1 \subseteq T PROVE k \in T
  <2>1. CASE k = 0
    <3>1. m + k = m /\ C + k = C
      BY <1>1, <1>2, <2>1
    <3> QED
      BY <1>10, <3>1
  <2>2. CASE k # 0
    <3>1. k \in 1 .. d /\ k - 1 \in 0 .. k - 1 /\ C + (k - 1) + 1 = C + k
      BY <1>1, <1>2, <2>2
    <3>2. Count(Y, m + (k - 1)) = C + (k - 1)
      BY <1>11, <3>1
    <3>3. m + k \in Y /\ m + k \in Nat \ {0} /\ m + k - 1 = m + (k - 1)
      BY <1>8, <3>1
    <3>4. PICK n \in Nat \ {0} : n = m + k
      BY <3>3
    <3>5. PICK before \in Nat : before = m + (k - 1) /\ before = n - 1
      BY <1>1, <3>1, <3>4
    <3>6. Count(Y, n) = IF n \in Y THEN Count(Y, n - 1) + 1 ELSE Count(Y, n - 1)
      BY <1>7, CountIs
    <3>7. Count(Y, before) = C + (k - 1)
      BY <3>2, <3>5
    <3>8. Count(Y, n) = Count(Y, before) + 1
      BY <3>3, <3>4, <3>5, <3>6
    <3>9. Count(Y, n) = C + k
      BY <3>1, <3>7, <3>8
    <3> QED
      BY <3>4, <3>9
  <2> QED
    BY <2>1, <2>2
<1>12. 0 .. d \subseteq T
  <2> HIDE DEF T
  <2> QED
    BY <1>1, <1>11, UpTo
<1>13. \A k \in 0 .. d : Count(Y, m + k) = C + k
  BY <1>12
<1>14. Cardinality(Y) = C + d
  <2>1. m + d >= m + d /\ d \in 0 .. d
    BY <1>1
  <2>2. Count(Y, m + d) = Cardinality(Y)
    BY <1>7, <2>1, CountIs
  <2> QED
    BY <1>13, <2>1, <2>2
<1>15. PICK whole : whole = text \o block
  OBVIOUS
<1>16. /\ whole \in Seq(L) /\ Len(whole) = C + d
       /\ \A k \in 1 .. C : whole[k] = text[k]
       /\ \A k \in 1 .. d : whole[C + k] = block[k]
  <2>1. whole \in Seq(L) /\ Len(whole) = Len(text) + Len(block)
    BY <1>1, <1>3, <1>15, ConcatProperties
  <2>2. \A k \in 1 .. Len(text) + Len(block) :
          whole[k] = IF k <= Len(text) THEN text[k] ELSE block[k - Len(text)]
    BY <1>1, <1>3, <1>15, ConcatProperties
  <2>3. \A k \in 1 .. C : k \in 1 .. C + d /\ k <= C
    BY <1>1, <1>2
  <2>4. \A k \in 1 .. d : C + k \in 1 .. C + d /\ ~(C + k <= C) /\ C + k - C = k
    BY <1>1, <1>2
  <2> QED
    BY <1>1, <1>3, <2>1, <2>2, <2>3, <2>4
<1>17. ASSUME NEW i \in Y PROVE Count(Y, i) \in 1 .. C + d /\ whole[Count(Y, i)] = p[i]
  <2>1. CASE i \in X
    <3>1. Count(Y, i) = Count(X, i)
      BY <1>5, <1>9, <2>1
    <3>2. Count(X, i) \in 1 .. C /\ text[Count(X, i)] = p[i]
      BY <1>3, <2>1
    <3>3. \A k \in 1 .. C : k \in 1 .. C + d
      BY <1>1, <1>2
    <3> QED
      BY <1>16, <3>1, <3>2, <3>3
  <2>2. CASE i \notin X
    <3>1. PICK k \in 1 .. d : m + k = i
      <4>1. i - m \in 1 .. d /\ m + (i - m) = i
        BY <1>1, <1>6, <2>2
      <4> QED
        BY <4>1
    <3>2. k \in 0 .. d /\ C + k \in 1 .. C + d
      BY <1>1, <1>2, <3>1
    <3>3. Count(Y, i) = C + k
      BY <1>13, <3>1, <3>2
    <3> QED
      BY <1>1, <1>16, <3>1, <3>2, <3>3
  <2> QED
    BY <2>1, <2>2
<1>18. ASSUME NEW k \in 1 .. C + d PROVE \E i \in Y : Count(Y, i) = k
  <2>1. CASE k \in 1 .. C
    <3>1. PICK i \in X : Count(X, i) = k
      BY <1>3, <2>1
    <3> QED
      BY <1>5, <1>9, <3>1
  <2>2. CASE k \notin 1 .. C
    <3>1. PICK h \in 1 .. d : C + h = k
      <4>1. k - C \in 1 .. d /\ C + (k - C) = k
        BY <1>1, <1>2, <2>2
      <4> QED
        BY <4>1
    <3>2. m + h \in Y /\ h \in 0 .. d
      BY <1>8
    <3> QED
      BY <1>13, <3>1, <3>2
  <2> QED
    BY <2>1, <2>2
<1>19. InOrder(whole, Y, p, L)
  BY <1>14, <1>16, <1>17, <1>18 DEF InOrder
<1> QED
  BY <1>4, <1>15, <1>19

LEMMA NothingInOrder ==
  ASSUME NEW p, NEW L
  PROVE  InOrder(<<>>, {}, p, L)
<1>1. 1 .. 0 = {}
  OBVIOUS
<1> QED
  BY <1>1, EmptySeq, FS_EmptySet DEF InOrder

\* The same without mentioning the text on both sides.
LEMMA OrderedText ==
  ASSUME NEW text, NEW X, NEW p, NEW L, InOrder(text, X, p, L)
  PROVE  text = [k \in 1 .. Cardinality(X) |-> p[CHOOSE i \in X : Count(X, i) = k]]
<1>1. /\ text \in Seq(L) /\ Len(text) = Cardinality(X)
      /\ \A i \in X : Count(X, i) \in 1 .. Len(text) /\ text[Count(X, i)] = p[i]
      /\ \A k \in 1 .. Len(text) : \E i \in X : Count(X, i) = k
  BY DEF InOrder
<1>2. ASSUME NEW k \in 1 .. Len(text) PROVE text[k] = p[CHOOSE i \in X : Count(X, i) = k]
  <2>1. PICK i : i = CHOOSE h \in X : Count(X, h) = k
    OBVIOUS
  <2>2. i \in X /\ Count(X, i) = k
    BY <1>1, <2>1
  <2> QED
    BY <1>1, <2>1, <2>2
<1>3. text = [k \in 1 .. Len(text) |-> text[k]]
  BY <1>1
<1> QED
  BY <1>1, <1>2, <1>3

\* The lines in the sections of O, among the first s sections.
ReadFrom(e, O, n, s) == {i \in 1 .. n : \E t \in 1 .. s : t \in O /\ e[t - 1] < i /\ i <= e[t]}

\* The text is put together from the sections of O.
Collects(f, sections, O) ==
  f[0] = <<>> /\ \A s \in 1 .. Len(sections) :
                   f[s] = IF s \in O THEN f[s - 1] \o sections[s].lines ELSE f[s - 1]

LEMMA SectionsRead ==
  ASSUME NEW sections, NEW e, NEW p, NEW v, NEW n \in Nat, NEW L, NEW F, NEW O, NEW f,
         IsCut(sections, e, p, v, n, L, F), Collects(f, sections, O)
  PROVE  InOrder(f[Len(sections)], ReadFrom(e, O, n, Len(sections)), p, L)
<1>1. PICK M \in Nat : M = Len(sections)
  BY LenProperties DEF IsCut
<1>2. /\ e \in [0 .. M -> 0 .. n] /\ \A s \in 1 .. M : sections[s] \in Section(L, F)
  BY <1>1, ElementOfSeq DEF IsCut
<1>3. \A s \in 1 .. M : /\ e[s - 1] < e[s] /\ Len(sections[s].lines) = e[s] - e[s - 1]
                        /\ \A k \in 1 .. e[s] - e[s - 1] : sections[s].lines[k] = p[e[s - 1] + k]
  BY <1>1 DEF IsCut
<1>4. f[0] = <<>> /\ \A s \in 1 .. M : f[s] = IF s \in O THEN f[s - 1] \o sections[s].lines ELSE f[s - 1]
  BY <1>1 DEF Collects
<1> DEFINE X(s) == ReadFrom(e, O, n, s)
           T == {s \in 0 .. M : X(s) \in SUBSET (1 .. e[s]) /\ InOrder(f[s], X(s), p, L)}
<1>5. ASSUME NEW s \in 0 .. M, 0 .. s - 1 \subseteq T PROVE s \in T
  <2>1. CASE s = 0
    <3>1. X(s) = {}
      BY <2>1 DEF ReadFrom
    <3>2. InOrder(f[s], X(s), p, L)
      <4>1. InOrder(<<>>, {}, p, L)
        BY NothingInOrder
      <4> QED
        BY <1>4, <2>1, <3>1, <4>1
    <3> QED
      BY <3>1, <3>2
  <2>2. CASE s # 0
    <3>1. s \in 1 .. M /\ s - 1 \in 0 .. s - 1 /\ s - 1 \in 0 .. M /\ s \in Nat
      BY <2>2
    <3>2. X(s - 1) \in SUBSET (1 .. e[s - 1]) /\ InOrder(f[s - 1], X(s - 1), p, L)
      BY <1>5, <3>1
    <3>3. PICK c \in 0 .. n : c = e[s - 1]
      BY <1>2, <3>1
    <3>4. PICK g \in 0 .. n : g = e[s]
      BY <1>2
    <3>5. c < g
      BY <1>3, <3>1, <3>3, <3>4
    <3>6. PICK A \in SUBSET (1 .. c) : A = X(s - 1)
      BY <3>2, <3>3
    <3>7. \A t \in 1 .. s : t \in 1 .. s - 1 \/ t = s
      BY <3>1
    <3>8. \A t \in 1 .. s - 1 : t \in 1 .. s
      BY <3>1
    <3>9. s \in 1 .. s
      BY <3>1
    <3>10. CASE s \in O
      <4>1. PICK block \in Seq(L) : block = sections[s].lines
        BY <1>2, <3>1 DEF Section
      <4>2. X(s) = A \cup (c + 1 .. g)
        <5>1. ASSUME NEW i \in X(s) PROVE i \in A \cup (c + 1 .. g)
          <6>1. PICK t \in 1 .. s : t \in O /\ e[t - 1] < i /\ i <= e[t] /\ i \in 1 .. n
            BY DEF ReadFrom
          <6>2. CASE t = s
            BY <3>3, <3>4, <6>1, <6>2
          <6>3. CASE t # s
            <7>1. t \in 1 .. s - 1
              BY <3>7, <6>3
            <7> QED
              BY <3>6, <6>1, <7>1 DEF ReadFrom
          <6> QED
            BY <6>2, <6>3
        <5>2. ASSUME NEW i \in A PROVE i \in X(s)
          BY <3>6, <3>8 DEF ReadFrom
        <5>3. ASSUME NEW i \in c + 1 .. g PROVE i \in X(s)
          <6>1. i \in 1 .. n /\ c < i /\ i <= g
            BY <3>3, <3>4
          <6> QED
            BY <3>3, <3>4, <3>9, <3>10, <6>1 DEF ReadFrom
        <5> QED
          BY <5>1, <5>2, <5>3
      <4>3. PICK d \in Nat : d = g - c /\ c + d = g
        <5>1. g - c \in Nat /\ c + (g - c) = g
          BY <3>5
        <5> QED
          BY <5>1
      <4>4. IsBlock(A, c, d, block, p, L)
        <5>1. Len(block) = d /\ \A k \in 1 .. d : block[k] = p[c + k]
          BY <1>3, <3>1, <3>3, <3>4, <4>1, <4>3
        <5> QED
          BY <5>1 DEF IsBlock
      <4>5. PICK text : text = f[s - 1]
        OBVIOUS
      <4>6. InOrder(text \o block, A \cup (c + 1 .. c + d), p, L)
        BY <3>2, <3>6, <4>4, <4>5, OneBlock
      <4>7. f[s] = text \o block
        BY <1>4, <3>1, <3>10, <4>1, <4>5
      <4>8. InOrder(f[s], X(s), p, L)
        BY <4>2, <4>3, <4>6, <4>7
      <4>9. A \cup (c + 1 .. g) \in SUBSET (1 .. g)
        BY <3>5
      <4> QED
        BY <3>4, <4>2, <4>8, <4>9
    <3>11. CASE s \notin O
      <4>1. X(s) = A
        <5>1. \A i : (\E t \in 1 .. s : t \in O /\ e[t - 1] < i /\ i <= e[t])
                       <=> \E t \in 1 .. s - 1 : t \in O /\ e[t - 1] < i /\ i <= e[t]
          BY <3>7, <3>8, <3>11
        <5> QED
          BY <3>6, <5>1 DEF ReadFrom
      <4>2. f[s] = f[s - 1]
        BY <1>4, <3>1, <3>11
      <4>3. A \in SUBSET (1 .. g)
        BY <3>5
      <4> QED
        BY <3>2, <3>4, <3>6, <4>1, <4>2, <4>3
    <3> QED
      BY <3>10, <3>11
  <2> QED
    BY <2>1, <2>2
<1>6. 0 .. M \subseteq T
  <2> HIDE DEF T
  <2> QED
    BY <1>5, UpTo
<1>7. M \in T
  <2> HIDE DEF T
  <2> QED
    BY <1>6
<1> QED
  BY <1>1, <1>7

\* Every line is in some section, and as visible as it.
Covered(sections, e, v, n) ==
  /\ \A i \in 1 .. n : \E t \in 1 .. Len(sections) : e[t - 1] < i /\ i <= e[t]
  /\ \A t \in 1 .. Len(sections) : \A i \in 1 .. n :
       e[t - 1] < i /\ i <= e[t] => sections[t].visible = v[i]

LEMMA SectionsCover ==
  ASSUME NEW sections, NEW e, NEW p, NEW v, NEW n \in Nat, NEW L, NEW F, IsCut(sections, e, p, v, n, L, F)
  PROVE  Covered(sections, e, v, n)
<1>1. PICK M \in Nat : M = Len(sections)
  BY LenProperties DEF IsCut
<1>2. e \in [0 .. M -> 0 .. n] /\ e[0] = 0 /\ e[M] = n
  BY <1>1 DEF IsCut
<1>3. \A s \in 1 .. M : \A k \in 1 .. e[s] - e[s - 1] : sections[s].visible = v[e[s - 1] + k]
  BY <1>1 DEF IsCut
<1> DEFINE T == {s \in 0 .. M : \A i \in 1 .. e[s] : \E t \in 1 .. M : e[t - 1] < i /\ i <= e[t]}
<1>4. ASSUME NEW s \in 0 .. M, 0 .. s - 1 \subseteq T PROVE s \in T
  <2>1. CASE s = 0
    <3>1. 1 .. e[s] = {}
      BY <1>2, <2>1
    <3> QED
      BY <3>1
  <2>2. CASE s # 0
    <3>1. s \in 1 .. M /\ s - 1 \in 0 .. s - 1 /\ s - 1 \in 0 .. M
      BY <2>2
    <3>2. \A i \in 1 .. e[s - 1] : \E t \in 1 .. M : e[t - 1] < i /\ i <= e[t]
      BY <1>4, <3>1
    <3>3. e[s - 1] \in Nat /\ e[s] \in Nat
      BY <1>2, <3>1
    <3>4. \A i \in 1 .. e[s] : i \in 1 .. e[s - 1] \/ (e[s - 1] < i /\ i <= e[s])
      BY <3>3
    <3>5. \A i \in 1 .. e[s] : \E t \in 1 .. M : e[t - 1] < i /\ i <= e[t]
      BY <3>1, <3>2, <3>4
    <3> QED
      BY <3>5
  <2> QED
    BY <2>1, <2>2
<1>5. 0 .. M \subseteq T
  <2> HIDE DEF T
  <2> QED
    BY <1>4, UpTo
<1>6. M \in T
  <2> HIDE DEF T
  <2> QED
    BY <1>5
<1>7. ASSUME NEW t \in 1 .. M, NEW i \in 1 .. n, e[t - 1] < i, i <= e[t]
      PROVE  sections[t].visible = v[i]
  <2>1. PICK c \in Nat : c = e[t - 1]
    BY <1>2
  <2>2. PICK g \in Nat : g = e[t]
    BY <1>2
  <2>3. PICK k \in 1 .. g - c : c + k = i
    <3>1. i - c \in 1 .. g - c /\ c + (i - c) = i
      BY <1>7, <2>1, <2>2
    <3> QED
      BY <3>1
  <2> QED
    BY <1>3, <2>1, <2>2, <2>3
<1> QED
  BY <1>1, <1>2, <1>6, <1>7 DEF Covered

(* DiffView: the page *)

\* The sections that are open.
OpenSections == {s \in 1 .. Len(Shown) : Shown[s].visible \/ CollapsedBefore(Shown, s) \in expanded}

LEMMA ReadableIs ==
  Readable = (CHOOSE text : text = [s \in 0 .. Len(Shown) |->
                IF s = 0 THEN <<>>
                ELSE IF Shown[s].visible \/ CollapsedBefore(Shown, s) \in expanded
                  THEN text[s - 1] \o Shown[s].lines
                ELSE text[s - 1]])[Len(Shown)]
BY DEF Readable

LEMMA ReadableReads ==
  ASSUME NEW L, NEW F, Shown \in Seq(Section(L, F))
  PROVE  \E f : Collects(f, Shown, OpenSections) /\ Readable = f[Len(Shown)]
<1>1. PICK shown \in Seq(Section(L, F)) : shown = Shown
  OBVIOUS
<1>2. PICK M : M = Len(shown) /\ M \in Nat
  BY LenProperties
<1>3. \A s \in 1 .. M : shown[s].lines \in Seq(L)
  <2>1. \A s \in 1 .. M : shown[s] \in Section(L, F)
    BY <1>2, ElementOfSeq
  <2> QED
    BY <2>1 DEF Section
<1>4. PICK O : O = OpenSections
  OBVIOUS
<1>6. \A s \in 1 .. M : s \in O <=> shown[s].visible \/ CollapsedBefore(shown, s) \in expanded
  BY <1>1, <1>2, <1>4 DEF OpenSections
<1> DEFINE looped(f) == [s \in 0 .. M |-> IF s = 0 THEN <<>>
                           ELSE IF shown[s].visible \/ CollapsedBefore(shown, s) \in expanded
                             THEN f[s - 1] \o shown[s].lines
                           ELSE f[s - 1]]
           S == Seq(L)
<1>7. \E f : f = looped(f)
  <2> DEFINE G == [x \in (1 .. M) \X S |-> IF x[1] \in O THEN x[2] \o shown[x[1]].lines ELSE x[2]]
  <2>1. \A s \in 1 .. M : \A text \in S : G[<<s, text>>] = IF s \in O THEN text \o shown[s].lines ELSE text
    OBVIOUS
  <2>2. ASSUME NEW s \in 1 .. M, NEW text \in S PROVE G[<<s, text>>] \in S
    <3>1. PICK block \in Seq(L) : block = shown[s].lines
      BY <1>3
    <3>2. text \o block \in S
      BY ConcatProperties
    <3> HIDE DEF G
    <3> QED
      BY <2>1, <3>1, <3>2
  <2>3. PICK b : b = <<>> /\ b \in S
    BY EmptySeq
  <2> HIDE DEF S, G
  <2>4. Loop(M, S, b, G)
    BY <1>2, <2>2, <2>3 DEF Loop
  <2>5. PICK f \in [0 .. M -> S] : f[0] = b /\ \A s \in 1 .. M : f[s] = G[<<s, f[s - 1]>>]
    BY <2>4, Looping
  <2>6. ASSUME NEW s \in 0 .. M, s # 0
        PROVE  f[s] = IF shown[s].visible \/ CollapsedBefore(shown, s) \in expanded
                        THEN f[s - 1] \o shown[s].lines ELSE f[s - 1]
    <3>1. s \in 1 .. M /\ s - 1 \in 0 .. M
      BY <1>2, <2>6
    <3>2. f[s - 1] \in S
      BY <2>5, <3>1
    <3>3. f[s] = IF s \in O THEN f[s - 1] \o shown[s].lines ELSE f[s - 1]
      BY <2>1, <2>5, <3>1, <3>2
    <3> QED
      BY <1>6, <3>1, <3>3
  <2>7. f = looped(f)
    BY <1>2, <2>3, <2>5, <2>6
  <2> QED
    BY <2>7
<1>8. PICK f : f = (CHOOSE g : g = looped(g)) /\ f = looped(f)
  BY <1>7
<1>9. f[0] = <<>> /\ \A s \in 1 .. M : f[s] = IF s \in O THEN f[s - 1] \o shown[s].lines ELSE f[s - 1]
  <2>1. PICK g : g = looped(f)
    OBVIOUS
  <2>2. \A s \in 0 .. M : g[s] = IF s = 0 THEN <<>>
                                 ELSE IF shown[s].visible \/ CollapsedBefore(shown, s) \in expanded
                                   THEN f[s - 1] \o shown[s].lines
                                 ELSE f[s - 1]
    BY <2>1
  <2>3. g = f
    BY <1>8, <2>1
  <2>4. 0 \in 0 .. M /\ \A s \in 1 .. M : s \in 0 .. M /\ s # 0
    BY <1>2
  <2> QED
    BY <1>6, <2>2, <2>3, <2>4
<1>10. Readable = f[M]
  BY <1>1, <1>2, <1>8, ReadableIs
<1> QED
  BY <1>1, <1>2, <1>4, <1>9, <1>10 DEF Collects

\* DiffTrue in its parts: the numbers of a line, the lines near a change, and
\* what it means to read some lines.
PlaceOf(i) ==
  [tag |-> diffLines[i],
   old |-> IF diffLines[i] = "insert" THEN 0
           ELSE Cardinality({j \in 1 .. i : diffLines[j] # "insert"}),
   new |-> IF diffLines[i] = "delete" THEN 0
           ELSE Cardinality({j \in 1 .. i : diffLines[j] # "delete"})]

NearLines ==
  {i \in DOMAIN diffLines :
     \E j \in DOMAIN diffLines : diffLines[j] # "equal" /\ i \in j - Context .. j + Context}

IsText(lines) ==
  Readable = [k \in 1 .. Cardinality(lines) |->
                PlaceOf(CHOOSE i \in lines : Cardinality({j \in lines : j <= i}) = k)]

LEMMA DiffTrueIs ==
  DiffTrue <=> /\ expanded = {} => IsText(NearLines)
               /\ Cardinality(expanded) = Collapsed => IsText(DOMAIN diffLines)
               /\ \E lines \in SUBSET (DOMAIN diffLines \ NearLines) : IsText(NearLines \cup lines)
BY DEF DiffTrue, IsText, NearLines, PlaceOf

LEMMA PlacesAre ==
  ASSUME diffLines \in Seq(Tags), NEW i \in 1 .. Len(diffLines)
  PROVE  PlaceOf(i) = PlaceIn(diffLines, i)
<1>1. PICK N \in Nat : N = Len(diffLines) /\ DOMAIN diffLines = 1 .. N
  BY LenProperties
<1>2. \A j \in 1 .. i : j \in 1 .. N /\ j <= i
  BY <1>1
<1>3. \A j \in 1 .. N : j <= i => j \in 1 .. i
  BY <1>1
<1>4. Count(LinesOfOld(diffLines), i) = Cardinality({j \in 1 .. i : diffLines[j] # "insert"})
  <2>1. {j \in LinesOfOld(diffLines) : j <= i} = {j \in 1 .. i : diffLines[j] # "insert"}
    BY <1>1, <1>2, <1>3 DEF LinesOfOld
  <2> QED
    BY <2>1 DEF Count
<1>5. Count(LinesOfNew(diffLines), i) = Cardinality({j \in 1 .. i : diffLines[j] # "delete"})
  <2>1. {j \in LinesOfNew(diffLines) : j <= i} = {j \in 1 .. i : diffLines[j] # "delete"}
    BY <1>1, <1>2, <1>3 DEF LinesOfNew
  <2> QED
    BY <2>1 DEF Count
<1> QED
  BY <1>4, <1>5 DEF PlaceOf, PlaceIn

LEMMA TextIs ==
  ASSUME diffLines \in Seq(Tags), NEW X \in SUBSET (1 .. Len(diffLines)),
         InOrder(Readable, X, Numbered(diffLines), DiffLines)
  PROVE  IsText(X)
<1>1. PICK text : text = Readable
  OBVIOUS
<1>2. PICK p : p = Numbered(diffLines)
  OBVIOUS
<1>3. PICK C : C = Cardinality(X)
  OBVIOUS
<1>4. text = [k \in 1 .. C |-> p[CHOOSE i \in X : Count(X, i) = k]]
  BY <1>1, <1>2, <1>3, OrderedText
<1>5. \A i \in X : p[i] = PlaceOf(i)
  BY <1>2, LinesNumbered, PlacesAre
<1>6. ASSUME NEW k \in 1 .. C
      PROVE  p[CHOOSE i \in X : Count(X, i) = k] = PlaceOf(CHOOSE i \in X : Cardinality({j \in X : j <= i}) = k)
  <2>1. \E i \in X : Count(X, i) = k
    BY <1>3 DEF InOrder
  <2>2. PICK i : i = CHOOSE h \in X : Count(X, h) = k
    OBVIOUS
  <2>3. i \in X
    BY <2>1, <2>2
  <2>4. i = CHOOSE h \in X : Cardinality({j \in X : j <= h}) = k
    BY <2>2 DEF Count
  <2>5. p[i] = PlaceOf(i)
    BY <1>5, <2>3
  <2>6. p[CHOOSE h \in X : Count(X, h) = k] = p[i]
    BY <2>2
  <2> QED
    BY <2>4, <2>5, <2>6
<1> QED
  BY <1>1, <1>3, <1>4, <1>6 DEF IsText

LEMMA CollapsedTypes ==
  ASSUME NEW L, NEW F, Shown \in Seq(Section(L, F))
  PROVE  /\ Collapsed \in Nat
         /\ \A s \in 1 .. Len(Shown) : ~Shown[s].visible =>
              CollapsedBefore(Shown, s) \in 0 .. Collapsed - 1
<1>1. PICK shown : shown = Shown
  OBVIOUS
<1>2. PICK M \in Nat : M = Len(shown) /\ DOMAIN shown = 1 .. M
  BY <1>1, LenProperties
<1> DEFINE A(s) == {r \in DOMAIN shown : r < s /\ ~shown[r].visible}
<1>3. \A s \in Nat : A(s) \in SUBSET (1 .. M)
  BY <1>2
<1>4. M + 1 \in Nat
  OBVIOUS
<1>5. \A s \in Nat : IsFiniteSet(A(s)) /\ Cardinality(A(s)) \in Nat
  <2> HIDE DEF A
  <2> QED
    BY <1>3, CountTypes
<1>6. Collapsed = Cardinality(A(M + 1))
  BY <1>1, <1>2 DEF Collapsed, CollapsedBefore
<1>7. ASSUME NEW s \in 1 .. M, ~shown[s].visible
      PROVE  CollapsedBefore(shown, s) \in 0 .. Collapsed - 1
  <2>1. s \notin A(s) /\ s \in Nat
    OBVIOUS
  <2>2. A(s) \cup {s} \subseteq A(M + 1)
    <3>1. \A r \in 1 .. M : r < M + 1
      OBVIOUS
    <3> QED
      BY <1>2, <1>7, <3>1
  <2>3. CollapsedBefore(shown, s) = Cardinality(A(s))
    BY DEF CollapsedBefore
  <2> HIDE DEF A
  <2>4. Cardinality(A(s) \cup {s}) = Cardinality(A(s)) + 1
    BY <1>3, <2>1, OneMore
  <2>5. Cardinality(A(s) \cup {s}) <= Cardinality(A(M + 1))
    BY <1>4, <1>5, <2>2, FS_Subset
  <2>6. PICK c \in Nat : c = Cardinality(A(s))
    BY <1>5, <2>1
  <2>7. PICK d \in Nat : d = Cardinality(A(M + 1))
    BY <1>4, <1>5
  <2> QED
    BY <1>6, <2>3, <2>4, <2>5, <2>6, <2>7
<1> HIDE DEF A
<1> QED
  BY <1>1, <1>2, <1>4, <1>5, <1>6, <1>7

LEMMA NearVisible ==
  ASSUME diffLines \in Seq(Tags)
  PROVE  \A i \in 1 .. Len(diffLines) : i \in VisibleIn(Numbered(diffLines)) <=> i \in NearLines
<1>1. PICK lines : lines = Numbered(diffLines)
  OBVIOUS
<1>2. PICK N \in Nat : N = Len(diffLines) /\ DOMAIN diffLines = 1 .. N
  BY LenProperties
<1>3. DOMAIN lines = 1 .. N /\ \A j \in 1 .. N : lines[j].tag = diffLines[j]
  <2>1. lines \in Seq(DiffLines) /\ Len(lines) = N /\ \A j \in 1 .. N : lines[j] = PlaceIn(diffLines, j)
    BY <1>1, <1>2, LinesNumbered
  <2> QED
    BY <2>1, LenProperties DEF PlaceIn
<1>4. \A i \in 1 .. N : i \in VisibleIn(lines) <=>
        \E j \in 1 .. N : diffLines[j] # "equal" /\ i \in j - Context .. j + Context
  BY <1>3 DEF VisibleIn, Around
<1> QED
  BY <1>1, <1>2, <1>4 DEF NearLines

LEMMA WhatIsRead ==
  ASSUME diffLines \in Seq(Tags)
  PROVE  \E X \in SUBSET (1 .. Len(diffLines)) :
           /\ InOrder(Readable, X, Numbered(diffLines), DiffLines)
           /\ NearLines \subseteq X
           /\ expanded = {} => X = NearLines
           /\ (\A s \in 1 .. Len(Shown) : s \in OpenSections) => X = 1 .. Len(diffLines)
<1>1. PICK lines \in Seq(DiffLines) : lines = Numbered(diffLines) /\ Len(lines) = Len(diffLines)
  BY LinesNumbered
<1>2. PICK N \in Nat : N = Len(lines) /\ DOMAIN diffLines = 1 .. N
  BY <1>1, LenProperties
<1>3. PICK F, v, e : /\ \A n \in 1 .. N : v[n] \in F /\ v[n] = (n \in VisibleIn(lines))
                     /\ IsCut(Shown, e, lines, v, N, DiffLines, F)
  BY <1>1, <1>2, SectionsCut DEF Shown
<1>4. Shown \in Seq(Section(DiffLines, F))
  BY <1>3 DEF IsCut
<1>5. PICK f : Collects(f, Shown, OpenSections) /\ Readable = f[Len(Shown)]
  BY <1>4, ReadableReads
<1>6. PICK M : M = Len(Shown)
  OBVIOUS
<1>7. PICK O : O = OpenSections
  OBVIOUS
<1>8. PICK X : X = ReadFrom(e, O, N, M)
  OBVIOUS
<1>9. InOrder(Readable, X, lines, DiffLines)
  BY <1>3, <1>5, <1>6, <1>7, <1>8, SectionsRead
<1>10. /\ \A i \in 1 .. N : \E t \in 1 .. M : e[t - 1] < i /\ i <= e[t]
       /\ \A t \in 1 .. M : \A i \in 1 .. N : e[t - 1] < i /\ i <= e[t] => Shown[t].visible = v[i]
  <2>0. IsCut(Shown, e, lines, v, N, DiffLines, F)
    BY <1>3
  <2>1. Covered(Shown, e, v, N)
    BY <2>0, SectionsCover
  <2> QED
    BY <1>6, <2>1 DEF Covered
<1>11. \A i \in 1 .. N : v[i] = (i \in VisibleIn(lines)) /\ (i \in VisibleIn(lines) <=> i \in NearLines)
  BY <1>1, <1>2, <1>3, NearVisible
<1>12. NearLines \in SUBSET (1 .. N)
  BY <1>2 DEF NearLines
<1>13. \A i : i \in X <=> i \in 1 .. N /\ \E t \in 1 .. M : t \in O /\ e[t - 1] < i /\ i <= e[t]
  BY <1>8 DEF ReadFrom
<1>14. \A t \in 1 .. M : t \in O <=> Shown[t].visible \/ CollapsedBefore(Shown, t) \in expanded
  BY <1>6, <1>7 DEF OpenSections
<1>15. ASSUME NEW i \in NearLines PROVE i \in X
  <2>1. PICK t \in 1 .. M : e[t - 1] < i /\ i <= e[t]
    BY <1>10, <1>12
  <2>2. Shown[t].visible = v[i] /\ v[i]
    BY <1>10, <1>11, <1>12, <2>1
  <2> QED
    BY <1>12, <1>13, <1>14, <2>1, <2>2
<1>16. ASSUME expanded = {}, NEW i \in X PROVE i \in NearLines
  <2>1. PICK t \in 1 .. M : t \in O /\ e[t - 1] < i /\ i <= e[t]
    BY <1>13
  <2>2. Shown[t].visible
    BY <1>14, <1>16, <2>1
  <2>3. i \in 1 .. N
    BY <1>13
  <2>4. Shown[t].visible = v[i]
    BY <1>10, <2>1, <2>3
  <2>5. v[i]
    BY <2>2, <2>4
  <2> QED
    BY <1>11, <2>3, <2>5
<1>17. (\A s \in 1 .. M : s \in O) => X = 1 .. N
  BY <1>10, <1>13
<1>18. X \in SUBSET (1 .. N)
  BY <1>13
<1>19. expanded = {} => X = NearLines
  BY <1>15, <1>16
<1> QED
  BY <1>1, <1>2, <1>6, <1>7, <1>9, <1>15, <1>17, <1>18, <1>19

\* Only sections that exist are expanded.
DiffInv == DiffTypeOK /\ expanded \subseteq 0 .. Collapsed - 1

LEMMA ShownTypes ==
  ASSUME diffLines \in Seq(Tags)
  PROVE  \E F : Shown \in Seq(Section(DiffLines, F))
<1>1. PICK lines \in Seq(DiffLines) : lines = Numbered(diffLines)
  BY LinesNumbered
<1>2. PICK F, v, e : IsCut(Sections(lines), e, lines, v, Len(lines), DiffLines, F)
  BY SectionsCut
<1> QED
  BY <1>1, <1>2 DEF IsCut, Shown

\* What the view shows is what DiffTrue says.
LEMMA DiffInvTrue ==
  DiffInv => DiffTrue
<1> SUFFICES ASSUME DiffInv PROVE DiffTrue
  OBVIOUS
<1>1. diffLines \in Seq(Tags) /\ expanded \subseteq 0 .. Collapsed - 1
  BY DEF DiffInv, DiffTypeOK
<1>2. PICK X \in SUBSET (1 .. Len(diffLines)) :
        /\ InOrder(Readable, X, Numbered(diffLines), DiffLines)
        /\ NearLines \subseteq X
        /\ expanded = {} => X = NearLines
        /\ (\A s \in 1 .. Len(Shown) : s \in OpenSections) => X = 1 .. Len(diffLines)
  BY <1>1, WhatIsRead
<1>3. IsText(X)
  BY <1>1, <1>2, TextIs
<1>4. DOMAIN diffLines = 1 .. Len(diffLines)
  BY <1>1, LenProperties
<1>5. ASSUME Cardinality(expanded) = Collapsed PROVE \A s \in 1 .. Len(Shown) : s \in OpenSections
  <2>1. PICK F : Shown \in Seq(Section(DiffLines, F))
    BY <1>1, ShownTypes
  <2>2. /\ Collapsed \in Nat
        /\ \A s \in 1 .. Len(Shown) : ~Shown[s].visible =>
             CollapsedBefore(Shown, s) \in 0 .. Collapsed - 1
    BY <2>1, CollapsedTypes
  <2>3. PICK c \in Nat : c = Collapsed
    BY <2>2
  <2>4. IsFiniteSet(0 .. c - 1) /\ Cardinality(0 .. c - 1) = c
    <3>1. 0 \in Int /\ c - 1 \in Int
      OBVIOUS
    <3>2. IsFiniteSet(0 .. c - 1) /\ Cardinality(0 .. c - 1) = IF 0 > c - 1 THEN 0 ELSE c - 1 - 0 + 1
      BY <3>1, FS_Interval
    <3> QED
      BY <3>2
  <2>5. expanded = 0 .. c - 1
    BY <1>1, <1>5, <2>3, <2>4, FS_Subset
  <2> QED
    BY <2>2, <2>3, <2>5 DEF OpenSections
<1>6. expanded = {} => IsText(NearLines)
  BY <1>2, <1>3
<1>7. Cardinality(expanded) = Collapsed => IsText(DOMAIN diffLines)
  BY <1>2, <1>3, <1>4, <1>5
<1>8. \E lines \in SUBSET (DOMAIN diffLines \ NearLines) : IsText(NearLines \cup lines)
  <2>1. PICK lines \in SUBSET (DOMAIN diffLines \ NearLines) : lines = X \ NearLines
    BY <1>2, <1>4
  <2>2. NearLines \cup lines = X
    BY <1>2, <2>1
  <2> QED
    BY <1>3, <2>1, <2>2
<1> QED
  BY <1>6, <1>7, <1>8, DiffTrueIs

\* Whatever sections are expanded, the page shows the lines of the diff that
\* it should, in their order and with their numbers in both versions.
THEOREM DiffAlwaysTrue ==
  DiffSpec => [](DiffTypeOK /\ DiffTrue)
<1>1. DiffInit => DiffInv
  BY EmptySeq DEF DiffInit, DiffInv, DiffTypeOK
<1>2. DiffInv /\ [DiffNext]_diffVars => DiffInv'
  <2> SUFFICES ASSUME DiffInv, [DiffNext]_diffVars PROVE DiffInv'
    OBVIOUS
  <2>1. diffLines \in Seq(Tags) /\ expanded \subseteq Nat /\ expanded \subseteq 0 .. Collapsed - 1
    BY DEF DiffInv, DiffTypeOK
  <2>2. Collapsed \in Nat
    BY <2>1, ShownTypes, CollapsedTypes
  <2>3. diffLines' = diffLines => Collapsed' = Collapsed
    BY DEF Collapsed, Shown
  <2>4. CASE ShowDiff
    <3>1. PICK n \in 0 .. MaxLines : diffLines' \in [1 .. n -> Tags]
      BY <2>4 DEF ShowDiff
    <3>2. diffLines' \in Seq(Tags)
      BY <3>1
    <3>3. expanded' = {}
      BY <2>4 DEF ShowDiff
    <3> QED
      BY <3>2, <3>3 DEF DiffInv, DiffTypeOK
  <2>5. CASE HideDiff
    BY <2>5, EmptySeq DEF HideDiff, DiffInv, DiffTypeOK
  <2>6. CASE ExpandSection
    <3>1. PICK number \in 0 .. Collapsed - 1 : expanded' = expanded \cup {number} /\ diffLines' = diffLines
      BY <2>6 DEF ExpandSection
    <3>2. expanded' \subseteq 0 .. Collapsed - 1
      BY <2>1, <3>1
    <3>3. expanded' \subseteq Nat
      BY <2>2, <3>2
    <3> QED
      BY <2>1, <2>3, <3>1, <3>2, <3>3 DEF DiffInv, DiffTypeOK
  <2>7. CASE ExpandAll
    <3>1. expanded' = expanded \cup 0 .. Collapsed - 1 /\ diffLines' = diffLines
      BY <2>7 DEF ExpandAll
    <3>2. expanded' \subseteq 0 .. Collapsed - 1
      BY <2>1, <3>1
    <3>3. expanded' \subseteq Nat
      BY <2>2, <3>2
    <3> QED
      BY <2>1, <2>3, <3>1, <3>2, <3>3 DEF DiffInv, DiffTypeOK
  <2>8. CASE UNCHANGED diffVars
    <3>1. expanded' = expanded /\ diffLines' = diffLines
      BY <2>8 DEF diffVars
    <3> QED
      BY <2>1, <2>3, <3>1 DEF DiffInv, DiffTypeOK
  <2> QED
    BY <2>4, <2>5, <2>6, <2>7, <2>8 DEF DiffNext
<1>3. DiffInv => DiffTypeOK /\ DiffTrue
  BY DiffInvTrue DEF DiffInv
<1> QED
  BY <1>1, <1>2, <1>3, PTL DEF DiffSpec

-----------------------------------------------------------------------------
(* The composition *)

\* A step of the composition is one of each part, or leaves that part alone.
LEMMA StepOfParts ==
  ASSUME [PassesNext]_passVars
  PROVE  /\ [Next]_vars
         /\ [PreparedNext]_preparedVars /\ [TrendsNext]_trendVars /\ [PagesNext]_pageVars
         /\ [RateLimitNext]_limitVars
         /\ [DocumentPageNext]_documentVars /\ [DiffNext]_diffVars
         /\ [PaginationNext]_numberVars
<1>1. CASE Next /\ UNCHANGED <<ends, limitVars, dashboard>>
  BY <1>1 DEF ends, dashboard
<1>2. CASE EndsNext /\ UNCHANGED <<vars, limitVars, dashboard>>
  BY <1>2 DEF EndsNext, dashboard
<1>3. CASE RateLimitNext /\ UNCHANGED <<vars, ends, dashboard>>
  BY <1>3 DEF ends, dashboard
<1>4. CASE DashboardNext /\ UNCHANGED <<vars, ends, limitVars>>
  BY <1>4 DEF DashboardNext, ends
<1>5. CASE UNCHANGED passVars
  BY <1>5 DEF passVars, ends, dashboard
<1> QED
  BY <1>1, <1>2, <1>3, <1>4, <1>5 DEF PassesNext

\* A behaviour of the composition is one of each of its parts.
LEMMA PassesFollow ==
  PassesSpec =>
    /\ Spec
    /\ PreparedSpec /\ TrendsSpec /\ PagesSpec
    /\ RateLimitSpec
    /\ DocumentPageSpec /\ DiffSpec /\ PaginationSpec
<1>1. PassesInit =>
        /\ Init
        /\ PreparedInit /\ TrendsInit /\ PagesInit
        /\ RateLimitInit
        /\ DocumentPageInit /\ DiffInit /\ PaginationInit
  BY DEF PassesInit
<1> QED
  BY <1>1, StepOfParts, PTL
  DEF PassesSpec, Spec, PreparedSpec, TrendsSpec, PagesSpec, RateLimitSpec,
      DocumentPageSpec, DiffSpec, PaginationSpec

\* A pass of the processing and what lies at its ends, together: types, rows
\* that forget nothing, versions that are those of the history, inputs of the
\* commit, trends of entries that were written, pages of what the jobs computed,
\* budgets that are kept, and a dashboard that shows what its URL says.
THEOREM PassesAlwaysTrue ==
  PassesSpec => [](/\ PassesTypeOK
                   /\ NothingForgotten /\ VersionsMatchHistory
                   /\ InputsExact /\ TrendsTrue /\ PagesTrue
                   /\ BudgetKept
                   /\ DashboardTrue)
<1>1. RateLimitSpec => []RateLimitTypeOK
  <2>1. LimitInv => RateLimitTypeOK
    BY DEF LimitInv
  <2> QED
    BY <2>1, LimitInit, LimitNext, PTL DEF RateLimitSpec
<1>2. /\ TypeOK /\ PreparedTypeOK /\ TrendsTypeOK /\ PagesTypeOK /\ RateLimitTypeOK
      /\ DocumentPageTypeOK /\ DiffTypeOK /\ PaginationTypeOK
      => PassesTypeOK
  BY DEF PassesTypeOK
<1>3. ShownTrue /\ DiffTrue /\ WindowTrue => DashboardTrue
  BY DEF DashboardTrue
<1> QED
  BY <1>1, <1>2, <1>3, PassesFollow, TypeCorrect, NeverForgotten, VersionsAlwaysMatch,
     InputsAlwaysExact, TrendsAlwaysTrue, PagesAlwaysTrue, BudgetAlwaysKept,
     ShownAlwaysTrue, DiffAlwaysTrue, WindowAlwaysTrue, PTL

\* The dashboard shows the document of its URL, the differences of the versions
\* that are selected and the pages that exist, whatever is done beside it.
THEOREM DashboardAlwaysTrue ==
  PassesSpec => []DashboardTrue
BY PassesAlwaysTrue, PTL

=============================================================================
