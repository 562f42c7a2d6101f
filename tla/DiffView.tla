------------------------------ MODULE DiffView ------------------------------
(***************************************************************************)
(* The differences between two versions of a document as the dashboard     *)
(* shows them (dashboard/src/components/diff_view.rs): lines are numbered  *)
(* in both versions, and what is far from any change is collapsed into     *)
(* sections that are expanded one by one or together.                      *)
(*                                                                         *)
(* Of a line only what happened to it counts.                              *)
(***************************************************************************)
EXTENDS Naturals, Sequences, FiniteSets, SequencesExt

CONSTANTS
  Context,  \* CONTEXT_LINES: lines shown around a change
  MaxLines  \* bound: lines of a diff

ASSUME DiffAssumption == Context \in Nat /\ MaxLines \in Nat

VARIABLES
  diffLines,  \* tags of the diff, one for each line; none while none is shown
  expanded    \* collapsed sections that were expanded, by their number from 0

diffVars == <<diffLines, expanded>>

Tags == {"equal", "insert", "delete"}

DiffTypeOK == diffLines \in Seq(Tags) /\ expanded \subseteq Nat

-----------------------------------------------------------------------------

\* assign_line_numbers; 0 where a version does not have the line.
Numbered(tags) ==
  LET numbered[n \in 0 .. Len(tags)] ==
        IF n = 0 THEN [old |-> 0, new |-> 0, lines |-> <<>>]
        ELSE LET before == numbered[n - 1]
                 tag == tags[n]
                 old == IF tag = "insert" THEN before.old ELSE before.old + 1
                 new == IF tag = "delete" THEN before.new ELSE before.new + 1 IN
             [old |-> old, new |-> new,
              lines |-> Append(before.lines, [tag |-> tag,
                          old |-> IF tag = "insert" THEN 0 ELSE old,
                          new |-> IF tag = "delete" THEN 0 ELSE new])]
  IN numbered[Len(tags)].lines

\* Mutant: the end of the context is taken to be exclusive.
AroundShort(i) == i - Context + 1 .. i + Context - 1

\* Lines that a change at line i makes visible.
Around(i) == i - Context .. i + Context

\* compute_sections: maximal runs of lines that are all visible or all not.
Sections(lines) ==
  LET visible == UNION {Around(i) : i \in {j \in DOMAIN lines : lines[j].tag # "equal"}}
      put[n \in 0 .. Len(lines)] ==
        IF n = 0 THEN <<>>
        ELSE LET sections == put[n - 1] IN
             IF sections # <<>> /\ Last(sections).visible = (n \in visible)
               THEN Append(Front(sections),
                           [Last(sections) EXCEPT !.lines = Append(@, lines[n])])
               ELSE Append(sections, [visible |-> n \in visible, lines |-> <<lines[n]>>])
  IN put[Len(lines)]

Shown == Sections(Numbered(diffLines))

\* Collapsed sections are numbered in their order, from 0.
CollapsedBefore(shown, s) == Cardinality({r \in DOMAIN shown : r < s /\ ~shown[r].visible})

Collapsed == CollapsedBefore(Shown, Len(Shown) + 1)

ExpandSection ==
  /\ \E number \in 0 .. Collapsed - 1 : number \notin expanded /\ expanded' = expanded \cup {number}
  /\ UNCHANGED diffLines

ExpandAll ==
  /\ Collapsed > 0
  /\ expanded' = expanded \cup 0 .. Collapsed - 1
  /\ UNCHANGED diffLines

\* Selecting two versions builds the view anew; leaving them takes it away.
ShowDiff ==
  /\ diffLines = <<>> /\ expanded = {}
  /\ diffLines' \in UNION {[1 .. n -> Tags] : n \in 0 .. MaxLines}
  /\ UNCHANGED expanded

HideDiff ==
  /\ diffLines' = <<>> /\ expanded' = {}

DiffInit == diffLines = <<>> /\ expanded = {}

DiffNext == ShowDiff \/ HideDiff \/ ExpandSection \/ ExpandAll

DiffSpec == DiffInit /\ [][DiffNext]_diffVars

-----------------------------------------------------------------------------

\* The lines that can be read now, in their order on the page.
Readable ==
  LET shown == Shown
      text[s \in 0 .. Len(shown)] ==
        IF s = 0 THEN <<>>
        ELSE IF shown[s].visible \/ CollapsedBefore(shown, s) \in expanded
          THEN text[s - 1] \o shown[s].lines
        ELSE text[s - 1]
  IN text[Len(shown)]

\* What is read are lines of the diff in their order, each with its number in
\* both versions.  Every change and every line within the context of one is
\* there; any other line is hidden until its section is expanded, and with all
\* sections expanded nothing is hidden.
DiffTrue ==
  LET all  == DOMAIN diffLines
      text == Readable
      Place(i) ==
        [tag |-> diffLines[i],
         old |-> IF diffLines[i] = "insert" THEN 0
                 ELSE Cardinality({j \in 1 .. i : diffLines[j] # "insert"}),
         new |-> IF diffLines[i] = "delete" THEN 0
                 ELSE Cardinality({j \in 1 .. i : diffLines[j] # "delete"})]
      near == {i \in all : \E j \in all : diffLines[j] # "equal" /\ i \in j - Context .. j + Context}
      Is(lines) == text = [k \in 1 .. Cardinality(lines) |->
                             Place(CHOOSE i \in lines : Cardinality({j \in lines : j <= i}) = k)] IN
  /\ expanded = {} => Is(near)
  /\ Cardinality(expanded) = Collapsed => Is(all)
  /\ \E lines \in SUBSET (all \ near) : Is(near \cup lines)

=============================================================================
