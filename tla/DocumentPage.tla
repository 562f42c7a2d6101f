---------------------------- MODULE DocumentPage ----------------------------
(***************************************************************************)
(* The page of a document in the dashboard                                 *)
(* (dashboard/src/pages/document.rs): the URL says which document, tab,    *)
(* version and page of the history are shown; memos over the URL decide    *)
(* what is asked of the server again.  Links, the buttons of the history   *)
(* and those of the browser change the URL while answers are on their way. *)
(*                                                                         *)
(* What is loaded (the resources of leptos) does not act on each other: a  *)
(* behaviour follows one of them.                                          *)
(***************************************************************************)
EXTENDS Naturals, Sequences

CONSTANTS
  Documents,       \* documents
  Selectable,    \* versions that can be selected
  Offsets,    \* where pages of the history begin, 0 among them
  Tabs,       \* tabs of the page
  Blank,      \* nothing
  MaxEntries  \* bound: entries of the browser's history

Resources == {"detail", "content", "versions", "historical", "diff", "source"}

\* For a document, a version of it or a page of its history.
Query == Documents \cup (Documents \X Selectable) \cup (Documents \X Offsets)

ASSUME PageAssumption ==
  /\ 0 \in Offsets /\ MaxEntries \in Nat
  /\ {"overview", "history", "source"} \subseteq Tabs
  /\ Blank \notin Selectable \cup Query

VARIABLES
  gate,     \* StartupGate: what the last poll of the server said
  entries,  \* the browser's history while the page is open
  here,     \* the entry that is shown
  loaded    \* the resource: which it is, its last request, what it holds

VARIABLES
  lastRequest,  \* its last request for the document that is shown
  repeated      \* did it ask again for what it had asked for?

documentVars == <<gate, entries, here, loaded, lastRequest, repeated>>

Url == [doc : Documents, tab : Tabs, commit : Selectable \cup {Blank}, offset : Offsets]

Given  == [of : Query, says : {"found", "missing", "failed"}]

DocumentPageTypeOK ==
  /\ gate \in {"unknown", "unreachable", "starting", "ready"}
  /\ entries \in Seq(Url) /\ here \in {0} \cup DOMAIN entries
  /\ loaded \in [of : Resources, memo : Query \cup {Blank}, asked : Query \cup {Blank},
                 running : BOOLEAN, holds : Given \cup {Blank}]
  /\ lastRequest \in Query \cup {Blank} /\ repeated \in BOOLEAN

Unloaded(r) == [of |-> r, memo |-> Blank, asked |-> Blank, running |-> FALSE, holds |-> Blank]

DocumentPageInit ==
  /\ gate = "unknown"
  /\ entries = <<>> /\ here = 0
  /\ \E r \in Resources : loaded = Unloaded(r)
  /\ lastRequest = Blank /\ repeated = FALSE

\* The page is shown.
Mounted == here # 0

url == entries[here]

-----------------------------------------------------------------------------
(* StartupGate: the server is polled until it is ready *)

Poll ==
  /\ gate # "ready"
  /\ gate' \in {"unreachable", "starting", "ready"}
  /\ UNCHANGED <<entries, here, loaded, lastRequest, repeated>>

-----------------------------------------------------------------------------
(* Navigation *)

\* The URL that is left is the last of those before the new one.
GoTo(u) ==
  /\ here < MaxEntries
  /\ entries' = Append(SubSeq(entries, 1, here), u)
  /\ here' = here + 1
  /\ UNCHANGED gate

Follow(u) ==
  /\ Mounted /\ GoTo(u)
  /\ UNCHANGED <<loaded, lastRequest, repeated>>

\* From another page: the page of the document is built anew.
OpenDocument(doc) ==
  /\ gate = "ready"
  /\ GoTo([doc |-> doc, tab |-> "overview", commit |-> Blank, offset |-> 0])
  /\ loaded' = Unloaded(loaded.of)
  /\ lastRequest' = Blank
  /\ UNCHANGED repeated

\* Only history_url keeps the offset.
OpenTab(tab) ==
  Follow([doc |-> url.doc, tab |-> tab, commit |-> Blank,
          offset |-> IF tab = "history" THEN url.offset ELSE 0])

\* A row of the history.  (The list may still be that of another page.)
SelectVersion(commit) ==
  /\ url.tab = "history" /\ url.commit = Blank
  /\ Follow([url EXCEPT !.commit = commit])

TurnPage(first) ==
  /\ url.tab = "history" /\ url.commit = Blank /\ first # url.offset
  /\ Follow([url EXCEPT !.offset = first])

\* Back and forward, by any number of entries.
Travel ==
  /\ \E e \in DOMAIN entries \ {here} :
       /\ here' = e
       /\ lastRequest' = IF entries[e].doc = url.doc THEN lastRequest ELSE Blank
  /\ UNCHANGED <<gate, entries, loaded, repeated>>

Navigate ==
  \/ \E doc \in Documents : OpenDocument(doc)
  \/ /\ Mounted
     /\ \/ \E tab \in Tabs : OpenTab(tab)
        \/ \E commit \in Selectable : SelectVersion(commit)
        \/ \E first \in Offsets : TurnPage(first)
        \/ Travel

-----------------------------------------------------------------------------
(* Resources: they ask again when what they depend on has changed *)

\* Mutant: what was requested is forgotten on the other tabs.
VersionsRequestDropped == IF url.tab = "history" THEN <<url.doc, url.offset>> ELSE Blank

\* versions_request: the last page of this document's history, once one was asked for.
VersionsRequest ==
  IF url.tab = "history" THEN <<url.doc, url.offset>>
  ELSE IF loaded.memo # Blank /\ loaded.memo[1] = url.doc THEN loaded.memo
  ELSE Blank

VersionSelected == IF url.commit = Blank THEN Blank ELSE <<url.doc, url.commit>>

\* DocumentSource is there while its tab is open.
SourceOf == IF url.tab = "source" THEN url.doc ELSE Blank

Dependency ==
  CASE loaded.of \in {"detail", "content"} -> url.doc
    [] loaded.of = "versions" -> VersionsRequest
    [] loaded.of \in {"historical", "diff"} -> VersionSelected
    [] loaded.of = "source" -> SourceOf

Settled == Dependency = loaded.asked

\* An answer that is on its way is dropped.  Without anything to ask for the
\* resource holds nothing.
Ask ==
  /\ Mounted /\ ~Settled
  /\ LET request == Dependency IN
     /\ loaded' = [loaded EXCEPT !.memo = request, !.asked = request,
                     !.running = request # Blank, !.holds = IF request = Blank THEN Blank ELSE @]
     /\ IF request = Blank THEN UNCHANGED <<lastRequest, repeated>>
        ELSE /\ lastRequest' = request
             /\ repeated' = (repeated \/ request = lastRequest)
  /\ UNCHANGED <<gate, entries, here>>

\* Also when something else is to be asked for by now.
Arrive ==
  /\ loaded.running
  /\ \E says \in {"found", "missing", "failed"} :
       loaded' = [loaded EXCEPT !.running = FALSE, !.holds = [of |-> loaded.asked, says |-> says]]
  /\ UNCHANGED <<gate, entries, here, lastRequest, repeated>>

DocumentPageNext == Poll \/ Navigate \/ Ask \/ Arrive

DocumentPageSpec == DocumentPageInit /\ [][DocumentPageNext]_documentVars

-----------------------------------------------------------------------------

\* What the tab is made of.
Body ==
  CASE url.tab \in {"notes", "vulnerabilities"} -> {"content"}
    [] url.tab = "source" -> {"source"}
    [] url.tab = "history" -> IF url.commit = Blank THEN {"versions"} ELSE {"historical", "diff"}
    [] OTHER -> {"detail", "content"}

\* Once everything that was asked for has arrived, a tab shows the document,
\* the version and the page of the history that the URL names, however links
\* were followed while answers were on their way.
ShownBelongs ==
  Mounted /\ loaded.of \in Body /\ Settled /\ ~loaded.running =>
    loaded.holds.of = (CASE loaded.of = "versions" -> <<url.doc, url.offset>>
                         [] loaded.of \in {"historical", "diff"} -> <<url.doc, url.commit>>
                         [] OTHER -> url.doc)

\* Changing tabs and versions asks for nothing of the same document again but
\* for what changes with them: "Tab and version changes must not invalidate the
\* current document's resources", "Keep the last requested history page while
\* visiting other tabs in this document" (document.rs).
NothingReloaded == loaded.of \in {"detail", "content", "versions"} => ~repeated

\* The page is what its URL says, and is not loaded twice.
ShownTrue == ShownBelongs /\ NothingReloaded

=============================================================================
