------------------------------ MODULE MCPasses ------------------------------
(***************************************************************************)
(* A pass of the processing and what lies at its two ends: the files the   *)
(* validation reads, the entry the report appends with the trends that     *)
(* come of it, and what is shown: of the provider while its jobs run, to   *)
(* how many requests, and in the dashboard.  None acts on the rows a pass  *)
(* works with (what they hand over, "the inputs of the commit", "the       *)
(* report is written" and "the rows are written", is what Processing takes *)
(* them for) nor on another, so a behaviour follows one of them.           *)
(***************************************************************************)
EXTENDS MCProcessing, PreparedFiles, Trends, ProviderPages,
        RateLimit, DocumentPage, DiffView, Pagination

CONSTANTS a1, b1

MCNetwork == [a \in {a1, b1} |-> a]

VARIABLE part

ends      == <<preparedVars, trendVars, pageVars>>
dashboard == <<documentVars, diffVars, numberVars>>

passVars == <<part, vars, ends, limitVars, dashboard>>

PassesInit ==
  /\ part \in {"rows", "inputs", "trends", "pages", "limit", "document", "diff", "numbers"}
  /\ Init /\ PreparedInit /\ TrendsInit /\ PagesInit
  /\ RateLimitInit /\ DocumentPageInit /\ DiffInit /\ PaginationInit
  /\ part # "rows" => Fresh
  /\ part # "pages" => listed = "absent"
  /\ part # "document" => loaded.of = "detail"
  /\ part # "numbers" => offset = 0 /\ total = 0

EndsNext ==
  \/ part = "inputs" /\ PreparedNext /\ UNCHANGED <<trendVars, pageVars>>
  \/ part = "trends" /\ TrendsNext /\ UNCHANGED <<preparedVars, pageVars>>
  \/ part = "pages" /\ PagesNext /\ UNCHANGED <<preparedVars, trendVars>>

DashboardNext ==
  \/ part = "document" /\ DocumentPageNext /\ UNCHANGED <<diffVars, numberVars>>
  \/ part = "diff" /\ DiffNext /\ UNCHANGED <<documentVars, numberVars>>
  \/ part = "numbers" /\ PaginationNext /\ UNCHANGED <<documentVars, diffVars>>

PassesNext ==
  /\ \/ part = "rows" /\ Next /\ UNCHANGED <<ends, limitVars, dashboard>>
     \/ EndsNext /\ UNCHANGED <<vars, limitVars, dashboard>>
     \/ part = "limit" /\ RateLimitNext /\ UNCHANGED <<vars, ends, dashboard>>
     \/ DashboardNext /\ UNCHANGED <<vars, ends, limitVars>>
  /\ UNCHANGED part

PassesSpec == PassesInit /\ [][PassesNext]_passVars

PassesTypeOK ==
  /\ TypeOK /\ PreparedTypeOK /\ TrendsTypeOK /\ PagesTypeOK /\ RateLimitTypeOK
  /\ DocumentPageTypeOK /\ DiffTypeOK /\ PaginationTypeOK

\* The document, the differences of two versions and the page numbers that the
\* dashboard shows are those of the URL, of the versions and of the records.
DashboardTrue == ShownTrue /\ DiffTrue /\ WindowTrue

=============================================================================
