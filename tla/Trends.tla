------------------------------- MODULE Trends -------------------------------
(***************************************************************************)
(* A provider's metrics and the trends shown of them: each job appends the *)
(* counts of its summary to the provider's metrics file (pipeline/         *)
(* report.rs, models/metrics.rs), the overview picks the entries to        *)
(* compare today's summary with (storage/overview.rs, api/overview.rs) and *)
(* keeps them for the day.  Days pass meanwhile, jobs fail, the server     *)
(* restarts and the provider is deleted.                                   *)
(***************************************************************************)
EXTENDS Integers, Sequences, FiniteSets

CONSTANTS
  NoData,     \* no file, no entry, no snapshot, no trend
  Garbled,    \* a metrics file that is not JSON
  Window,     \* entries a file keeps (365)
  Ago,        \* days of the comparisons: a week, a month
  LastDay,    \* bound: days
  MaxReports, \* bound: entries written
  MaxCount    \* bound: documents

ASSUME TrendsAssumption ==
  /\ Window \in Nat \ {0} /\ Ago \subseteq Nat \ {0, 1}
  /\ LastDay \in Nat /\ MaxReports \in Nat /\ MaxCount \in Nat
  /\ NoData \notin Int /\ Garbled # NoData

Days   == 0 .. LastDay
Counts == 0 .. MaxCount
Entry  == [date : Days, documents : Counts]

VARIABLES
  today,
  summarized, \* documents of the summary
  metrics,    \* the metrics file
  report,     \* the job: its step, and what it writes
  baselines,  \* OverviewSnapshot: day and baselines; was the file readable?
  trends,     \* an overview: what it compares and what comes out
  taken,      \* every entry written since the provider was added
  outlived    \* was the provider deleted since baselines were measured?

trendVars == <<today, summarized, metrics, report, baselines, trends, taken, outlived>>

Series    == {s \in Seq(Entry) : Len(s) <= MaxReports}
Report    == [at : {"idle", "validated", "loaded", "writing"}, series : Series,
              entry : Entry]
Baselines == [date : Days, of : [Ago -> Counts \cup {NoData}], read : BOOLEAN]
Page      == [date : Days, documents : Counts, change : [Ago -> Int \cup {NoData}],
              read : BOOLEAN, outlived : BOOLEAN]
NoReport  == [at |-> "idle", series |-> <<>>, entry |-> [date |-> 0, documents |-> 0]]

\* No file, and one that is not JSON, are no series of entries.
ASSUME SeriesAssumption == NoData \notin Series /\ Garbled \notin Series

TrendsTypeOK ==
  /\ today \in Days
  /\ summarized \in Counts \cup {NoData}
  /\ metrics \in {NoData, Garbled} \/ metrics \in Series
  /\ report \in Report
  /\ baselines = NoData \/ baselines \in Baselines
  /\ trends = NoData \/ trends \in Page
  /\ taken \in Series
  /\ outlived \in BOOLEAN

TrendsInit ==
  /\ today = 0 /\ summarized = NoData /\ metrics = NoData
  /\ report = NoReport
  /\ baselines = NoData /\ trends = NoData
  /\ taken = <<>> /\ outlived = FALSE

-----------------------------------------------------------------------------
(* Jobs: save_summary, generate_report *)

SaveCounts ==
  /\ report.at = "idle" /\ Len(taken) < MaxReports
  /\ summarized' \in Counts
  /\ report' = [NoReport EXCEPT !.at = "validated"]
  /\ UNCHANGED <<today, metrics, baselines, trends, taken, outlived>>

Saved == IF metrics = NoData THEN <<>> ELSE metrics

\* Mutant: the newest entry is cut off, not the oldest.
TrimNewest(series) ==
  IF Len(series) > Window THEN SubSeq(series, 1, Window) ELSE series

Trim(series) ==
  IF Len(series) > Window THEN SubSeq(series, Len(series) - Window + 1, Len(series))
  ELSE series

\* A file that cannot be parsed fails the job, and every one after it.
AppendEntry ==
  /\ report.at = "validated"
  /\ metrics # Garbled
  /\ LET entry == [date |-> today, documents |-> summarized] IN
     report' = [at |-> "loaded", series |-> Trim(Append(Saved, entry)), entry |-> entry]
  /\ UNCHANGED <<today, summarized, metrics, baselines, trends, taken, outlived>>

\* fs::write empties the file before it writes.
TruncateMetrics ==
  /\ report.at = "loaded"
  /\ metrics' = Garbled
  /\ report' = [report EXCEPT !.at = "writing"]
  /\ UNCHANGED <<today, summarized, baselines, trends, taken, outlived>>

WriteMetrics ==
  /\ report.at = "writing"
  /\ metrics' = report.series
  /\ taken' = Append(taken, report.entry)
  /\ report' = NoReport
  /\ UNCHANGED <<today, summarized, baselines, trends, outlived>>

ReportFails ==
  /\ report.at # "idle"
  /\ report' = NoReport
  /\ UNCHANGED <<today, summarized, metrics, baselines, trends, taken, outlived>>

-----------------------------------------------------------------------------
(* The overview *)

\* The latest entry that is old enough, or NoData.
Latest(series, day, days) ==
  {i \in DOMAIN series : /\ series[i].date <= day - days
                         /\ \A j \in DOMAIN series : j > i => series[j].date > day - days}

TrendBaseline(series, day, days) ==
  IF Latest(series, day, days) = {} THEN NoData
  ELSE series[CHOOSE i \in Latest(series, day, days) : TRUE].documents

\* load_baselines leaves out what it cannot read.
MeasureBaselines ==
  [date |-> today, read |-> metrics # Garbled,
   of |-> [n \in Ago |-> IF metrics \in {NoData, Garbled} THEN NoData
                         ELSE TrendBaseline(metrics, today, n)]]

\* What was measured today is used again; it is measured anew if the day has
\* changed or somebody has invalidated it.
OverviewSnapshot ==
  IF baselines # NoData
    THEN IF baselines.date = today THEN baselines ELSE MeasureBaselines
    ELSE MeasureBaselines

\* build, trend_delta: only a provider with a summary and a baseline counts.
ShowTrends ==
  /\ summarized # NoData
  /\ baselines' = OverviewSnapshot
  /\ outlived' = (outlived /\ baselines = OverviewSnapshot)
  /\ trends' = [date |-> today, documents |-> summarized, read |-> OverviewSnapshot.read,
                outlived |-> outlived',
                change |-> [n \in Ago |-> IF OverviewSnapshot.of[n] = NoData THEN NoData
                                          ELSE summarized - OverviewSnapshot.of[n]]]
  /\ UNCHANGED <<today, summarized, metrics, report, taken>>

CloseTrends ==
  /\ trends' = NoData
  /\ UNCHANGED <<today, summarized, metrics, report, baselines, taken, outlived>>

\* The hook of a finished job, of any provider, a refreshed summary, a restart.
InvalidateTrends ==
  /\ baselines' = NoData /\ outlived' = FALSE
  /\ UNCHANGED <<today, summarized, metrics, report, trends, taken>>

-----------------------------------------------------------------------------

\* Writing a file does not take a week.
NextDay ==
  /\ today < LastDay
  /\ report.at \in {"loaded", "writing"} => report.entry.date = today
  /\ today' = today + 1
  /\ UNCHANGED <<summarized, metrics, report, baselines, trends, taken, outlived>>

\* delete_provider; what a job does beside it is in ProviderJobs.
DeleteMetrics ==
  /\ report.at = "idle"
  /\ summarized' = NoData /\ metrics' = NoData /\ taken' = <<>>
  /\ outlived' = TRUE
  /\ trends' = NoData
  /\ UNCHANGED <<today, report, baselines>>

TrendsNext ==
  \/ SaveCounts \/ AppendEntry \/ TruncateMetrics \/ WriteMetrics \/ ReportFails
  \/ ShowTrends \/ CloseTrends \/ InvalidateTrends
  \/ NextDay \/ DeleteMetrics

TrendsSpec == TrendsInit /\ [][TrendsNext]_trendVars

-----------------------------------------------------------------------------

\* A trend compares today's summary with the counts of the latest job that
\* ended at least that many days ago, although baselines are kept for a day and
\* jobs go on, fail and are cut off.  None is shown only if there was no such
\* job, if as many jobs as the file keeps entries have run since, or if the
\* file could not be read.  (Baselines of a deleted provider that is added
\* again on the same day are used until its first job ends.)
TrendsTrue ==
  trends # NoData /\ ~trends.outlived =>
    \A n \in Ago :
      LET due == Latest(taken, trends.date, n) IN
      \/ \E i \in due : trends.change[n] = trends.documents - taken[i].documents
      \/ /\ trends.change[n] = NoData
         /\ trends.read => \A i \in due : Len(taken) - i >= Window

=============================================================================
