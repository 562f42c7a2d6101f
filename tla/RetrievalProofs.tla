--------------------------- MODULE RetrievalProofs ---------------------------
(***************************************************************************)
(* No advisory of a distribution that cannot be skipped is forgotten, for  *)
(* every set of advisories and distributions, if full passes run to their  *)
(* end.                                                                    *)
(*                                                                         *)
(* The argument follows an advisory that is Stale (mirrored in an older    *)
(* version than the published one) through a run: the token, or a recorded *)
(* failure, makes the run select it; the run then downloads it, records    *)
(* its failure, or it is released again after the run has started; and the *)
(* new token is that start.                                                *)
(***************************************************************************)
EXTENDS Retrieval, TLAPS

-----------------------------------------------------------------------------
(* The inductive invariant *)

\* The distributions whose failure ends the sync.
Reliable  == IF Skips THEN Clear ELSE Distributions
Important == UNION {Listed[distribution] : distribution \in Reliable}

Stale(d)         == Published(d) /\ mirror[d] # remote[d].version
Since0(d, since) == since = None \/ remote[d].modified >= since

\* The token and the start of a run never lie in the future, and a run starts
\* after the time it goes back to.
TimesOK ==
  /\ token # None => token <= clock
  /\ job.started <= clock
  /\ job.sync => /\ token # None => token <= job.started
                 /\ job.since # None => job.since <= job.started

\* What a job is, step by step.
PhaseOK ==
  /\ pc \in {"discover", "commit", "token"} => job.sync
  /\ pc \in {"idle", "discover", "commit"} => ~job.full
  /\ pc = "select" => (job.full <=> ~job.sync)
  /\ pc = "select" /\ ~job.sync => job.errors = failed
  /\ pc \in {"publish", "token"} => job.errors \subseteq failed
  /\ pc = "token" => touched = {}
  /\ pc # "idle" /\ ~job.full => job.sync
  /\ pc = "validate" /\ ~job.full => job.todo \subseteq touched \cup Fetched

\* What is downloaded is published; it is the current version or was replaced
\* during the run.
FetchedOK ==
  /\ \A d \in job.pending : Published(d)
  /\ \A d \in Docs : job.fetched[d] # None =>
       /\ job.sync
       /\ Published(d)
       /\ job.fetched[d] = remote[d].version \/ remote[d].modified >= job.started
       /\ pc \notin {"discover", "commit"} => mirror[d] = job.fetched[d]

\* What was committed but not yet processed was fetched after the token.
TouchedOK ==
  \A d \in touched : Stale(d) => Since0(d, token)

\* The run knows what it has to ask for.
SelectionOK ==
  pc = "discover" =>
    \A d \in Important : Stale(d) => Since0(d, job.since) \/ d \in job.retry

\* The version at HEAD once the run has committed.
Eventual(d) == IF job.fetched[d] # None THEN job.fetched[d] ELSE mirror[d]

Done(d) ==
  \/ remote[d].modified >= job.started
  \/ d \in job.errors
  \/ Eventual(d) = remote[d].version

\* The walk misses nothing.
WalkOK ==
  /\ pc = "discover" =>
       \A c \in Reliable : \A d \in Listed[c] :
         Published(d) => c \in job.open \/ d \in job.pending \/ Done(d)
  /\ pc \notin {"idle", "discover"} /\ job.sync =>
       \A d \in Important : Published(d) => Done(d)

\* A full pass erases the recorded failures before it stores those of the job.
Remembered(d) ==
  IF job.full /\ pc \in {"validate", "failures"} THEN d \in job.errors
  ELSE d \in failed

\* Nothing is forgotten, at any time.
CoverageOK ==
  \A d \in Important : Stale(d) => Since0(d, token) \/ Remembered(d)

IInv ==
  /\ TypeOK
  /\ TimesOK
  /\ PhaseOK
  /\ FetchedOK
  /\ TouchedOK
  /\ SelectionOK
  /\ WalkOK
  /\ CoverageOK

-----------------------------------------------------------------------------
(* The initial states, and what the invariant says of a job's end *)

LEMMA NoJobType == NoJob \in Job
BY RetrievalAssumption DEF NoJob, Nothing, Job, Time

LEMMA ImportantDocs ==
  /\ Important \subseteq Docs
  /\ \A c \in Reliable : c \in Distributions /\ Listed[c] \subseteq Important
BY RetrievalAssumption DEF Important, Reliable

LEMMA InvInit == Init => IInv
<1> SUFFICES ASSUME Init PROVE IInv
  OBVIOUS
<1>1. TypeOK
  <2>1. 0 \in Time
    BY RetrievalAssumption DEF Time
  <2> QED
    BY <2>1, NoJobType DEF Init, TypeOK, Nothing, Steps
<1>2. TimesOK /\ PhaseOK
  BY DEF Init, TimesOK, PhaseOK, NoJob
<1>3. FetchedOK /\ TouchedOK
  BY DEF Init, FetchedOK, TouchedOK, NoJob, Nothing
<1>4. SelectionOK /\ WalkOK
  BY DEF Init, SelectionOK, WalkOK
<1>5. CoverageOK
  BY DEF Init, CoverageOK, Since0
<1> QED
  BY <1>1, <1>2, <1>3, <1>4, <1>5 DEF IInv

-----------------------------------------------------------------------------
(* The provider's steps *)

LEMMA TickInv == IInv /\ Tick => IInv'
<1> SUFFICES ASSUME IInv, Tick PROVE IInv'
  OBVIOUS
<1> USE DEF Tick, store
<1>1. TypeOK'
  BY RetrievalAssumption DEF IInv, TypeOK, Time
<1>2. TimesOK'
  BY RetrievalAssumption DEF IInv, TypeOK, TimesOK, Time, Job
<1>3. PhaseOK' /\ FetchedOK' /\ TouchedOK' /\ SelectionOK' /\ WalkOK' /\ CoverageOK'
  BY DEF IInv, PhaseOK, FetchedOK, TouchedOK, SelectionOK, WalkOK, CoverageOK,
         Stale, Since0, Published, Done, Eventual, Remembered, Fetched
<1> QED
  BY <1>1, <1>2, <1>3 DEF IInv

LEMMA ReleaseInv ==
  ASSUME IInv, NEW d \in Docs, Release(d)
  PROVE  IInv'
<1> USE DEF Release, store
<1>0. /\ remote' \in [Docs -> Publication \cup {None}]
      /\ Published(d)'
      /\ remote'[d].modified = clock
      /\ \A e \in Docs : e # d => remote'[e] = remote[e]
  <2> DEFINE version == IF Published(d) THEN remote[d].version + 1 ELSE 1
             entry   == [version |-> version, modified |-> clock]
  <2>1. remote \in [Docs -> Publication \cup {None}] /\ clock \in Time
    BY DEF IInv, TypeOK
  <2>2. Published(d) => remote[d].version \in Version
    BY <2>1 DEF Published, Publication
  <2>3. version \in Version /\ entry \in Publication
    BY <2>1, <2>2, RetrievalAssumption DEF Version, Publication
  <2>4. entry # None
    BY <2>3, NoneAssumption
  <2>5. remote' = [remote EXCEPT ![d] = entry]
    OBVIOUS
  <2> HIDE DEF entry
  <2>6. /\ remote' \in [Docs -> Publication \cup {None}]
        /\ remote'[d] = entry
        /\ \A e \in Docs : e # d => remote'[e] = remote[e]
    BY <2>1, <2>3, <2>5
  <2> QED
    BY <2>4, <2>6 DEF Published, entry
<1>1. TypeOK'
  BY <1>0 DEF IInv, TypeOK
<1>2. TimesOK' /\ PhaseOK'
  BY DEF IInv, TimesOK, PhaseOK, Fetched
<1>3. Since0(d, token)' /\ (job.sync => Since0(d, job.since)') /\ Done(d)'
  BY <1>0, RetrievalAssumption
  DEF Since0, Done, IInv, TypeOK, Job, Time, TimesOK
<1>4. FetchedOK'
  BY <1>0, RetrievalAssumption
  DEF IInv, TypeOK, Job, Time, FetchedOK, TimesOK, Published
<1>5. TouchedOK'
  BY <1>0, <1>3 DEF IInv, TypeOK, TouchedOK, Stale, Since0, Published
<1>6. SelectionOK'
  BY <1>0, <1>3, ImportantDocs
  DEF IInv, PhaseOK, SelectionOK, Stale, Since0, Published
<1>7. WalkOK'
  BY <1>0, <1>3, ImportantDocs DEF IInv, WalkOK, Done, Eventual, Published
<1>8. CoverageOK'
  BY <1>0, <1>3, ImportantDocs
  DEF IInv, CoverageOK, Stale, Since0, Published, Remembered
<1> QED
  BY <1>1, <1>2, <1>4, <1>5, <1>6, <1>7, <1>8 DEF IInv

LEMMA TriggerFullInv == IInv /\ TriggerFull => IInv'
<1> SUFFICES ASSUME IInv, TriggerFull PROVE IInv'
  OBVIOUS
<1> USE DEF TriggerFull, world, store
<1>1. TypeOK'
  BY DEF IInv, TypeOK
<1>2. TimesOK' /\ PhaseOK' /\ FetchedOK'
  BY DEF IInv, TimesOK, PhaseOK, FetchedOK, Fetched, Published
<1>3. TouchedOK' /\ CoverageOK'
  BY DEF TouchedOK, CoverageOK, Since0
<1>4. SelectionOK' /\ WalkOK'
  BY DEF IInv, SelectionOK, WalkOK, Stale, Published, Since0, Done, Eventual
<1> QED
  BY <1>1, <1>2, <1>3, <1>4 DEF IInv

-----------------------------------------------------------------------------
(* Discovery and download *)

\* Between jobs the next run knows what it has to ask for.
LEMMA StartSyncInv == IInv /\ StartSync => IInv'
<1> SUFFICES ASSUME IInv, StartSync PROVE IInv'
  OBVIOUS
<1> USE DEF StartSync, world, store
<1>1. Since \in Time \cup {None} /\ (Since = None \/ Since = token) /\ Retry \in SUBSET Docs
  BY DEF IInv, TypeOK, Since, Retry
<1>2. /\ job' \in Job
      /\ job'.sync = TRUE /\ job'.started = clock /\ job'.since = Since
      /\ job'.retry = Retry /\ job'.open = Distributions /\ job'.pending = {}
      /\ job'.fetched = Nothing /\ job'.errors = {} /\ job'.full = FALSE
  BY <1>1, NoJobType DEF IInv, TypeOK, NoJob, Job
<1>3. TypeOK'
  BY <1>2 DEF IInv, TypeOK, Steps
<1>4. TimesOK' /\ PhaseOK'
  <2>1. clock \in Nat /\ token \in Nat \cup {None}
    BY RetrievalAssumption DEF IInv, TypeOK, Time
  <2>2. TimesOK'
    BY <1>1, <1>2, <2>1 DEF IInv, TimesOK
  <2>3. PhaseOK'
    BY <1>2 DEF PhaseOK
  <2> QED
    BY <2>2, <2>3
<1>5. FetchedOK' /\ TouchedOK'
  BY <1>2 DEF IInv, TypeOK, FetchedOK, TouchedOK, Nothing, Stale, Since0, Published
<1>6. SelectionOK'
  <2> SUFFICES ASSUME NEW d \in Important, Stale(d), Since # None
               PROVE  Since0(d, token) \/ d \in failed
    BY <1>1, <1>2 DEF SelectionOK, Stale, Since0, Published, Retry
  <2> QED
    BY DEF IInv, PhaseOK, CoverageOK, Remembered
<1>7. WalkOK'
  BY <1>2, ImportantDocs DEF WalkOK
<1>8. CoverageOK'
  BY <1>2 DEF IInv, PhaseOK, CoverageOK, Remembered, Stale, Since0, Published
<1> QED
  BY <1>3, <1>4, <1>5, <1>6, <1>7, <1>8 DEF IInv

\* What a step of the walk may leave behind.
LEMMA WalkStep ==
  ASSUME IInv, pc = "discover", pc' \in {"discover", "commit"},
         UNCHANGED <<world, token, mirror, store, touched>>,
         job' \in Job, job'.sync = job.sync, job'.started = job.started,
         job'.since = job.since, job'.retry = job.retry, job'.full = job.full,
         FetchedOK', WalkOK'
  PROVE  IInv'
<1> USE DEF world, store
<1>1. TypeOK'
  BY DEF IInv, TypeOK, Steps
<1>2. TimesOK' /\ PhaseOK'
  BY DEF IInv, TimesOK, PhaseOK
<1>3. TouchedOK' /\ SelectionOK' /\ CoverageOK'
  BY DEF IInv, PhaseOK, TouchedOK, SelectionOK, CoverageOK, Remembered, Stale,
         Since0, Published
<1> QED
  BY <1>1, <1>2, <1>3 DEF IInv

LEMMA LoadIndexInv ==
  ASSUME IInv, NEW distribution \in Distributions, LoadIndex(distribution)
  PROVE  IInv'
<1> USE DEF LoadIndex, world, store
<1> DEFINE pending == {d \in Listed[distribution] : Published(d) /\ IsSelected(d)}
<1>1. pending \subseteq Docs
  BY RetrievalAssumption
<1>2. job' = [job EXCEPT !.open = @ \ {distribution}, !.pending = pending]
  OBVIOUS
<1> HIDE DEF pending
<1>3. job \in Job
  BY DEF IInv, TypeOK
<1>4. /\ job' \in Job
      /\ job'.sync = job.sync /\ job'.started = job.started
      /\ job'.since = job.since /\ job'.retry = job.retry
      /\ job'.full = job.full /\ job'.fetched = job.fetched
      /\ job'.errors = job.errors /\ job'.pending = pending
      /\ job'.open = job.open \ {distribution}
  BY <1>1, <1>2, <1>3 DEF Job
<1>5. FetchedOK'
  BY <1>4 DEF IInv, FetchedOK, Published, pending
<1>6. ASSUME NEW d \in Listed[distribution], distribution \in Reliable, Published(d)
      PROVE  d \in pending \/ Done(d)
  <2>1. CASE IsSelected(d)
    BY <1>6, <2>1 DEF pending
  <2>2. CASE ~IsSelected(d)
    <3>1. ~Stale(d)
      BY <1>6, <2>2, ImportantDocs DEF IsSelected, IInv, SelectionOK, Since0
    <3>2. job.fetched[d] = None \/ job.fetched[d] = remote[d].version
            \/ remote[d].modified >= job.started
      BY <1>6, ImportantDocs DEF IInv, FetchedOK
    <3> QED
      BY <1>6, <3>1, <3>2 DEF Stale, Done, Eventual
  <2> QED
    BY <2>1, <2>2
<1>7. WalkOK'
  BY <1>4, <1>6 DEF IInv, WalkOK, Done, Eventual, Published
<1> QED
  BY <1>4, <1>5, <1>7, WalkStep DEF world, store

LEMMA SkipDistributionInv ==
  ASSUME IInv, NEW distribution \in Distributions, SkipDistribution(distribution)
  PROVE  IInv'
<1> USE DEF SkipDistribution, world, store
<1>1. job \in Job
  BY DEF IInv, TypeOK
<1>2. /\ job' \in Job
      /\ job'.sync = job.sync /\ job'.started = job.started
      /\ job'.since = job.since /\ job'.retry = job.retry
      /\ job'.full = job.full /\ job'.fetched = job.fetched
      /\ job'.errors = job.errors /\ job'.pending = job.pending
      /\ job'.open = job.open \ {distribution}
  BY <1>1 DEF Job
<1>3. FetchedOK'
  BY <1>2 DEF IInv, FetchedOK, Published
<1>4. WalkOK'
  BY <1>2 DEF IInv, WalkOK, Done, Eventual, Published, Reliable
<1> QED
  BY <1>2, <1>3, <1>4, WalkStep

LEMMA DownloadInv ==
  ASSUME IInv, NEW d \in Docs, Download(d)
  PROVE  IInv'
<1> USE DEF Download, world, store
<1>1. /\ job \in Job
      /\ remote[d].version \in Version
      /\ remote[d].version # None
  <2>1. remote[d] \in Publication
    BY DEF IInv, TypeOK, FetchedOK, Published
  <2> QED
    BY <2>1, NoneAssumption DEF IInv, TypeOK, Publication, Version
<1>2. /\ job' \in Job
      /\ job'.sync = job.sync /\ job'.started = job.started
      /\ job'.since = job.since /\ job'.retry = job.retry
      /\ job'.full = job.full /\ job'.errors = job.errors
      /\ job'.pending = job.pending \ {d} /\ job'.open = job.open
      /\ job'.fetched = [job.fetched EXCEPT ![d] = remote[d].version]
      /\ job.fetched \in [Docs -> Version \cup {None}]
  BY <1>1 DEF Job
<1>3. FetchedOK'
  BY <1>2 DEF IInv, FetchedOK, PhaseOK, Published
<1>4. WalkOK'
  <2>1. Done(d)'
    BY <1>1, <1>2 DEF Done, Eventual
  <2>2. \A e \in Docs \ {d} : Done(e) => Done(e)'
    BY <1>2 DEF Done, Eventual
  <2> QED
    BY <1>2, <2>1, <2>2, ImportantDocs DEF IInv, WalkOK, Published
<1> QED
  BY <1>2, <1>3, <1>4, WalkStep

LEMMA DownloadFailsInv ==
  ASSUME IInv, NEW d \in Docs, DownloadFails(d)
  PROVE  IInv'
<1> USE DEF DownloadFails, world, store
<1>1. job \in Job
  BY DEF IInv, TypeOK
<1>2. /\ job' \in Job
      /\ job'.sync = job.sync /\ job'.started = job.started
      /\ job'.since = job.since /\ job'.retry = job.retry
      /\ job'.full = job.full /\ job'.fetched = job.fetched
      /\ job'.errors = job.errors \cup {d}
      /\ job'.pending = job.pending \ {d} /\ job'.open = job.open
  BY <1>1 DEF Job
<1>3. FetchedOK'
  BY <1>2 DEF IInv, FetchedOK, Published
<1>4. WalkOK'
  BY <1>2 DEF IInv, WalkOK, Done, Eventual, Published
<1> QED
  BY <1>2, <1>3, <1>4, WalkStep

LEMMA DiscoveredInv == IInv /\ Discovered => IInv'
<1> SUFFICES ASSUME IInv, Discovered PROVE IInv'
  OBVIOUS
<1> USE DEF Discovered, world, store
<1>1. job \in Job
  BY DEF IInv, TypeOK
<1>2. FetchedOK'
  BY DEF IInv, FetchedOK, Published
<1>3. WalkOK'
  <2> SUFFICES ASSUME NEW d \in Important, Published(d) PROVE Done(d)
    BY DEF WalkOK, Done, Eventual, Published
  <2>1. PICK c \in Reliable : d \in Listed[c]
    BY DEF Important
  <2> QED
    BY <2>1 DEF IInv, WalkOK
<1> QED
  BY <1>1, <1>2, <1>3, WalkStep

\* Committing what was downloaded makes nothing stale that is not released again.
LEMMA CommitInv == IInv /\ Commit => IInv'
<1> SUFFICES ASSUME IInv, Commit PROVE IInv'
  OBVIOUS
<1> USE DEF Commit, world, store
<1>1. /\ job \in Job /\ job.sync /\ ~job.full
      /\ mirror \in [Docs -> Version \cup {None}]
      /\ token # None => token <= job.started
      /\ remote \in [Docs -> Publication \cup {None}]
  BY DEF IInv, TypeOK, PhaseOK, TimesOK
<1>2. \A d \in Docs : mirror'[d] = Eventual(d)
  BY DEF Eventual, Fetched
<1>3. mirror' \in [Docs -> Version \cup {None}] /\ touched' \subseteq Docs
  BY <1>1 DEF Fetched, IInv, TypeOK, Job
<1>4. TypeOK'
  BY <1>3 DEF IInv, TypeOK, Steps
<1>5. TimesOK' /\ PhaseOK' /\ SelectionOK'
  BY <1>1 DEF IInv, TimesOK, PhaseOK, SelectionOK
<1>6. FetchedOK'
  BY <1>2 DEF IInv, FetchedOK, Published, Eventual
<1>7. ASSUME NEW d \in Docs, job.fetched[d] # None
      PROVE  Stale(d)' => Since0(d, token)
  <2>1. CASE job.fetched[d] = remote[d].version
    BY <1>2, <1>7, <2>1 DEF Eventual, Stale, Published
  <2>2. CASE remote[d].modified >= job.started
    <3>1. Published(d) => remote[d].modified \in Nat
      BY <1>1, RetrievalAssumption DEF Publication, Time, Published
    <3>2. job.started \in Nat /\ token \in Nat \cup {None}
      BY <1>1, RetrievalAssumption DEF IInv, TypeOK, Job, Time
    <3> QED
      BY <1>1, <2>2, <3>1, <3>2 DEF Since0, Stale, Published
  <2> QED
    BY <1>7, <2>1, <2>2 DEF IInv, FetchedOK
<1>8. ASSUME NEW d \in Docs, job.fetched[d] = None
      PROVE  Stale(d)' <=> Stale(d)
  BY <1>2, <1>8 DEF Eventual, Stale, Published
<1>9. TouchedOK'
  <2> SUFFICES ASSUME NEW d \in touched', Stale(d)' PROVE Since0(d, token)
    BY DEF TouchedOK, Since0
  <2>1. CASE d \in Fetched
    BY <1>7, <2>1 DEF Fetched
  <2>2. CASE d \in touched \ Fetched
    BY <1>8, <2>2 DEF Fetched, IInv, TypeOK, TouchedOK
  <2> QED
    BY <2>1, <2>2
<1>10. WalkOK'
  BY <1>1, <1>2, ImportantDocs DEF IInv, WalkOK, Done, Eventual, Published
<1>11. CoverageOK'
  <2> SUFFICES ASSUME NEW d \in Important, Stale(d)'
               PROVE  Since0(d, token) \/ d \in failed
    BY <1>1 DEF CoverageOK, Since0, Remembered
  <2> QED
    BY <1>1, <1>7, <1>8, ImportantDocs DEF IInv, CoverageOK, Remembered
<1> QED
  BY <1>4, <1>5, <1>6, <1>9, <1>10, <1>11 DEF IInv

-----------------------------------------------------------------------------
(* Processing *)

LEMMA RevalidateInv == IInv /\ Revalidate => IInv'
<1> SUFFICES ASSUME IInv, Revalidate PROVE IInv'
  OBVIOUS
<1> USE DEF Revalidate, world, store
<1>1. /\ job' \in Job
      /\ job'.sync = FALSE /\ job'.started = 0 /\ job'.pending = {}
      /\ job'.fetched = Nothing /\ job'.errors = failed /\ job'.full = TRUE
  BY NoJobType DEF IInv, TypeOK, NoJob, Job
<1>2. TypeOK'
  BY <1>1 DEF IInv, TypeOK, Steps
<1>3. TimesOK' /\ PhaseOK'
  <2>1. 0 <= clock
    BY RetrievalAssumption DEF IInv, TypeOK, Time
  <2> QED
    BY <1>1, <2>1 DEF IInv, TimesOK, PhaseOK
<1>4. FetchedOK' /\ TouchedOK' /\ SelectionOK' /\ WalkOK'
  BY <1>1 DEF IInv, TypeOK, FetchedOK, TouchedOK, SelectionOK, WalkOK, Nothing,
              Stale, Since0, Published
<1>5. CoverageOK'
  BY <1>1 DEF IInv, PhaseOK, CoverageOK, Remembered, Stale, Since0, Published
<1> QED
  BY <1>2, <1>3, <1>4, <1>5 DEF IInv

\* A run that has released nothing since its start knows its failures.
LEMMA DoneMeansCovered ==
  ASSUME IInv, NEW d \in Important, Stale(d), job.sync,
         pc \notin {"idle", "discover", "commit"}
  PROVE  Since0(d, token) \/ d \in job.errors
<1>1. d \in Docs /\ Published(d) /\ Done(d)
  BY ImportantDocs DEF Stale, IInv, WalkOK
<1>2. /\ remote[d].modified \in Nat /\ job.started \in Nat
      /\ token \in Nat \cup {None} /\ (token # None => token <= job.started)
  BY <1>1, RetrievalAssumption
  DEF IInv, TypeOK, TimesOK, Job, Time, Publication, Published
<1>3. Eventual(d) = mirror[d]
  BY <1>1 DEF IInv, FetchedOK, Eventual
<1> QED
  BY <1>1, <1>2, <1>3 DEF Done, Stale, Since0

LEMMA SelectInv == IInv /\ Select => IInv'
<1> SUFFICES ASSUME IInv, Select PROVE IInv'
  OBVIOUS
<1> USE DEF world, store
<1>1. PICK full \in BOOLEAN :
        /\ ~checkpoint \/ job.full => full
        /\ \E todo \in SUBSET Docs :
             /\ ~full => todo \subseteq touched \cup Fetched
             /\ job' = [job EXCEPT !.full = full, !.todo = todo]
             /\ pc' = IF todo = {} THEN "failures" ELSE "validate"
  <2>1. touched \subseteq Docs /\ Fetched \subseteq Docs
    BY DEF IInv, TypeOK, Fetched
  <2> QED
    BY <2>1 DEF Select
<1>2. PICK todo \in SUBSET Docs :
        /\ ~full => todo \subseteq touched \cup Fetched
        /\ job' = [job EXCEPT !.full = full, !.todo = todo]
        /\ pc' = IF todo = {} THEN "failures" ELSE "validate"
  BY <1>1
<1>3. /\ job \in Job /\ pc = "select"
      /\ rows' = IF ~checkpoint THEN {} ELSE rows
      /\ failed' = IF ~checkpoint THEN {} ELSE failed
      /\ checkpoint' \in BOOLEAN
      /\ UNCHANGED <<world, token, mirror, touched>>
  BY DEF Select, IInv, TypeOK
<1>4. /\ job' \in Job
      /\ job'.sync = job.sync /\ job'.started = job.started
      /\ job'.since = job.since /\ job'.retry = job.retry
      /\ job'.full = full /\ job'.errors = job.errors /\ job'.todo = todo
      /\ job'.pending = job.pending /\ job'.fetched = job.fetched
  BY <1>2, <1>3 DEF Job
<1>5. TypeOK'
  BY <1>2, <1>3, <1>4 DEF IInv, TypeOK, Steps
<1>6. TimesOK' /\ PhaseOK'
  BY <1>1, <1>2, <1>3, <1>4 DEF IInv, TimesOK, PhaseOK, Fetched
<1>7. FetchedOK' /\ TouchedOK' /\ SelectionOK' /\ WalkOK'
  BY <1>2, <1>3, <1>4
  DEF IInv, FetchedOK, TouchedOK, SelectionOK, WalkOK, Stale, Since0, Published,
      Done, Eventual
<1>8. CoverageOK'
  <2> SUFFICES ASSUME NEW d \in Important, Stale(d)
               PROVE  Since0(d, token) \/ IF full THEN d \in job.errors ELSE d \in failed'
    BY <1>2, <1>3, <1>4 DEF CoverageOK, Remembered, Stale, Since0, Published
  <2>1. CASE full /\ job.sync
    BY <1>3, <2>1, DoneMeansCovered
  <2>2. CASE ~(full /\ job.sync)
    BY <1>1, <1>3, <2>2 DEF IInv, PhaseOK, CoverageOK, Remembered
  <2> QED
    BY <2>1, <2>2
<1> QED
  BY <1>5, <1>6, <1>7, <1>8 DEF IInv

\* An incremental pass clears a failure only of an advisory that is current or
\* newer than the token.
LEMMA ValidateOneInv ==
  ASSUME IInv, NEW d \in Docs, ValidateOne(d)
  PROVE  IInv'
<1> USE DEF ValidateOne, world, store
<1>1. /\ job \in Job
      /\ job' = [job EXCEPT !.todo = job.todo \ {d}]
      /\ pc' \in {"validate", "failures"}
  BY DEF IInv, TypeOK
<1>2. /\ job' \in Job
      /\ job'.sync = job.sync /\ job'.started = job.started
      /\ job'.since = job.since /\ job'.retry = job.retry
      /\ job'.full = job.full /\ job'.errors = job.errors
      /\ job'.todo = job.todo \ {d}
      /\ job'.pending = job.pending /\ job'.fetched = job.fetched
  BY <1>1 DEF Job
<1>3. TypeOK'
  BY <1>1, <1>2 DEF IInv, TypeOK, Steps
<1>4. TimesOK' /\ PhaseOK'
  BY <1>1, <1>2 DEF IInv, TimesOK, PhaseOK, Fetched
<1>5. FetchedOK' /\ TouchedOK' /\ SelectionOK' /\ WalkOK'
  BY <1>1, <1>2
  DEF IInv, FetchedOK, TouchedOK, SelectionOK, WalkOK, Stale, Since0, Published,
      Done, Eventual
<1>6. ASSUME ~job.full, Stale(d), d \in Important
      PROVE  Since0(d, token)
  <2>1. job.sync /\ d \in touched \cup Fetched
    BY <1>6 DEF IInv, PhaseOK
  <2>2. CASE d \in touched
    BY <1>6, <2>2 DEF IInv, TouchedOK
  <2>3. CASE d \in Fetched
    <3>1. remote[d].modified >= job.started
      BY <1>6, <2>3 DEF Fetched, IInv, FetchedOK, Stale
    <3>2. /\ remote[d].modified \in Nat /\ job.started \in Nat
          /\ token \in Nat \cup {None} /\ (token # None => token <= job.started)
      BY <1>6, <2>1, RetrievalAssumption
      DEF IInv, TypeOK, TimesOK, Job, Time, Publication, Published, Stale
    <3> QED
      BY <3>1, <3>2 DEF Since0
  <2> QED
    BY <2>1, <2>2, <2>3
<1>7. CoverageOK'
  <2> SUFFICES ASSUME NEW e \in Important, Stale(e)
               PROVE  Since0(e, token) \/ IF job.full THEN e \in job.errors
                                          ELSE e \in failed \ {d}
    BY <1>1, <1>2 DEF CoverageOK, Remembered, Stale, Since0, Published
  <2>1. Since0(e, token) \/ IF job.full THEN e \in job.errors ELSE e \in failed
    BY DEF IInv, CoverageOK, Remembered
  <2> QED
    BY <1>6, <2>1
<1> QED
  BY <1>3, <1>4, <1>5, <1>7 DEF IInv

LEMMA SaveRetrievalErrorsInv == IInv /\ SaveRetrievalErrors => IInv'
<1> SUFFICES ASSUME IInv, SaveRetrievalErrors PROVE IInv'
  OBVIOUS
<1> USE DEF SaveRetrievalErrors, world, store
<1>1. TypeOK'
  BY DEF IInv, TypeOK, Job, Steps
<1>2. TimesOK' /\ PhaseOK'
  BY DEF IInv, TimesOK, PhaseOK, Fetched
<1>3. FetchedOK' /\ TouchedOK' /\ SelectionOK' /\ WalkOK'
  BY DEF IInv, FetchedOK, TouchedOK, SelectionOK, WalkOK, Stale, Since0, Published,
         Done, Eventual
<1>4. CoverageOK'
  BY DEF IInv, CoverageOK, Remembered, Stale, Since0, Published
<1> QED
  BY <1>1, <1>2, <1>3, <1>4 DEF IInv

\* What a job leaves behind when it ends without having moved the token.
LEMMA JobEnds ==
  ASSUME IInv, pc' = "idle", job' = NoJob,
         UNCHANGED <<world, mirror, rows, failed>>, checkpoint' \in BOOLEAN,
         token' \in Time \cup {None}, token' # None => token' <= clock,
         touched' \subseteq Docs, TouchedOK', CoverageOK'
  PROVE  IInv'
<1> USE DEF world
<1>1. TypeOK'
  BY NoJobType DEF IInv, TypeOK, Steps
<1>2. TimesOK' /\ PhaseOK'
  <2>1. 0 <= clock
    BY RetrievalAssumption DEF IInv, TypeOK, Time
  <2> QED
    BY <2>1 DEF TimesOK, PhaseOK, NoJob
<1>3. FetchedOK' /\ SelectionOK' /\ WalkOK'
  BY DEF FetchedOK, SelectionOK, WalkOK, NoJob, Nothing
<1> QED
  BY <1>1, <1>2, <1>3 DEF IInv

LEMMA PublishInv == IInv /\ Publish => IInv'
<1> SUFFICES ASSUME IInv, Publish PROVE IInv'
  OBVIOUS
<1> USE DEF Publish, world
<1>1. TouchedOK'
  BY DEF TouchedOK
<1>2. CASE job.sync
  <2>1. pc' = "token" /\ UNCHANGED job
    BY <1>2
  <2>2. TypeOK' /\ TimesOK' /\ PhaseOK'
    BY <1>2, <2>1 DEF IInv, TypeOK, TimesOK, PhaseOK, Steps
  <2>3. FetchedOK' /\ SelectionOK' /\ WalkOK' /\ CoverageOK'
    BY <2>1 DEF IInv, FetchedOK, SelectionOK, WalkOK, CoverageOK, Remembered, Stale,
                Since0, Published, Done, Eventual
  <2> QED
    BY <1>1, <2>2, <2>3 DEF IInv
<1>3. CASE ~job.sync
  <2>1. CoverageOK'
    BY <1>3 DEF IInv, CoverageOK, Remembered, Stale, Since0, Published, NoJob
  <2> QED
    BY <1>1, <1>3, <2>1, JobEnds DEF IInv, TypeOK, TimesOK
<1> QED
  BY <1>2, <1>3

\* The new token is the start of the run.
LEMMA AdvanceTokenInv == IInv /\ AdvanceToken => IInv'
<1> SUFFICES ASSUME IInv, AdvanceToken PROVE IInv'
  OBVIOUS
<1> USE DEF AdvanceToken, world, store
<1>1. job.sync /\ touched = {} /\ job.errors \subseteq failed
  BY DEF IInv, PhaseOK
<1>2. job.started \in Time /\ job.started <= clock
  BY DEF IInv, TypeOK, TimesOK, Job
<1>3. TouchedOK'
  BY <1>1 DEF TouchedOK
<1>4. CoverageOK'
  <2> SUFFICES ASSUME NEW d \in Important, Stale(d)
               PROVE  Since0(d, job.started) \/ d \in failed
    BY DEF CoverageOK, Remembered, Stale, Since0, Published
  <2>1. d \in Docs /\ Published(d) /\ Done(d)
    BY <1>1, ImportantDocs DEF Stale, IInv, WalkOK
  <2>2. Eventual(d) = mirror[d]
    BY <2>1 DEF IInv, FetchedOK, Eventual
  <2> QED
    BY <1>1, <2>1, <2>2 DEF Done, Stale, Since0
<1> QED
  BY <1>1, <1>2, <1>3, <1>4, JobEnds DEF IInv, TypeOK

LEMMA InterruptInv ==
  ASSUME ~FullInterrupted, IInv, Interrupt
  PROVE  IInv'
<1> USE DEF Interrupt, world, store
<1>1. ~job.full
  OBVIOUS
<1>2. TouchedOK'
  BY DEF IInv, TouchedOK, Stale, Since0, Published
<1>3. CoverageOK'
  BY <1>1 DEF IInv, CoverageOK, Remembered, Stale, Since0, Published
<1> QED
  BY <1>2, <1>3, JobEnds DEF IInv, TypeOK, TimesOK

-----------------------------------------------------------------------------
(* The theorems *)

LEMMA InvStep ==
  ASSUME ~FullInterrupted
  PROVE  IInv /\ [Next]_vars => IInv'
<1> SUFFICES ASSUME IInv, [Next]_vars PROVE IInv'
  OBVIOUS
<1>1. CASE UNCHANGED vars
  BY <1>1 DEF vars, world, store, IInv, TypeOK, TimesOK, PhaseOK, FetchedOK, TouchedOK,
              SelectionOK, WalkOK, CoverageOK, Remembered, Stale, Since0,
              Published, Done, Eventual, Fetched
<1>2. CASE Tick \/ TriggerFull \/ StartSync \/ Revalidate
  BY <1>2, TickInv, TriggerFullInv, StartSyncInv, RevalidateInv
<1>3. ASSUME NEW d \in Docs, Release(d) PROVE IInv'
  BY <1>3, ReleaseInv
<1>4. CASE Work
  BY <1>4, LoadIndexInv, DownloadInv, DiscoveredInv, CommitInv, SelectInv,
     ValidateOneInv, SaveRetrievalErrorsInv, PublishInv, AdvanceTokenInv DEF Work
<1>5. CASE Trouble
  BY <1>5, SkipDistributionInv, DownloadFailsInv, InterruptInv DEF Trouble
<1> QED
  BY <1>1, <1>2, <1>3, <1>4, <1>5 DEF Next

\* Token, recorded failures and what a run has in hand never forget an advisory
\* of a distribution that cannot be skipped.
THEOREM Invariance ==
  ASSUME ~FullInterrupted
  PROVE  Spec => []IInv
BY InvInit, InvStep, PTL DEF Spec

\* Between jobs every advisory of a reliable distribution is mirrored in its
\* current version, or due in the next sync.
LEMMA ReliableCovered ==
  ASSUME IInv, pc = "idle", NEW c \in Reliable
  PROVE  CoveredIn(c)
<1> SUFFICES ASSUME NEW d \in Listed[c], Published(d), ~Mirrored(d)
             PROVE  Due(d)
  BY DEF CoveredIn
<1>1. d \in Important /\ Stale(d)
  BY ImportantDocs DEF Stale, Mirrored
<1>2. Since0(d, token) \/ d \in failed
  BY <1>1 DEF IInv, PhaseOK, CoverageOK, Remembered
<1> QED
  BY <1>2 DEF Due, Since, Since0

\* No advisory of a TLP:CLEAR feed is ever forgotten, whatever changes, fails or is
\* interrupted outside full passes.
THEOREM ClearCovered ==
  ASSUME ~FullInterrupted
  PROVE  Spec => []ClearNeverMissed
<1>1. IInv => ClearNeverMissed
  BY ReliableCovered, RetrievalAssumption DEF ClearNeverMissed, Reliable
<1> QED
  BY <1>1, Invariance, PTL

\* If no index is ever skipped, no advisory at all is forgotten.
THEOREM AllCovered ==
  ASSUME ~FullInterrupted, ~Skips
  PROVE  Spec => []NothingMissed
<1>1. IInv => NothingMissed
  BY ReliableCovered DEF NothingMissed, Reliable
<1> QED
  BY <1>1, Invariance, PTL

-----------------------------------------------------------------------------
(* Type correctness, which needs no assumption about full passes *)

\* What waits for its download is published: it has a version to download.
PendingPublished == \A d \in job.pending : Published(d)

LEMMA TypeInit == Init => TypeOK /\ PendingPublished
<1> SUFFICES ASSUME Init PROVE TypeOK /\ PendingPublished
  OBVIOUS
<1>1. 0 \in Time
  BY RetrievalAssumption DEF Time
<1>2. Nothing \in [Docs -> Publication \cup {None}] /\ Nothing \in [Docs -> Version \cup {None}]
  BY DEF Nothing
<1>3. NoJob \in Job
  BY <1>1, <1>2 DEF NoJob, Job
<1> QED
  BY <1>1, <1>2, <1>3 DEF Init, TypeOK, PendingPublished, Steps, NoJob

LEMMA TypeStep == TypeOK /\ PendingPublished /\ [Next]_vars => (TypeOK /\ PendingPublished)'
<1> SUFFICES ASSUME TypeOK, PendingPublished, [Next]_vars
             PROVE  (TypeOK /\ PendingPublished)'
  OBVIOUS
<1>1. NoJob \in Job /\ NoJob.pending = {}
  BY RetrievalAssumption DEF NoJob, Job, Nothing, Time
<1>2. CASE Tick
  BY <1>2, RetrievalAssumption DEF Tick, TypeOK, PendingPublished, Published, Time, store
<1>3. ASSUME NEW d \in Docs, Release(d) PROVE (TypeOK /\ PendingPublished)'
  <2> DEFINE version == IF Published(d) THEN remote[d].version + 1 ELSE 1
             new     == [version |-> version, modified |-> clock]
  <2>1. version \in Version
    BY <1>3, RetrievalAssumption DEF Release, TypeOK, Published, Version, Publication
  <2>2. new \in Publication
    BY <2>1 DEF TypeOK, Publication
  <2>3. remote' = [remote EXCEPT ![d] = new]
    BY <1>3 DEF Release
  <2> HIDE DEF new
  <2>4. remote' \in [Docs -> Publication \cup {None}]
    BY <2>2, <2>3 DEF TypeOK
  <2>5. \A c \in Docs : Published(c) => Published(c)'
    BY <2>2, <2>3, NoneAssumption DEF TypeOK, Published
  <2>6. UNCHANGED <<clock, token, mirror, checkpoint, touched, rows, failed, pc, job>>
    BY <1>3 DEF Release, store
  <2>7. job.pending \subseteq Docs
    BY DEF TypeOK, Job
  <2> QED
    BY <2>4, <2>5, <2>6, <2>7 DEF TypeOK, PendingPublished
<1>4. CASE TriggerFull \/ Discovered
  BY <1>4 DEF TriggerFull, Discovered, TypeOK, PendingPublished, Published, Steps, world, store
<1>5. CASE StartSync
  <2>1. Since \in Time \cup {None} /\ Retry \in SUBSET Docs
    BY DEF Since, Retry, TypeOK
  <2>2. job' \in Job /\ job'.pending = {}
    BY <1>1, <1>5, <2>1 DEF StartSync, Job, TypeOK
  <2> QED
    BY <1>5, <2>2 DEF StartSync, TypeOK, PendingPublished, Steps, world, store
<1>6. CASE Revalidate
  <2>1. job' \in Job /\ job'.pending = {}
    BY <1>1, <1>6 DEF Revalidate, Job, TypeOK
  <2> QED
    BY <1>6, <2>1 DEF Revalidate, TypeOK, PendingPublished, Steps, world, store
<1>7. ASSUME NEW distribution \in Distributions, LoadIndex(distribution)
      PROVE  (TypeOK /\ PendingPublished)'
  <2> DEFINE pending == {d \in Listed[distribution] : Published(d) /\ IsSelected(d)}
  <2>1. pending \subseteq Docs
    BY RetrievalAssumption
  <2>2. job' = [job EXCEPT !.open = @ \ {distribution}, !.pending = pending]
    BY <1>7 DEF LoadIndex
  <2>3. \A d \in pending : Published(d)
    OBVIOUS
  <2> HIDE DEF pending
  <2>4. job' \in Job /\ job'.pending = pending
    BY <2>1, <2>2 DEF TypeOK, Job
  <2> QED
    BY <1>7, <2>3, <2>4 DEF LoadIndex, TypeOK, PendingPublished, Published, world, store
<1>8. ASSUME NEW d \in Docs, Download(d) PROVE (TypeOK /\ PendingPublished)'
  <2>1. remote[d].version \in Version
    BY <1>8 DEF Download, PendingPublished, Published, TypeOK, Publication
  <2>2. job' \in Job /\ job'.pending = job.pending \ {d}
    BY <1>8, <2>1 DEF Download, TypeOK, Job
  <2> QED
    BY <1>8, <2>2 DEF Download, TypeOK, PendingPublished, Published, world, store
<1>9. CASE Commit
  BY <1>9 DEF Commit, Fetched, TypeOK, Job, PendingPublished, Published, Steps, world, store
<1>10. CASE Select
  <2>1. PICK full \in BOOLEAN, todo \in SUBSET Docs :
          /\ job' = [job EXCEPT !.full = full, !.todo = todo]
          /\ pc' \in {"failures", "validate"}
    <3>1. {d \in Docs : mirror[d] # None} \in SUBSET Docs
          /\ touched \cup (Fetched \cap failed) \in SUBSET Docs
      BY DEF Fetched, TypeOK
    <3> QED
      BY <1>10, <3>1 DEF Select
  <2>2. job' \in Job /\ job'.pending = job.pending
    BY <2>1 DEF TypeOK, Job
  <2> QED
    BY <1>10, <2>1, <2>2 DEF Select, TypeOK, PendingPublished, Published, Steps, world
<1>11. ASSUME NEW d \in Docs, ValidateOne(d) PROVE (TypeOK /\ PendingPublished)'
  <2>1. job' \in Job /\ job'.pending = job.pending
    BY <1>11 DEF ValidateOne, TypeOK, Job
  <2> QED
    BY <1>11, <2>1 DEF ValidateOne, TypeOK, PendingPublished, Published, Steps, world
<1>12. CASE SaveRetrievalErrors
  BY <1>12 DEF SaveRetrievalErrors, TypeOK, Job, PendingPublished, Published, Steps, world
<1>13. CASE Publish
  BY <1>1, <1>13 DEF Publish, TypeOK, PendingPublished, Published, Steps, world
<1>14. CASE AdvanceToken
  BY <1>1, <1>14 DEF AdvanceToken, TypeOK, Job, PendingPublished, Steps, world, store
<1>15. ASSUME NEW distribution \in Distributions, SkipDistribution(distribution)
       PROVE  (TypeOK /\ PendingPublished)'
  <2>1. job' \in Job /\ job'.pending = job.pending
    BY <1>15 DEF SkipDistribution, TypeOK, Job
  <2> QED
    BY <1>15, <2>1 DEF SkipDistribution, TypeOK, PendingPublished, Published, world, store
<1>16. ASSUME NEW d \in Docs, DownloadFails(d) PROVE (TypeOK /\ PendingPublished)'
  <2>1. job' \in Job /\ job'.pending = job.pending \ {d}
    BY <1>16 DEF DownloadFails, TypeOK, Job
  <2> QED
    BY <1>16, <2>1 DEF DownloadFails, TypeOK, PendingPublished, Published, world, store
<1>17. CASE Interrupt
  BY <1>1, <1>17 DEF Interrupt, TypeOK, PendingPublished, Steps, world, store
<1>18. CASE UNCHANGED vars
  BY <1>18 DEF vars, TypeOK, PendingPublished, Published
<1> QED
  BY <1>2, <1>3, <1>4, <1>5, <1>6, <1>7, <1>8, <1>9, <1>10, <1>11, <1>12, <1>13, <1>14,
     <1>15, <1>16, <1>17, <1>18 DEF Next, Work, Trouble

\* The types of all variables, whatever is interrupted: what is downloaded is
\* published, and a recorded failure has a row (save_retrieval_errors).
THEOREM TypeCorrect == Spec => []TypeOK
BY TypeInit, TypeStep, PTL DEF Spec

=============================================================================
