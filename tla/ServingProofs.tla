---------------------------- MODULE ServingProofs ----------------------------
(***************************************************************************)
(* Proofs about the three views the server keeps of its jobs: the index of *)
(* summaries and the cached searches, the overview, and the progress of a  *)
(* job with the pages that follow it; last, about the three together.      *)
(***************************************************************************)
EXTENDS MCServing, SequenceTheorems, TLAPS

-----------------------------------------------------------------------------
(* SummaryCaches: the index says what the files say, and cached searches   *)
(* are fresh.  Between the two halves of a change (file, then index) the   *)
(* index is behind, and so is whoever read the file before: the invariant  *)
(* says that nothing else makes them differ.  A result is as old as the    *)
(* last change the hook has not handled.                                   *)

\* The file was changed and the index was not yet.
Pending(d) == job[d] \in {"index", "reindex"} \/ deletion[d] = "index"

\* A job or a deletion finds the file as it left it.
FileInv(d) ==
  d \notin beside =>
    /\ job[d] \in {"writing", "rewriting"} => files[d] = Torn
    /\ job[d] \in {"index", "reindex"} => files[d] = rows[d]
    /\ deletion[d] = "index" => files[d] = None
    /\ deletion[d] # "idle" => job[d] = "idle"

IndexInv(d) ==
  index # None /\ d \notin beside => files[d] \in {Torn, index[d]} \/ Pending(d)

\* What the holder of the lock has read.
ReadInv(d) ==
  writer # None =>
    /\ writer.by = "load" /\ d \in DOMAIN writer.got =>
         files[d] \in {Torn, writer.got[d]} \/ Pending(d)
    /\ writer.by = "reload" /\ writer.of = d =>
         files[d] \in {Torn, writer.got} \/ Pending(d)

Agrees(d) == FileInv(d) /\ IndexInv(d) /\ ReadInv(d)

CachesInv == CachesTypeOK /\ \A d \in Domains : Agrees(d)

-----------------------------------------------------------------------------

\* The initial files may be there or not: nothing is in memory yet.
LEMMA CachesInitially == CachesInit => CachesInv
<1> SUFFICES ASSUME CachesInit PROVE CachesInv
  OBVIOUS
<1>1. HooksTypeOK
  BY DEF CachesInit, HooksInit, HooksTypeOK, Steps
<1>2. CachesTypeOK
  BY <1>1 DEF CachesInit, CachesTypeOK, JobSteps, Summary
<1>3. ASSUME NEW d \in Domains PROVE Agrees(d)
  BY DEF CachesInit, Agrees, FileInv, IndexInv, ReadInv
<1> QED
  BY <1>2, <1>3 DEF CachesInv

\* What is not touched keeps agreeing.
LEMMA Elsewhere ==
  ASSUME NEW e \in Domains, Agrees(e),
         rows'[e] = rows[e], files'[e] = files[e],
         job'[e] = job[e], deletion'[e] = deletion[e], e \in beside' <=> e \in beside,
         UNCHANGED writer,
         \/ UNCHANGED index
         \/ index # None /\ index'[e] = index[e]
  PROVE  Agrees(e)'
  BY DEF Agrees, FileInv, IndexInv, ReadInv, Pending

\* A step of one provider's job or deletion.
LEMMA ProviderStep ==
  ASSUME CachesInv, CachesTypeOK', NEW d \in Domains, Agrees(d)', UNCHANGED writer,
         \A e \in Domains \ {d} :
           /\ rows'[e] = rows[e] /\ files'[e] = files[e]
           /\ job'[e] = job[e] /\ deletion'[e] = deletion[e] /\ (e \in beside' <=> e \in beside),
         \/ UNCHANGED index
         \/ /\ index # None
            /\ \A e \in Domains \ {d} : index'[e] = index[e]
  PROVE  CachesInv'
<1>1. ASSUME NEW e \in Domains, e # d PROVE Agrees(e)'
  <2>1. Agrees(e)
    BY DEF CachesInv
  <2> QED
    BY <1>1, <2>1, Elsewhere
<1> QED
  BY <1>1 DEF CachesInv

\* A step that leaves the files, the jobs and the index alone.
LEMMA SilentStep ==
  ASSUME CachesInv, CachesTypeOK', UNCHANGED <<store, work, index, writer>>
  PROVE  CachesInv'
<1>1. ASSUME NEW e \in Domains PROVE Agrees(e)'
  <2>1. Agrees(e)
    BY DEF CachesInv
  <2> QED
    BY <2>1, Elsewhere DEF store, work
<1> QED
  BY <1>1 DEF CachesInv

-----------------------------------------------------------------------------
(* Types *)

StoreOK == /\ rows \in [Domains -> Nat] /\ finished \in [Domains -> Nat]
           /\ files \in [Domains -> Summary \cup {Torn}]

WorkOK == /\ job \in [Domains -> JobSteps]
          /\ deletion \in [Domains -> {"idle", "files", "index", "search"}]
          /\ moves \in Nat
          /\ beside \subseteq Domains

IndexOK == index \in [Domains -> Summary] \cup {None}

WriterOK == \/ writer \in {None} \cup [by : {"reload"}, of : Domains, got : Summary]
            \/ \E D \in SUBSET Domains : writer \in [by : {"load"}, got : [D -> Summary]]

Result == [hits : [Domains -> Summary], misled : SUBSET Domains, straddled : BOOLEAN]
Query  == [todo : SUBSET Domains, hits : [Domains -> Summary],
           misled : SUBSET Domains, straddled : BOOLEAN]

ResultOK == search \in Result \cup {None} /\ query \in Query \cup {None}

LEMMA TypeParts ==
  CachesTypeOK <=> HooksTypeOK /\ StoreOK /\ WorkOK /\ IndexOK /\ WriterOK /\ ResultOK
  BY DEF CachesTypeOK, StoreOK, WorkOK, IndexOK, WriterOK, ResultOK, Result, Query

\* What the receiver of the hook does keeps its types.
LEMMA CachesReceiveType ==
  ASSUME HooksTypeOK, Receive
  PROVE  HooksTypeOK'
<1> USE HooksAssumption DEF HooksTypeOK, Steps
<1>1. CASE Lag
  BY <1>1 DEF Lag, Lagging, Oldest
<1>2. CASE First
  BY <1>2 DEF First, Take, Empty
<1>3. CASE More
  BY <1>3 DEF More, Take, Empty
<1>4. CASE NoMore
  BY <1>4 DEF NoMore, Lagging, Oldest
<1> QED
  BY <1>1, <1>2, <1>3, <1>4 DEF Receive

LEMMA InvalidateType ==
  ASSUME ResultOK, InvalidateAll
  PROVE  ResultOK'
<1>1. CASE query = None
  BY <1>1 DEF ResultOK, InvalidateAll
<1>2. CASE query # None
  <2>1. query \in Query /\ query' = [query EXCEPT !.straddled = TRUE]
    BY <1>2 DEF ResultOK, InvalidateAll
  <2>2. query' \in Query
    BY <2>1 DEF Query
  <2> QED
    BY <2>2 DEF ResultOK, InvalidateAll
<1> QED
  BY <1>1, <1>2

LEMMA PutType ==
  ASSUME IndexOK, NEW d \in Domains, NEW v \in Summary, Put(d, v)
  PROVE  IndexOK'
  BY DEF IndexOK, Put, Becomes

LEMMA JobType ==
  ASSUME HooksTypeOK, StoreOK, WorkOK, IndexOK, NEW d \in Domains, JobStep(d)
  PROVE  HooksTypeOK' /\ StoreOK' /\ WorkOK' /\ IndexOK'
<1> USE DEF StoreOK, WorkOK, JobSteps, Go, Becomes, channel, store, caches
<1>0. rows[d] \in Nat /\ rows[d] + 1 \in Nat /\ rows[d] \in Summary
  BY DEF Summary
<1>1. CASE StartJob(d)
  <2>1. HooksTypeOK' /\ StoreOK' /\ IndexOK'
    BY <1>1 DEF StartJob, HooksTypeOK, IndexOK
  <2>2. job' \in [Domains -> JobSteps] /\ beside' \subseteq Domains
    BY <1>1 DEF StartJob
  <2> QED
    BY <1>1, <2>1, <2>2 DEF StartJob
<1>2. CASE Work(d)
  <2>1. HooksTypeOK' /\ IndexOK'
    BY <1>2 DEF Work, HooksTypeOK, IndexOK
  <2>2. rows' \in [Domains -> Nat] /\ job' \in [Domains -> JobSteps]
    BY <1>0, <1>2 DEF Work
  <2> QED
    BY <1>2, <2>1, <2>2 DEF Work
<1>3. CASE WorkFails(d)
  BY <1>3 DEF WorkFails, HooksTypeOK, IndexOK
<1>4. ASSUME NEW from \in JobSteps, NEW to \in JobSteps,
             Truncate(d, from, to) \/ Write(d, from, to) \/ Update(d, from, to)
      PROVE  HooksTypeOK' /\ StoreOK' /\ WorkOK' /\ IndexOK'
  <2>1. CASE Truncate(d, from, to)
    BY <2>1 DEF Truncate, HooksTypeOK, IndexOK
  <2>2. CASE Write(d, from, to)
    BY <1>0, <2>2 DEF Write, HooksTypeOK, IndexOK
  <2>3. CASE Update(d, from, to)
    BY <1>0, <2>3, PutType DEF Update, HooksTypeOK
  <2> QED
    BY <1>4, <2>1, <2>2, <2>3
<1>5. CASE SaveSummary(d) \/ RefreshSummary(d)
  BY <1>4, <1>5 DEF SaveSummary, RefreshSummary
<1>6. CASE EndJob(d)
  <2>1. HooksTypeOK'
    BY <1>6 DEF EndJob, Send, HooksTypeOK
  <2> QED
    BY <1>6, <2>1 DEF EndJob, IndexOK
<1>7. CASE BeginRefresh(d)
  BY <1>7 DEF BeginRefresh, Move, HooksTypeOK, IndexOK
<1> QED
  BY <1>1, <1>2, <1>3, <1>5, <1>6, <1>7 DEF JobStep

LEMMA DeleteType ==
  ASSUME HooksTypeOK, StoreOK, WorkOK, IndexOK, ResultOK, NEW d \in Domains, DeleteStep(d)
  PROVE  HooksTypeOK' /\ StoreOK' /\ WorkOK' /\ IndexOK' /\ ResultOK'
<1> USE DEF StoreOK, WorkOK, Becomes, channel, store, caches, readers
<1>0. None \in Summary
  BY DEF Summary
<1>1. CASE BeginDelete(d)
  BY <1>1 DEF BeginDelete, Move, HooksTypeOK, IndexOK, ResultOK
<1>2. CASE RemoveFiles(d)
  BY <1>0, <1>2 DEF RemoveFiles, HooksTypeOK, IndexOK, ResultOK
<1>3. CASE RemoveSummary(d)
  BY <1>0, <1>3, PutType DEF RemoveSummary, HooksTypeOK, ResultOK
<1>4. CASE EndDelete(d)
  BY <1>4, InvalidateType DEF EndDelete, HooksTypeOK, IndexOK
<1> QED
  BY <1>1, <1>2, <1>3, <1>4 DEF DeleteStep

LEMMA LoadType ==
  ASSUME StoreOK, IndexOK, WriterOK, Load
  PROVE  IndexOK' /\ WriterOK'
<1>1. CASE BeginLoad
  <2>1. writer' \in [by : {"load"}, got : [{} -> Summary]]
    BY <1>1 DEF BeginLoad
  <2> QED
    BY <1>1, <2>1 DEF BeginLoad, IndexOK, WriterOK
<1>2. ASSUME NEW d \in Domains, LoadFile(d) PROVE IndexOK' /\ WriterOK'
  <2>1. PICK D \in SUBSET Domains : writer \in [by : {"load"}, got : [D -> Summary]]
    BY <1>2 DEF LoadFile, WriterOK
  <2> DEFINE got == [e \in DOMAIN writer.got \cup {d} |->
                       IF e # d THEN writer.got[e]
                       ELSE IF files[d] = Torn THEN None ELSE files[d]]
  <2>2. got \in [D \cup {d} -> Summary]
    BY <2>1 DEF StoreOK, Summary
  <2>3. writer' \in [by : {"load"}, got : [D \cup {d} -> Summary]]
    BY <1>2, <2>1, <2>2 DEF LoadFile
  <2> QED
    BY <1>2, <2>1, <2>3 DEF LoadFile, IndexOK, WriterOK
<1>3. CASE EndLoad \/ LoadFails
  BY <1>3 DEF EndLoad, LoadFails, IndexOK, WriterOK
<1> QED
  BY <1>1, <1>2, <1>3 DEF Load

LEMMA HandleType ==
  ASSUME HooksTypeOK, StoreOK, WorkOK, IndexOK, WriterOK, ResultOK, Handle
  PROVE  HooksTypeOK' /\ StoreOK' /\ WorkOK' /\ IndexOK' /\ WriterOK' /\ ResultOK'
<1> USE DEF StoreOK, WorkOK, HooksTypeOK, Steps, store, work, caches, readers
<1>1. CASE Invalidated
  <2>1. HooksTypeOK' /\ IndexOK' /\ WriterOK'
    BY <1>1 DEF Invalidated, IndexOK, WriterOK
  <2> QED
    BY <1>1, <2>1, InvalidateType DEF Invalidated
<1>2. ASSUME NEW d \in Domains, Reload(d)
      PROVE  HooksTypeOK' /\ StoreOK' /\ WorkOK' /\ IndexOK' /\ WriterOK' /\ ResultOK'
  <2>1. HooksTypeOK'
    BY <1>2 DEF Reload, Handled
  <2>2. StoreOK' /\ WorkOK' /\ IndexOK' /\ ResultOK'
    BY <1>2 DEF Reload, IndexOK, ResultOK
  <2>3. WriterOK'
    <3>1. CASE UNCHANGED writer
      BY <3>1 DEF WriterOK
    <3>2. CASE ~UNCHANGED writer
      BY <1>2, <3>2 DEF Reload, WriterOK
    <3> QED
      BY <3>1, <3>2
  <2> QED
    BY <2>1, <2>2, <2>3
<1>3. CASE Reloaded
  <2>1. writer \in [by : {"reload"}, of : Domains, got : Summary]
    BY <1>3 DEF Reloaded, WriterOK
  <2>2. IndexOK'
    BY <1>3, <2>1, PutType DEF Reloaded
  <2>3. HooksTypeOK' /\ StoreOK' /\ WriterOK' /\ ResultOK'
    BY <1>3 DEF Reloaded, WriterOK, ResultOK
  <2>4. WorkOK'
    BY <1>3 DEF Reloaded
  <2> QED
    BY <2>2, <2>3, <2>4
<1>4. CASE BatchDone
  BY <1>4 DEF BatchDone, Handled, IndexOK, WriterOK, ResultOK
<1> QED
  BY <1>1, <1>2, <1>3, <1>4 DEF Handle

LEMMA SearchType ==
  ASSUME StoreOK, ResultOK, Search
  PROVE  ResultOK'
<1>0. None \in Summary /\ \A d \in Domains : rows[d] \in Summary
  BY DEF StoreOK, Summary
<1>1. CASE BeginSearch
  <2>1. query' \in Query
    BY <1>0, <1>1 DEF BeginSearch, Query
  <2> QED
    BY <1>1, <2>1 DEF BeginSearch, ResultOK
<1>2. ASSUME NEW d \in Domains, SearchProvider(d) PROVE ResultOK'
  <2>1. query \in Query /\ query' = [query EXCEPT !.todo = @ \ {d}, !.hits[d] = rows[d]]
    BY <1>2 DEF SearchProvider, ResultOK
  <2>2. [query.hits EXCEPT ![d] = rows[d]] \in [Domains -> Summary]
    BY <1>0, <2>1 DEF Query
  <2>3. query' \in Query
    BY <2>1, <2>2 DEF Query
  <2> QED
    BY <1>2, <2>3 DEF SearchProvider, ResultOK
<1>3. CASE EndSearch
  BY <1>3 DEF EndSearch, ResultOK, Result, Query
<1>4. CASE SearchFails \/ Expire
  BY <1>4 DEF SearchFails, Expire, ResultOK
<1> QED
  BY <1>1, <1>2, <1>3, <1>4 DEF Search

LEMMA CachesNextType ==
  ASSUME CachesTypeOK, [CachesNext]_vars
  PROVE  CachesTypeOK'
<1> DEFINE AllOK == HooksTypeOK /\ StoreOK /\ WorkOK /\ IndexOK /\ WriterOK /\ ResultOK
<1>p. CachesTypeOK' <=> AllOK'
  BY TypeParts DEF CachesTypeOK, StoreOK, WorkOK, IndexOK, WriterOK, ResultOK, Result, Query
<1> SUFFICES AllOK'
  BY <1>p
<1>0. AllOK
  BY TypeParts
<1>a. UNCHANGED channel => HooksTypeOK'
  BY <1>0 DEF channel, HooksTypeOK
<1>b. UNCHANGED store => StoreOK'
  BY <1>0 DEF store, StoreOK
<1>c. UNCHANGED work => WorkOK'
  BY <1>0 DEF work, WorkOK
<1>d. UNCHANGED index => IndexOK'
  BY <1>0 DEF IndexOK
<1>e. UNCHANGED writer => WriterOK'
  BY <1>0 DEF WriterOK
<1>f. UNCHANGED readers => ResultOK'
  BY <1>0 DEF readers, ResultOK
<1>1. ASSUME NEW d \in Domains, JobStep(d) PROVE AllOK'
  <2>1. UNCHANGED <<writer, readers>>
    BY <1>1 DEF JobStep, StartJob, Work, WorkFails, SaveSummary, EndJob, BeginRefresh,
                RefreshSummary, Truncate, Write, Update, caches, readers
  <2> QED
    BY <1>0, <1>1, <1>e, <1>f, <2>1, JobType
<1>2. ASSUME NEW d \in Domains, DeleteStep(d) PROVE AllOK'
  <2>1. UNCHANGED writer
    BY <1>2 DEF DeleteStep, BeginDelete, RemoveFiles, RemoveSummary, EndDelete, caches
  <2> QED
    BY <1>0, <1>2, <1>e, <2>1, DeleteType
<1>3. CASE Load
  <2>1. UNCHANGED <<channel, store, work, readers>>
    BY <1>3 DEF Load, BeginLoad, LoadFile, EndLoad, LoadFails
  <2> QED
    BY <1>0, <1>3, <1>a, <1>b, <1>c, <1>f, <2>1, LoadType
<1>4. CASE Received
  <2>1. UNCHANGED <<store, work, index, writer, readers>> /\ Receive
    BY <1>4 DEF Received, caches, readers
  <2> QED
    BY <1>0, <1>b, <1>c, <1>d, <1>e, <1>f, <2>1, CachesReceiveType
<1>5. CASE Handle
  BY <1>0, <1>5, HandleType
<1>6. CASE Search
  <2>1. UNCHANGED <<channel, store, work, index, writer>>
    BY <1>6 DEF Search, BeginSearch, SearchProvider, EndSearch, SearchFails, Expire
  <2> QED
    BY <1>0, <1>6, <1>a, <1>b, <1>c, <1>d, <1>e, <2>1, SearchType
<1>7. CASE UNCHANGED vars
  <2>1. UNCHANGED <<channel, store, work, index, writer, readers>>
    BY <1>7 DEF vars, caches, readers
  <2> QED
    BY <1>a, <1>b, <1>c, <1>d, <1>e, <1>f, <2>1
<1> QED
  BY <1>1, <1>2, <1>3, <1>4, <1>5, <1>6, <1>7 DEF CachesNext

-----------------------------------------------------------------------------
(* The invariant *)

LEMMA JobInv ==
  ASSUME CachesInv, CachesTypeOK', NEW d \in Domains, JobStep(d)
  PROVE  CachesInv'
<1> USE DEF Go, Becomes
<1>0. /\ rows \in [Domains -> Nat] /\ files \in [Domains -> Summary \cup {Torn}]
      /\ job \in [Domains -> JobSteps] /\ index \in [Domains -> Summary] \cup {None}
      /\ Agrees(d)
  BY DEF CachesInv, CachesTypeOK
<1>1. CASE StartJob(d)
  <2>1. /\ job[d] = "idle" /\ job'[d] = "work"
        /\ (deletion[d] # "idle" => d \in beside')
        /\ (d \in beside => d \in beside')
        /\ UNCHANGED <<store, deletion, index, writer>>
    BY <1>0, <1>1 DEF StartJob, caches
  <2>2. Agrees(d)'
    BY <1>0, <2>1 DEF Agrees, FileInv, IndexInv, ReadInv, Pending, store
  <2> QED
    BY <1>0, <1>1, <2>1, <2>2, ProviderStep DEF StartJob, store
<1>2. CASE Work(d) \/ WorkFails(d)
  <2>1. /\ job[d] \in {"work", "summary", "writing", "refresh", "rewriting"}
        /\ job'[d] \in {"summary", "ending", "idle"}
        /\ UNCHANGED <<files, deletion, beside, index, writer>>
    BY <1>0, <1>2 DEF Work, WorkFails, caches, store
  <2>2. Agrees(d)'
    BY <1>0, <2>1 DEF Agrees, FileInv, IndexInv, ReadInv, Pending
  <2> QED
    BY <1>0, <1>2, <2>1, <2>2, ProviderStep DEF Work, WorkFails, store
<1>3. ASSUME NEW from \in {"summary", "refresh"}, NEW to \in {"writing", "rewriting"},
             Truncate(d, from, to)
      PROVE  CachesInv'
  <2>1. /\ job[d] \in {"summary", "refresh"} /\ job'[d] \in {"writing", "rewriting"}
        /\ files'[d] = Torn
        /\ UNCHANGED <<rows, deletion, beside, index, writer>>
    BY <1>0, <1>3 DEF Truncate, caches
  <2>2. Agrees(d)'
    BY <1>0, <2>1 DEF Agrees, FileInv, IndexInv, ReadInv, Pending
  <2> QED
    BY <1>0, <1>3, <2>1, <2>2, ProviderStep DEF Truncate
<1>4. ASSUME NEW from \in {"writing", "rewriting"}, NEW to \in {"index", "reindex"},
             Write(d, from, to)
      PROVE  CachesInv'
  <2>1. /\ job[d] \in {"writing", "rewriting"} /\ job'[d] \in {"index", "reindex"}
        /\ files'[d] = IF files[d] = None THEN None ELSE rows[d]
        /\ UNCHANGED <<rows, deletion, beside, index, writer>>
    BY <1>0, <1>4 DEF Write, caches
  <2>2. Torn # None
    BY TornAssumption
  <2>3. Agrees(d)'
    BY <1>0, <2>1, <2>2 DEF Agrees, FileInv, IndexInv, ReadInv, Pending
  <2> QED
    BY <1>0, <1>4, <2>1, <2>3, ProviderStep DEF Write
<1>5. ASSUME NEW from \in {"index", "reindex"}, NEW to \in {"ending", "idle"},
             Update(d, from, to)
      PROVE  CachesInv'
  <2>1. /\ job[d] \in {"index", "reindex"} /\ job'[d] \in {"ending", "idle"}
        /\ writer = None /\ writer' = None
        /\ UNCHANGED <<rows, files, deletion, beside>>
    BY <1>0, <1>5 DEF Update, Unlocked, store
  <2>2. \/ index = None /\ index' = None
        \/ /\ index # None /\ index \in [Domains -> Summary]
           /\ index' = [index EXCEPT ![d] = rows[d]]
    BY <1>0, <1>5 DEF Update, Put
  <2>3. Agrees(d)'
    BY <1>0, <2>1, <2>2 DEF Agrees, FileInv, IndexInv, ReadInv, Pending
  <2>4. \/ UNCHANGED index
        \/ /\ index # None
           /\ \A e \in Domains \ {d} : index'[e] = index[e]
    <3>1. CASE index = None
      BY <2>2, <3>1
    <3>2. CASE index # None
      BY <2>2, <3>2
    <3> QED
      BY <3>1, <3>2
  <2> QED
    BY <1>0, <1>5, <2>1, <2>3, <2>4, ProviderStep DEF Update
<1>6. CASE EndJob(d)
  <2>1. /\ job[d] = "ending" /\ job'[d] = "idle"
        /\ UNCHANGED <<rows, files, deletion, beside, index, writer>>
    BY <1>0, <1>6 DEF EndJob, caches
  <2>2. Agrees(d)'
    BY <1>0, <2>1 DEF Agrees, FileInv, IndexInv, ReadInv, Pending
  <2> QED
    BY <1>0, <1>6, <2>1, <2>2, ProviderStep DEF EndJob
<1>7. CASE BeginRefresh(d)
  <2>1. /\ job[d] = "idle" /\ job'[d] = "refresh"
        /\ (deletion[d] # "idle" => d \in beside')
        /\ (d \in beside => d \in beside')
        /\ UNCHANGED <<store, deletion, index, writer>>
    BY <1>0, <1>7 DEF BeginRefresh, caches
  <2>2. Agrees(d)'
    BY <1>0, <2>1 DEF Agrees, FileInv, IndexInv, ReadInv, Pending, store
  <2> QED
    BY <1>0, <1>7, <2>1, <2>2, ProviderStep DEF BeginRefresh, store
<1> QED
  BY <1>1, <1>2, <1>3, <1>4, <1>5, <1>6, <1>7 DEF JobStep, SaveSummary, RefreshSummary

LEMMA DeleteInv ==
  ASSUME CachesInv, CachesTypeOK', NEW d \in Domains, DeleteStep(d)
  PROVE  CachesInv'
<1> USE DEF Becomes
<1>0. /\ files \in [Domains -> Summary \cup {Torn}]
      /\ deletion \in [Domains -> {"idle", "files", "index", "search"}]
      /\ index \in [Domains -> Summary] \cup {None}
      /\ Agrees(d)
  BY DEF CachesInv, CachesTypeOK
<1>1. CASE BeginDelete(d)
  <2>1. /\ deletion[d] = "idle" /\ deletion'[d] = "files"
        /\ (job[d] # "idle" => d \in beside')
        /\ (d \in beside => d \in beside')
        /\ UNCHANGED <<store, job, index, writer>>
    BY <1>0, <1>1 DEF BeginDelete, caches
  <2>2. Agrees(d)'
    BY <1>0, <2>1 DEF Agrees, FileInv, IndexInv, ReadInv, Pending, store
  <2> QED
    BY <1>0, <1>1, <2>1, <2>2, ProviderStep DEF BeginDelete, store
<1>2. CASE RemoveFiles(d)
  <2>1. /\ deletion[d] = "files" /\ deletion'[d] = "index" /\ files'[d] = None
        /\ UNCHANGED <<rows, job, beside, index, writer>>
    BY <1>0, <1>2 DEF RemoveFiles, caches
  <2>2. Agrees(d)'
    BY <1>0, <2>1 DEF Agrees, FileInv, IndexInv, ReadInv, Pending
  <2> QED
    BY <1>0, <1>2, <2>1, <2>2, ProviderStep DEF RemoveFiles
<1>3. CASE RemoveSummary(d)
  <2>1. /\ deletion[d] = "index" /\ deletion'[d] = "search"
        /\ writer = None /\ writer' = None
        /\ UNCHANGED <<rows, files, job, beside>>
    BY <1>0, <1>3 DEF RemoveSummary, Unlocked, store
  <2>2. \/ index = None /\ index' = None
        \/ /\ index # None /\ index \in [Domains -> Summary]
           /\ index' = [index EXCEPT ![d] = None]
    BY <1>0, <1>3 DEF RemoveSummary, Put
  <2>3. Agrees(d)'
    BY <1>0, <2>1, <2>2 DEF Agrees, FileInv, IndexInv, ReadInv, Pending
  <2>4. \/ UNCHANGED index
        \/ /\ index # None
           /\ \A e \in Domains \ {d} : index'[e] = index[e]
    <3>1. CASE index = None
      BY <2>2, <3>1
    <3>2. CASE index # None
      BY <2>2, <3>2
    <3> QED
      BY <3>1, <3>2
  <2> QED
    BY <1>0, <1>3, <2>1, <2>3, <2>4, ProviderStep DEF RemoveSummary
<1>4. CASE EndDelete(d)
  <2>1. /\ deletion[d] = "search" /\ deletion'[d] = "idle"
        /\ UNCHANGED <<rows, files, job, beside, index, writer>>
    BY <1>0, <1>4 DEF EndDelete, store
  <2>2. Agrees(d)'
    BY <1>0, <2>1 DEF Agrees, FileInv, IndexInv, ReadInv, Pending
  <2> QED
    BY <1>0, <1>4, <2>1, <2>2, ProviderStep DEF EndDelete
<1> QED
  BY <1>1, <1>2, <1>3, <1>4 DEF DeleteStep

\* Whoever holds the lock has read each file as it is, or its provider is
\* about to change the index once the lock is free.
LEMMA LoadInv ==
  ASSUME CachesInv, CachesTypeOK', Load
  PROVE  CachesInv'
<1> SUFFICES ASSUME NEW e \in Domains PROVE Agrees(e)'
  BY DEF CachesInv
<1>0. Agrees(e) /\ WriterOK /\ UNCHANGED <<store, work>>
  BY DEF CachesInv, CachesTypeOK, WriterOK, Load, BeginLoad, LoadFile, EndLoad, LoadFails
<1>1. CASE BeginLoad
  BY <1>0, <1>1 DEF BeginLoad, Agrees, FileInv, IndexInv, ReadInv, Pending, store, work
<1>2. ASSUME NEW d \in Domains, LoadFile(d) PROVE Agrees(e)'
  <2>1. /\ writer # None /\ writer.by = "load" /\ writer'.by = "load"
        /\ writer'.got = [f \in DOMAIN writer.got \cup {d} |->
                            IF f # d THEN writer.got[f]
                            ELSE IF files[d] = Torn THEN None ELSE files[d]]
        /\ UNCHANGED index
    BY <1>0, <1>2 DEF LoadFile, WriterOK
  <2>2. ReadInv(e)'
    BY <1>0, <2>1 DEF Agrees, ReadInv, Pending, store, work
  <2> QED
    BY <1>0, <2>1, <2>2 DEF Agrees, FileInv, IndexInv, Pending, store, work
<1>3. CASE EndLoad \/ LoadFails
  BY <1>0, <1>3 DEF EndLoad, LoadFails, Agrees, FileInv, IndexInv, ReadInv, Pending, store, work
<1> QED
  BY <1>1, <1>2, <1>3 DEF Load

LEMMA HandleInv ==
  ASSUME CachesInv, CachesTypeOK', Handle
  PROVE  CachesInv'
<1>0. WriterOK /\ index \in [Domains -> Summary] \cup {None}
  BY DEF CachesInv, CachesTypeOK, WriterOK
<1>1. CASE Invalidated \/ BatchDone
  BY <1>1, SilentStep DEF Invalidated, BatchDone, caches
<1>2. ASSUME NEW d \in Domains, Reload(d) PROVE CachesInv'
  <2>1. ASSUME NEW e \in Domains PROVE Agrees(e)'
    <3>0. Agrees(e) /\ UNCHANGED <<store, job, deletion, beside, index>>
      BY <1>2 DEF CachesInv, Reload
    <3>1. CASE UNCHANGED writer
      BY <3>0, <3>1, Elsewhere DEF store
    <3>2. CASE writer' = [by |-> "reload", of |-> d, got |-> files[d]]
      BY <3>0, <3>2 DEF Agrees, FileInv, IndexInv, ReadInv, Pending, store
    <3> QED
      BY <1>2, <3>1, <3>2 DEF Reload
  <2> QED
    BY <2>1 DEF CachesInv
<1>3. CASE Reloaded
  <2>1. writer \in [by : {"reload"}, of : Domains, got : Summary]
    BY <1>0, <1>3 DEF Reloaded, WriterOK
  <2> DEFINE d == writer.of
  <2>2. /\ d \in Domains /\ writer # None /\ writer.by = "reload" /\ writer' = None
        /\ UNCHANGED <<store, job, deletion>>
        /\ \/ UNCHANGED beside
           \/ job[d] = "idle" /\ deletion[d] = "idle" /\ beside' = beside \ {d}
    BY <1>3, <2>1 DEF Reloaded
  <2>3. \/ index = None /\ index' = None
        \/ /\ index # None /\ index \in [Domains -> Summary]
           /\ index' = [index EXCEPT ![d] = writer.got]
    BY <1>0, <1>3 DEF Reloaded, Put, Becomes
  <2>4. ASSUME NEW e \in Domains PROVE Agrees(e)'
    <3>0. Agrees(e)
      BY DEF CachesInv
    <3>1. CASE e = d
      BY <2>2, <2>3, <3>0, <3>1 DEF Agrees, FileInv, IndexInv, ReadInv, Pending, store
    <3>2. CASE e # d
      BY <2>2, <2>3, <3>0, <3>2 DEF Agrees, FileInv, IndexInv, ReadInv, Pending, store
    <3> QED
      BY <3>1, <3>2
  <2> QED
    BY <2>4 DEF CachesInv
<1> QED
  BY <1>1, <1>2, <1>3 DEF Handle

LEMMA CachesAlways ==
  ASSUME CachesInv, [CachesNext]_vars
  PROVE  CachesInv'
<1>0. CachesTypeOK'
  BY CachesNextType DEF CachesInv
<1>1. CASE Received
  BY <1>0, <1>1, SilentStep DEF Received, caches
<1>2. CASE Search
  BY <1>0, <1>2, SilentStep
     DEF Search, BeginSearch, SearchProvider, EndSearch, SearchFails, Expire
<1>3. CASE UNCHANGED vars
  BY <1>0, <1>3, SilentStep DEF vars, caches
<1> QED
  BY <1>0, <1>1, <1>2, <1>3, JobInv, DeleteInv, LoadInv, HandleInv DEF CachesNext

-----------------------------------------------------------------------------

\* The types of the caches, of the jobs beside them and of the hook's receiver.
THEOREM CachesTypeCorrect == CachesSpec => []CachesTypeOK
<1>1. CachesInv => CachesTypeOK
  BY DEF CachesInv
<1> QED
  BY <1>1, CachesInitially, CachesAlways, PTL DEF CachesSpec

LEMMA IndexInvCurrent == CachesInv => IndexCurrent
BY DEF CachesInv, Agrees, IndexInv, Pending, IndexCurrent, Settled

\* save_summary, delete_provider, SummaryIndex: the index says what the files
\* say, for every provider nobody is half-way through changing.
THEOREM IndexCorrect == CachesSpec => []IndexCurrent
BY IndexInvCurrent, CachesInitially, CachesAlways, PTL DEF CachesSpec

-----------------------------------------------------------------------------
(* The cached search *)

\* An event that the hook has yet to handle: it will drop what is cached.
Unhandled == ~Empty \/ hook.at \in {"collecting", "handling"}

Refreshing(d) == job[d] \in {"refresh", "rewriting", "reindex"}

\* What d has is about to change, or an invalidation is to come.
Changing(d) == Unhandled \/ d \in Running \/ deletion[d] # "idle"

\* A result r, with the providers in todo still to be asked.
ResultInv(r, todo, d) ==
  /\ r.hits[d] # None => finished[d] <= r.hits[d] \/ Unhandled
  /\ d \notin r.misled =>
       /\ d \in beside => deletion[d] # "idle"
       /\ (d \in todo \/ r.hits[d] # None <=> files[d] # None) \/ Changing(d)

\* What happens beside a deletion is remembered; a refresh has a file, or lost it
\* to a deletion.
WorldInv(d) ==
  /\ finished[d] <= rows[d]
  /\ job[d] # "idle" /\ deletion[d] # "idle" => d \in beside
  /\ Refreshing(d) => files[d] # None \/ d \in beside

SearchOK == search # None /\ ~search.straddled => \A d \in Domains : ResultInv(search, {}, d)
QueryOK  == query # None /\ ~query.straddled => \A d \in Domains : ResultInv(query, query.todo, d)

SearchInv ==
  /\ next <= Len(sent) + 1
  /\ \A d \in Domains : WorldInv(d)
  /\ SearchOK /\ QueryOK

LEMMA InitSearch == CachesInit => SearchInv
BY DEF CachesInit, HooksInit, SearchInv, WorldInv, Refreshing, SearchOK, QueryOK

\* Steps that leave a result as true as it was.
Calm(d) ==
  /\ finished'[d] = finished[d] \/ Unhandled'
  /\ Unhandled => Unhandled'
  /\ d \in beside' => d \in beside \/ deletion'[d] # "idle"
  /\ deletion[d] # "idle" => deletion'[d] # "idle"
  /\ d \in Running => d \in Running' \/ Unhandled'
  /\ \/ files'[d] = None <=> files[d] = None
     \/ d \in Running' \/ deletion'[d] # "idle" \/ d \in beside

LEMMA CalmStep ==
  ASSUME SearchInv, UNCHANGED readers, \A d \in Domains : Calm(d)
  PROVE  SearchOK' /\ QueryOK'
<1>1. ASSUME NEW d \in Domains, search # None, ~search.straddled
      PROVE  ResultInv(search, {}, d)'
  <2>1. ResultInv(search, {}, d) /\ search' = search /\ Calm(d)
    BY <1>1 DEF SearchInv, SearchOK, readers
  <2> QED
    BY <1>1, <2>1 DEF ResultInv, Changing, Calm
<1>2. ASSUME NEW d \in Domains, query # None, ~query.straddled
      PROVE  ResultInv(query, query.todo, d)'
  <2>1. ResultInv(query, query.todo, d) /\ query' = query /\ Calm(d)
    BY <1>2 DEF SearchInv, QueryOK, readers
  <2> QED
    BY <1>2, <2>1 DEF ResultInv, Changing, Calm
<1> QED
  BY <1>1, <1>2 DEF SearchOK, QueryOK, readers

LEMMA InvalidateSearch ==
  ASSUME ResultOK, InvalidateAll
  PROVE  SearchOK' /\ QueryOK'
<1>1. query # None => query \in Query
  BY DEF ResultOK
<1>2. query' # None => query'.straddled = TRUE
  BY <1>1 DEF InvalidateAll, Query
<1> QED
  BY <1>2 DEF InvalidateAll, SearchOK, QueryOK

LEMMA SameChannel ==
  ASSUME UNCHANGED channel
  PROVE  Unhandled' <=> Unhandled
BY DEF channel, Unhandled, Empty

\* What the receiver takes is not handled yet.
LEMMA ReceiveSearch ==
  ASSUME HooksTypeOK, next <= Len(sent) + 1, Receive
  PROVE  next' <= Len(sent') + 1 /\ (Unhandled => Unhandled')
<1>0. next \in Nat \ {0} /\ Len(sent) \in Nat /\ Capacity \in Nat \ {0} /\ sent' = sent
  BY HooksAssumption DEF HooksTypeOK, Receive, Lag, First, More, NoMore
<1>1. CASE Lag
  <2>1. next' <= Len(sent') /\ next' \in Nat
    BY <1>0, <1>1 DEF Lag, Lagging, Oldest
  <2> QED
    BY <1>0, <2>1 DEF Unhandled, Empty
<1>2. CASE First \/ More
  <2>1. next' = next + 1 /\ ~Empty /\ hook'.at = "collecting"
    BY <1>2 DEF First, More, Take
  <2> QED
    BY <1>0, <2>1 DEF Unhandled, Empty
<1>3. CASE NoMore
  <2>1. hook'.at = "handling"
    BY <1>3 DEF NoMore, HooksTypeOK
  <2> QED
    BY <1>0, <1>3, <2>1 DEF NoMore, Lagging, Oldest, Unhandled
<1> QED
  BY <1>1, <1>2, <1>3 DEF Receive

\* A step of one provider that sends nothing is calm for the others.
LEMMA OthersCalm ==
  ASSUME UNCHANGED <<finished, channel>>, NEW d \in Domains,
         \A e \in Domains \ {d} :
           /\ files'[e] = files[e] /\ job'[e] = job[e] /\ deletion'[e] = deletion[e]
           /\ e \in beside' => e \in beside
  PROVE  \A e \in Domains \ {d} : Calm(e)
BY SameChannel DEF Calm, Running

LEMMA JobSearch ==
  ASSUME CachesTypeOK, SearchInv, NEW d \in Domains, JobStep(d)
  PROVE  SearchInv'
<1> USE DEF Go, Becomes
<1>0. /\ rows \in [Domains -> Nat] /\ finished \in [Domains -> Nat]
      /\ files \in [Domains -> Summary \cup {Torn}]
      /\ job \in [Domains -> JobSteps]
      /\ next <= Len(sent) + 1 /\ \A e \in Domains : WorldInv(e)
  BY DEF SearchInv, CachesTypeOK
<1>n. Torn # None /\ \A e \in Domains : rows[e] # None
  <2>1. \A e \in Domains : rows[e] \in Nat
    BY <1>0
  <2> QED
    BY <2>1, HooksAssumption, TornAssumption
<1>c. ASSUME UNCHANGED <<finished, channel, readers>>, Calm(d),
             \A e \in Domains : WorldInv(e)',
             \A e \in Domains \ {d} :
               /\ files'[e] = files[e] /\ job'[e] = job[e] /\ deletion'[e] = deletion[e]
               /\ e \in beside' => e \in beside
      PROVE  SearchInv'
  <2>1. \A e \in Domains : Calm(e)
    BY <1>c, OthersCalm
  <2> QED
    BY <1>0, <1>c, <2>1, CalmStep DEF SearchInv, channel
<1>1. CASE StartJob(d) \/ BeginRefresh(d)
  <2>1. /\ job[d] = "idle" /\ job'[d] \in {"work", "refresh"}
        /\ job'[d] = "refresh" => files[d] # None
        /\ beside' = IF deletion[d] = "idle" THEN beside ELSE beside \cup {d}
        /\ UNCHANGED <<channel, store, deletion, readers>>
        /\ \A e \in Domains \ {d} : job'[e] = job[e]
    BY <1>0, <1>1, HooksAssumption DEF StartJob, BeginRefresh, caches, readers
  <2>2. \A e \in Domains : WorldInv(e)'
    BY <1>0, <2>1 DEF WorldInv, Refreshing, store
  <2>3. Calm(d)
    BY <2>1, SameChannel DEF Calm, Running, store
  <2> QED
    BY <1>c, <2>1, <2>2, <2>3 DEF store
<1>2. CASE Work(d) \/ WorkFails(d)
  <2>1. /\ \/ job[d] \in {"work", "summary", "writing"} /\ job'[d] \in {"summary", "ending"}
           \/ Refreshing(d) /\ job'[d] = "idle"
        /\ rows'[d] \in {rows[d], rows[d] + 1}
        /\ UNCHANGED <<channel, finished, files, deletion, beside, readers>>
        /\ \A e \in Domains \ {d} : job'[e] = job[e] /\ rows'[e] = rows[e]
    BY <1>0, <1>2 DEF Work, WorkFails, Refreshing, caches, readers, store
  <2>2. \A e \in Domains : WorldInv(e)'
    BY <1>0, <2>1 DEF WorldInv, Refreshing
  <2>3. Calm(d)
    BY <2>1, SameChannel DEF Calm, Running, Refreshing
  <2> QED
    BY <1>c, <2>1, <2>2, <2>3
<1>3. ASSUME NEW from \in {"summary", "refresh"}, NEW to \in {"writing", "rewriting"},
             from = "summary" <=> to = "writing", Truncate(d, from, to)
      PROVE  SearchInv'
  <2>1. /\ job[d] = from /\ job'[d] = to /\ files'[d] = Torn
        /\ UNCHANGED <<channel, rows, finished, deletion, beside, readers>>
        /\ \A e \in Domains \ {d} : job'[e] = job[e] /\ files'[e] = files[e]
    BY <1>0, <1>3 DEF Truncate, caches, readers
  <2>2. \A e \in Domains : WorldInv(e)'
    BY <1>0, <1>n, <1>3, <2>1 DEF WorldInv, Refreshing
  <2>3. Calm(d)
    BY <1>0, <1>n, <1>3, <2>1, SameChannel DEF Calm, Running, WorldInv, Refreshing
  <2> QED
    BY <1>c, <2>1, <2>2, <2>3
<1>4. ASSUME NEW from \in {"writing", "rewriting"}, NEW to \in {"index", "reindex"},
             from = "writing" <=> to = "index", Write(d, from, to)
      PROVE  SearchInv'
  <2>1. /\ job[d] = from /\ job'[d] = to
        /\ files'[d] = None <=> files[d] = None
        /\ UNCHANGED <<channel, rows, finished, deletion, beside, readers>>
        /\ \A e \in Domains \ {d} : job'[e] = job[e] /\ files'[e] = files[e]
    BY <1>0, <1>n, <1>4 DEF Write, caches, readers
  <2>2. \A e \in Domains : WorldInv(e)'
    BY <1>0, <1>4, <2>1 DEF WorldInv, Refreshing
  <2>3. Calm(d)
    BY <1>4, <2>1, SameChannel DEF Calm, Running
  <2> QED
    BY <1>c, <2>1, <2>2, <2>3
<1>5. CASE Update(d, "index", "ending") \/ Update(d, "reindex", "idle")
  <2>1. /\ \/ job[d] = "index" /\ job'[d] = "ending"
           \/ job[d] = "reindex" /\ job'[d] = "idle"
        /\ UNCHANGED <<channel, store, deletion, beside, readers>>
        /\ \A e \in Domains \ {d} : job'[e] = job[e]
    BY <1>0, <1>5 DEF Update
  <2>2. \A e \in Domains : WorldInv(e)'
    BY <1>0, <2>1 DEF WorldInv, Refreshing, store
  <2>3. Calm(d)
    BY <2>1, SameChannel DEF Calm, Running, store
  <2> QED
    BY <1>c, <2>1, <2>2, <2>3 DEF store
<1>6. CASE EndJob(d)
  <2>1. /\ job[d] = "ending" /\ job'[d] = "idle" /\ finished'[d] = rows[d]
        /\ UNCHANGED <<next, hook, rows, files, deletion, beside, readers>>
        /\ \A e \in Domains \ {d} : job'[e] = job[e] /\ finished'[e] = finished[e]
        /\ Send(d)
    BY <1>0, <1>6 DEF EndJob, caches, readers
  <2>2. next <= Len(sent') /\ next <= Len(sent') + 1
    <3>1. next \in Nat /\ Len(sent) \in Nat /\ Len(sent') = Len(sent) + 1
      BY <2>1 DEF Send, CachesTypeOK, HooksTypeOK
    <3> QED
      BY <1>0, <3>1
  <2>3. Unhandled'
    <3>1. Len(sent') \in Nat /\ next \in Nat /\ next' = next
      BY <2>1 DEF Send, CachesTypeOK, HooksTypeOK
    <3> QED
      BY <2>2, <3>1 DEF Unhandled, Empty
  <2>4. \A e \in Domains : WorldInv(e)'
    BY <1>0, <2>1 DEF WorldInv, Refreshing
  <2>5. \A e \in Domains : Calm(e)
    BY <2>1, <2>3 DEF Calm, Running
  <2> QED
    BY <2>1, <2>2, <2>4, <2>5, CalmStep DEF SearchInv
<1> QED
  BY <1>1, <1>2, <1>3, <1>4, <1>5, <1>6 DEF JobStep, SaveSummary, RefreshSummary

LEMMA DeleteSearch ==
  ASSUME CachesTypeOK, SearchInv, NEW d \in Domains, DeleteStep(d)
  PROVE  SearchInv'
<1> USE DEF Becomes
<1>0. /\ deletion \in [Domains -> {"idle", "files", "index", "search"}]
      /\ files \in [Domains -> Summary \cup {Torn}]
      /\ next <= Len(sent) + 1 /\ (\A e \in Domains : WorldInv(e)) /\ ResultOK
  BY TypeParts DEF SearchInv, CachesTypeOK
<1>1. CASE EndDelete(d)
  <2>1. /\ deletion'[d] = "idle"
        /\ \A e \in Domains \ {d} : deletion'[e] = deletion[e]
        /\ UNCHANGED <<channel, store, job, beside>>
    BY <1>0, <1>1 DEF EndDelete
  <2>2. \A e \in Domains : WorldInv(e)'
    BY <1>0, <2>1 DEF WorldInv, Refreshing, store
  <2>3. SearchOK' /\ QueryOK'
    BY <1>0, <1>1, InvalidateSearch DEF EndDelete
  <2> QED
    BY <1>0, <2>1, <2>2, <2>3 DEF SearchInv, channel
<1>2. CASE BeginDelete(d) \/ RemoveFiles(d) \/ RemoveSummary(d)
  <2>1. /\ deletion'[d] # "idle"
        /\ deletion[d] = "idle" => beside' = IF job[d] = "idle" THEN beside ELSE beside \cup {d}
        /\ deletion[d] # "idle" => beside' = beside
        /\ UNCHANGED <<channel, rows, finished, job, readers>>
        /\ \A e \in Domains \ {d} : deletion'[e] = deletion[e] /\ files'[e] = files[e]
        /\ files'[d] = files[d] \/ deletion[d] # "idle"
    BY <1>0, <1>2 DEF BeginDelete, RemoveFiles, RemoveSummary, caches, readers, store
  <2>2. \A e \in Domains : WorldInv(e)'
    BY <1>0, <2>1 DEF WorldInv, Refreshing
  <2>3. Calm(d)
    BY <2>1, SameChannel DEF Calm, Running
  <2>4. \A e \in Domains : Calm(e)
    BY <2>1, <2>3, OthersCalm
  <2> QED
    BY <1>0, <2>1, <2>2, <2>4, CalmStep DEF SearchInv, channel
<1> QED
  BY <1>1, <1>2 DEF DeleteStep

\* The hook drops what is cached before it counts an event as handled.
LEMMA HandleSearch ==
  ASSUME CachesTypeOK, SearchInv, Handle
  PROVE  SearchInv'
<1>0. next <= Len(sent) + 1 /\ (\A e \in Domains : WorldInv(e)) /\ ResultOK /\ HooksTypeOK
  BY TypeParts DEF SearchInv
<1>1. CASE Invalidated
  <2>1. \A e \in Domains : WorldInv(e)'
    BY <1>0, <1>1 DEF Invalidated, WorldInv, Refreshing, store, work
  <2>2. SearchOK' /\ QueryOK'
    BY <1>0, <1>1, InvalidateSearch DEF Invalidated
  <2> QED
    BY <1>0, <1>1, <2>1, <2>2 DEF Invalidated, SearchInv
<1>2. CASE (\E d \in Domains : Reload(d)) \/ Reloaded \/ BatchDone
  <2>1. /\ UNCHANGED <<sent, next, store, job, deletion, readers>>
        /\ \A e \in Domains : e \in beside' => e \in beside
        /\ \A e \in Domains : e \in beside /\ e \notin beside' => job[e] = "idle" /\ deletion[e] = "idle"
    <3>1. ASSUME NEW d \in Domains, Reload(d)
          PROVE  UNCHANGED <<sent, next, store, job, deletion, readers, beside>>
      BY <3>1 DEF Reload
    <3>2. CASE Reloaded
      BY <3>2 DEF Reloaded
    <3>3. CASE BatchDone
      BY <3>3 DEF BatchDone, work, caches, readers
    <3> QED
      BY <1>2, <3>1, <3>2, <3>3
  <2>2. Unhandled => Unhandled'
    <3>1. ASSUME NEW d \in Domains, Reload(d) PROVE hook.at \notin {"collecting", "handling"}
      BY <3>1 DEF Reload
    <3>2. CASE BatchDone
      BY <2>1, <3>2 DEF BatchDone, Unhandled, Empty
    <3>3. Reloaded => hook'.at = hook.at
      BY <1>0 DEF Reloaded, HooksTypeOK
    <3> QED
      BY <1>2, <2>1, <3>1, <3>2, <3>3 DEF Unhandled, Empty
  <2>3. \A e \in Domains : WorldInv(e)'
    BY <1>0, <2>1 DEF WorldInv, Refreshing, store
  <2>4. \A e \in Domains : Calm(e)
    BY <2>1, <2>2 DEF Calm, Running, store
  <2> QED
    BY <1>0, <2>1, <2>3, <2>4, CalmStep DEF SearchInv
<1> QED
  BY <1>1, <1>2 DEF Handle

\* What a provider answers is what its last finished job left, or newer.
LEMMA SearchSearch ==
  ASSUME CachesTypeOK, SearchInv, Search, UNCHANGED <<channel, store, work>>
  PROVE  SearchInv'
<1>0. /\ next <= Len(sent) + 1 /\ (\A e \in Domains : WorldInv(e)) /\ SearchOK /\ QueryOK
      /\ rows \in [Domains -> Nat] /\ finished \in [Domains -> Nat] /\ ResultOK
  BY TypeParts DEF SearchInv, CachesTypeOK
<1>w. \A e \in Domains : WorldInv(e)'
  BY <1>0 DEF WorldInv, Refreshing, store, work
<1>k. ASSUME NEW r, NEW todo, NEW e \in Domains
      PROVE  /\ finished'[e] = finished[e] /\ files'[e] = files[e]
             /\ deletion'[e] = deletion[e] /\ beside' = beside
             /\ Unhandled' <=> Unhandled
             /\ Changing(e)' <=> Changing(e)
  BY SameChannel DEF Changing, Running, store, work
<1>s. ASSUME UNCHANGED search PROVE SearchOK'
  BY <1>0, <1>k, <1>s DEF SearchOK, ResultInv
<1>1. CASE BeginSearch
  <2>1. \A e \in Domains :
          /\ query'.hits[e] = None
          /\ e \notin query'.misled => e \notin beside /\ (e \in query'.todo <=> files[e] # None)
    BY <1>1 DEF BeginSearch
  <2>2. QueryOK'
    BY <1>k, <2>1 DEF QueryOK, ResultInv
  <2> QED
    BY <1>0, <1>w, <1>s, <1>1, <2>2 DEF BeginSearch, SearchInv, channel
<1>2. ASSUME NEW d \in Domains, SearchProvider(d) PROVE SearchInv'
  <2>1. query \in Query /\ query' = [query EXCEPT !.todo = @ \ {d}, !.hits[d] = rows[d]]
    BY <1>0, <1>2 DEF SearchProvider, ResultOK
  <2>2. /\ query'.hits[d] = rows[d] /\ rows[d] # None /\ finished[d] <= rows[d]
        /\ d \in query.todo
        /\ query'.misled = query.misled /\ query'.straddled = query.straddled
        /\ \A e \in Domains \ {d} :
             query'.hits[e] = query.hits[e] /\ (e \in query'.todo <=> e \in query.todo)
    BY <1>0, <1>2, <2>1, HooksAssumption DEF SearchProvider, Query, WorldInv
  <2>3. ASSUME query # None, ~query.straddled, NEW e \in Domains
        PROVE  ResultInv(query, query.todo, e)'
    <3>1. ResultInv(query, query.todo, e)
      BY <1>0, <2>3 DEF QueryOK
    <3>2. CASE e = d
      BY <1>k, <2>2, <3>1, <3>2 DEF ResultInv
    <3>3. CASE e # d
      BY <1>k, <2>2, <3>1, <3>3 DEF ResultInv
    <3> QED
      BY <3>2, <3>3
  <2>4. QueryOK'
    BY <1>2, <2>2, <2>3 DEF QueryOK, SearchProvider
  <2> QED
    BY <1>0, <1>w, <1>s, <1>2, <2>4 DEF SearchProvider, SearchInv, channel
<1>3. CASE EndSearch
  <2>1. /\ query # None /\ query.todo = {} /\ search'.hits = query.hits
        /\ search'.misled = query.misled /\ search'.straddled = query.straddled
        /\ query' = None
    BY <1>3 DEF EndSearch
  <2>2. SearchOK'
    BY <1>0, <1>k, <2>1 DEF SearchOK, QueryOK, ResultInv
  <2> QED
    BY <1>0, <1>w, <2>1, <2>2 DEF SearchInv, QueryOK, channel
<1>4. CASE SearchFails
  BY <1>0, <1>w, <1>s, <1>4 DEF SearchFails, SearchInv, QueryOK, channel
<1>5. CASE Expire
  <2>1. QueryOK'
    BY <1>0, <1>k, <1>5 DEF Expire, QueryOK, ResultInv
  <2> QED
    BY <1>0, <1>w, <1>5, <2>1 DEF Expire, SearchInv, SearchOK, channel
<1> QED
  BY <1>1, <1>2, <1>3, <1>4, <1>5 DEF Search

LEMMA NextSearch ==
  ASSUME CachesTypeOK, SearchInv, [CachesNext]_vars
  PROVE  SearchInv'
<1>0. next <= Len(sent) + 1 /\ (\A e \in Domains : WorldInv(e)) /\ HooksTypeOK
  BY DEF SearchInv, CachesTypeOK
<1>1. ASSUME UNCHANGED <<store, work, readers>>, Unhandled => Unhandled',
             next' <= Len(sent') + 1
      PROVE  SearchInv'
  <2>1. \A e \in Domains : WorldInv(e)'
    BY <1>0, <1>1 DEF WorldInv, Refreshing, store, work
  <2>2. \A e \in Domains : Calm(e)
    BY <1>1 DEF Calm, Running, store, work
  <2> QED
    BY <1>1, <2>1, <2>2, CalmStep DEF SearchInv
<1>2. CASE Received
  <2>1. Receive /\ UNCHANGED <<store, work, readers>>
    BY <1>2 DEF Received, caches, readers
  <2> QED
    BY <1>0, <1>1, <2>1, ReceiveSearch
<1>3. CASE Load \/ UNCHANGED vars
  <2>1. UNCHANGED <<channel, store, work, readers>>
    BY <1>3 DEF Load, BeginLoad, LoadFile, EndLoad, LoadFails, vars, caches, readers
  <2> QED
    BY <1>0, <1>1, <2>1, SameChannel DEF channel
<1>4. CASE Search
  <2>1. UNCHANGED <<channel, store, work>>
    BY <1>4 DEF Search, BeginSearch, SearchProvider, EndSearch, SearchFails, Expire
  <2> QED
    BY <1>4, <2>1, SearchSearch
<1> QED
  BY <1>2, <1>3, <1>4, JobSearch, DeleteSearch, HandleSearch DEF CachesNext

LEMMA SearchInvFresh == CachesTypeOK /\ SearchInv => SearchFresh
<1> SUFFICES ASSUME CachesTypeOK, SearchInv, CaughtUp,
                    \A d \in Domains : job[d] = "idle" /\ deletion[d] = "idle",
                    search # None, ~search.straddled,
                    NEW d \in Domains
             PROVE  /\ search.hits[d] # None => search.hits[d] >= finished[d]
                    /\ d \notin search.misled => (search.hits[d] = None) = (files[d] = None)
  BY DEF SearchFresh
<1>1. ResultInv(search, {}, d) /\ ~Unhandled /\ ~Changing(d)
  BY DEF SearchInv, SearchOK, CaughtUp, Unhandled, Changing, Running
<1>2. finished[d] \in Nat /\ search.hits[d] \in Nat \cup {None}
  BY TypeParts DEF StoreOK, ResultOK, Result, Summary
<1> QED
  BY <1>1, <1>2 DEF ResultInv

\* find_by_cve: once the hook handled every event, a cached result has each
\* provider's documents as its last job left them, and nothing of a deleted one.
THEOREM SearchAlwaysFresh == CachesSpec => []SearchFresh
<1>2. CachesTypeOK /\ SearchInv /\ [CachesNext]_vars => SearchInv'
  BY NextSearch
<1> QED
  BY <1>2, SearchInvFresh, InitSearch, CachesTypeCorrect, PTL DEF CachesSpec

-----------------------------------------------------------------------------
(* OverviewCache: the page never shows what was measured before the last   *)
(* invalidation that preceded the request.  The mutex plays no part: what  *)
(* matters is that the generation is read before anything is measured and  *)
(* the snapshot is filed under it.                                         *)

\* What a client has read, and what it will answer.
ClientInv(c) ==
  /\ client[c].since <= promised /\ client[c].from <= day
  /\ client[c].generation <= generation
  /\ client[c].at \in {"measuring", "measured", "answered"} => client[c].date >= client[c].from
  /\ client[c].at \in {"measured", "answered"} => client[c].data >= client[c].since
  /\ client[c].at = "measured" /\ client[c].generation = generation => client[c].data >= promised

SnapshotInv ==
  snapshot # None =>
    /\ snapshot.generation <= generation
    /\ snapshot.generation = generation => snapshot.data >= promised

OverviewInv ==
  /\ OverviewTypeOK
  /\ promised <= stored
  /\ SnapshotInv
  /\ \A c \in Clients : ClientInv(c)

-----------------------------------------------------------------------------

LEMMA IdleType == Idle \in Client
  BY DEF Idle, Client

LEMMA OverviewInitially == OverviewInit => OverviewInv
<1> SUFFICES ASSUME OverviewInit PROVE OverviewInv
  OBVIOUS
<1>1. HooksTypeOK
  BY DEF OverviewInit, HooksInit, HooksTypeOK, Steps
<1>2. OverviewTypeOK
  BY <1>1, IdleType DEF OverviewInit, OverviewTypeOK
<1>3. SnapshotInv /\ \A c \in Clients : ClientInv(c)
  BY DEF OverviewInit, SnapshotInv, ClientInv, Idle
<1> QED
  BY <1>2, <1>3 DEF OverviewInv, OverviewInit

\* What a step of one client has to keep.
LEMMA ClientStep ==
  ASSUME OverviewInv, NEW c \in Clients, NEW r \in Client,
         client' = [client EXCEPT ![c] = r],
         snapshot' \in Snapshot \cup {None}, SnapshotInv', mutex' \in Clients \cup {None},
         UNCHANGED <<channel, world, generation, promised>>,
         r.since <= promised, r.from <= day, r.generation <= generation,
         r.at \in {"measuring", "measured", "answered"} => r.date >= r.from,
         r.at \in {"measured", "answered"} => r.data >= r.since,
         r.at = "measured" /\ r.generation = generation => r.data >= promised
  PROVE  OverviewInv'
<1>1. client' \in [Clients -> Client]
  BY DEF OverviewInv, OverviewTypeOK
<1>2. HooksTypeOK'
  BY DEF OverviewInv, OverviewTypeOK, HooksTypeOK, channel
<1>3. OverviewTypeOK'
  BY <1>1, <1>2 DEF OverviewInv, OverviewTypeOK, world
<1>4. ASSUME NEW e \in Clients PROVE ClientInv(e)'
  <2>1. CASE e = c
    <3>1. client'[e] = r
      BY <2>1 DEF OverviewInv, OverviewTypeOK
    <3> QED
      BY <3>1 DEF ClientInv, world
  <2>2. CASE e # c
    <3>1. client'[e] = client[e]
      BY <2>2 DEF OverviewInv, OverviewTypeOK
    <3>2. ClientInv(e)
      BY DEF OverviewInv
    <3> QED
      BY <3>1, <3>2 DEF ClientInv, world
  <2> QED
    BY <2>1, <2>2
<1> QED
  BY <1>3, <1>4 DEF OverviewInv, world

\* An invalidation: no snapshot and no measurement under way is of its generation.
LEMMA InvalidateStep ==
  ASSUME OverviewInv, Invalidate, UNCHANGED <<sent, next, stored, storing, day, snapshot, mutex>>,
         hook' \in [at : Steps, batch : SUBSET Domains], stale' \in Nat,
         \/ UNCHANGED client
         \/ client' = [client EXCEPT ![Refresher] = Asked(stored)]
  PROVE  OverviewInv'
<1> USE DEF OverviewInv
<1>1. Asked(stored) \in Client
  BY DEF OverviewTypeOK, Asked, Client, Idle
<1>2. generation \in Nat /\ stored \in Nat /\ promised \in Nat /\ day \in Nat
  BY DEF OverviewTypeOK
<1>3. OverviewTypeOK'
  <2>1. client' \in [Clients -> Client]
    BY <1>1 DEF OverviewTypeOK
  <2>2. HooksTypeOK'
    BY DEF OverviewTypeOK, HooksTypeOK
  <2> QED
    BY <2>1, <2>2, <1>2 DEF OverviewTypeOK, Invalidate
<1>4. SnapshotInv'
  <2>1. snapshot # None => snapshot.generation \in Nat
    BY DEF OverviewTypeOK, Snapshot
  <2> QED
    BY <1>2, <2>1 DEF SnapshotInv, Invalidate
<1>5. ASSUME NEW c \in Clients PROVE ClientInv(c)'
  <2>1. client[c] \in Client
    BY DEF OverviewTypeOK
  <2>2. ClientInv(c)
    OBVIOUS
  <2>3. CASE client'[c] = client[c]
    BY <1>2, <2>1, <2>2, <2>3 DEF ClientInv, Invalidate, Client
  <2>4. CASE client'[c] # client[c]
    <3>1. client'[c] = Asked(stored)
      BY <2>4 DEF OverviewTypeOK
    <3> QED
      BY <1>2, <3>1 DEF ClientInv, Invalidate, Asked, Idle
  <2> QED
    BY <2>3, <2>4
<1> QED
  BY <1>2, <1>3, <1>4, <1>5 DEF Invalidate

\* A step of the world, or of the hook while it receives.
LEMMA OtherStep ==
  ASSUME OverviewInv, UNCHANGED overview, HooksTypeOK',
         stored' \in Nat, stored' >= stored, storing' \subseteq Domains,
         stale' \in Nat, day' \in Nat, day' >= day
  PROVE  OverviewInv'
<1>1. OverviewTypeOK'
  BY DEF OverviewInv, OverviewTypeOK, overview
<1>2. SnapshotInv'
  BY DEF OverviewInv, SnapshotInv, overview
<1>3. ASSUME NEW c \in Clients PROVE ClientInv(c)'
  <2>1. client[c] \in Client /\ ClientInv(c) /\ day \in Nat
    BY DEF OverviewInv, OverviewTypeOK
  <2> QED
    BY <2>1 DEF ClientInv, overview, Client
<1>4. promised' <= stored'
  BY DEF OverviewInv, OverviewTypeOK, overview
<1> QED
  BY <1>1, <1>2, <1>3, <1>4 DEF OverviewInv

\* What the receiver of a hook does keeps the types.
LEMMA OverviewReceiveType ==
  ASSUME HooksTypeOK, Receive
  PROVE  HooksTypeOK'
<1> USE HooksAssumption DEF HooksTypeOK, Steps
<1>1. CASE Lag
  BY <1>1 DEF Lag, Lagging, Oldest
<1>2. CASE First
  BY <1>2 DEF First, Take, Empty
<1>3. CASE More
  BY <1>3 DEF More, Take, Empty
<1>4. CASE NoMore
  BY <1>4 DEF NoMore, Lagging, Oldest
<1> QED
  BY <1>1, <1>2, <1>3, <1>4 DEF Receive

-----------------------------------------------------------------------------

LEMMA OverviewAlways ==
  ASSUME OverviewInv, [OverviewNext]_overviewVars
  PROVE  OverviewInv'
<1> USE DEF OverviewInv
<1>0. /\ stored \in Nat /\ day \in Nat /\ stale \in Nat /\ generation \in Nat /\ promised \in Nat
      /\ storing \subseteq Domains /\ HooksTypeOK
  BY DEF OverviewTypeOK
<1>1. ASSUME NEW d \in Domains, Store(d) PROVE OverviewInv'
  <2>1. HooksTypeOK'
    BY <1>0, <1>1 DEF Store, HooksTypeOK, channel
  <2> QED
    BY <1>0, <1>1, <2>1, OtherStep DEF Store
<1>2. ASSUME NEW d \in Domains, End(d) PROVE OverviewInv'
  <2>1. HooksTypeOK'
    BY <1>0, <1>2 DEF End, Send, HooksTypeOK
  <2> QED
    BY <1>0, <1>2, <2>1, OtherStep DEF End
<1>3. CASE Midnight
  <2>1. HooksTypeOK'
    BY <1>0, <1>3 DEF Midnight, HooksTypeOK, channel
  <2> QED
    BY <1>0, <1>3, <2>1, OtherStep DEF Midnight
<1>4. ASSUME NEW c \in Clients, Request(c) \/ Snap(c) PROVE OverviewInv'
  <2>0. /\ client[c] \in Client /\ ClientInv(c) /\ mutex \in Clients \cup {None}
        /\ snapshot \in Snapshot \cup {None}
    BY DEF OverviewTypeOK
  <2>1. CASE Request(c)
    <3>1. Asked(promised) \in Client
      BY <1>0 DEF Asked, Client, Idle
    <3>2. /\ SnapshotInv' /\ snapshot' \in Snapshot \cup {None}
          /\ mutex' \in Clients \cup {None}
          /\ UNCHANGED <<channel, world, generation, promised>>
          /\ client' = [client EXCEPT ![c] = Asked(promised)]
      BY <2>0, <2>1 DEF Request, SnapshotInv
    <3>3. /\ Asked(promised).since = promised /\ Asked(promised).from = day
          /\ Asked(promised).generation = 0 /\ Asked(promised).at = "asked"
      BY DEF Asked, Idle
    <3>4. /\ Asked(promised).since <= promised /\ Asked(promised).from <= day
          /\ Asked(promised).generation <= generation
          /\ Asked(promised).at \notin {"measuring", "measured", "answered"}
      BY <1>0, <3>3
    <3>5. OverviewInv
      OBVIOUS
    <3> HIDE DEF OverviewInv
    <3> QED
      BY <3>1, <3>2, <3>4, <3>5, ClientStep
  <2>2. CASE Lock(c)
    <3>1. SnapshotInv' /\ snapshot' \in Snapshot \cup {None}
      BY <2>0, <2>2 DEF Lock, SnapshotInv
    <3>a. UNCHANGED <<channel, world, generation, promised>>
      BY <2>2 DEF Lock
    <3>b. /\ client[c].since \in Nat /\ client[c].from \in Nat
          /\ client[c].since <= promised /\ client[c].from <= day
      BY <2>0 DEF Client, ClientInv
    <3>2. CASE snapshot # None /\ snapshot.generation = generation /\ snapshot.date = day
      <4> DEFINE q == [client[c] EXCEPT !.at = "answered", !.date = day,
                                        !.generation = generation, !.data = snapshot.data]
      <4>1. client' = [client EXCEPT ![c] = q] /\ UNCHANGED mutex
        BY <2>0, <2>2, <3>2 DEF Lock, OverviewTypeOK
      <4>2. snapshot.data \in Nat /\ snapshot.data >= promised
        BY <2>0, <3>2 DEF SnapshotInv, Snapshot
      <4>3. q \in Client
        BY <1>0, <2>0, <4>2 DEF Client
      <4>4. /\ q.at = "answered" /\ q.date = day /\ q.generation = generation
            /\ q.data = snapshot.data /\ q.since = client[c].since /\ q.from = client[c].from
        BY <2>0 DEF Client
      <4>5. q.since <= promised /\ q.from <= day /\ q.date >= q.from /\ q.data >= q.since
        BY <1>0, <3>b, <4>2, <4>4
      <4>6. q.generation <= generation /\ mutex' \in Clients \cup {None}
        BY <1>0, <2>0, <4>1, <4>4
      <4>7. ~(q.at = "measured" /\ q.generation = generation)
        BY <4>4
      <4> HIDE DEF q
      <4> QED
        BY <3>1, <3>a, <4>1, <4>3, <4>5, <4>6, <4>7, ClientStep
    <3>3. CASE ~(snapshot # None /\ snapshot.generation = generation /\ snapshot.date = day)
      <4> DEFINE q == [client[c] EXCEPT !.at = "measuring", !.date = day, !.generation = generation]
      <4>1. client' = [client EXCEPT ![c] = q] /\ mutex' = c
        BY <2>0, <2>2, <3>3 DEF Lock, OverviewTypeOK
      <4>2. q \in Client
        BY <1>0, <2>0 DEF Client
      <4>3. /\ q.at = "measuring" /\ q.date = day /\ q.generation = generation
            /\ q.since = client[c].since /\ q.from = client[c].from
        BY <2>0 DEF Client
      <4>4. q.since <= promised /\ q.from <= day /\ q.date >= q.from
        BY <1>0, <3>b, <4>3
      <4>5. q.generation <= generation /\ mutex' \in Clients \cup {None}
        BY <1>0, <4>1, <4>3
      <4>6. q.at \notin {"measured", "answered"}
        BY <4>3
      <4> HIDE DEF q
      <4> QED
        BY <3>1, <3>a, <4>1, <4>2, <4>4, <4>5, <4>6, ClientStep
    <3> QED
      BY <3>2, <3>3
  <2>3. CASE Measure(c)
    <3> DEFINE q == [client[c] EXCEPT !.at = "measured", !.data = stored]
    <3>1. client' = [client EXCEPT ![c] = q] /\ client[c].at = "measuring"
      BY <2>0, <2>3 DEF Measure, OverviewTypeOK
    <3>2. q \in Client
      BY <1>0, <2>0 DEF Client
    <3>3. /\ q.at = "measured" /\ q.date = client[c].date /\ q.generation = client[c].generation
          /\ q.since = client[c].since /\ q.from = client[c].from /\ q.data = stored
      BY <2>0 DEF Client
    <3>4. client[c].since \in Nat /\ stored >= promised /\ stored >= client[c].since
      BY <1>0, <2>0 DEF Client, ClientInv
    <3>5. SnapshotInv'
      BY <2>3 DEF Measure, SnapshotInv
    <3> HIDE DEF q
    <3> QED
      BY <1>0, <2>0, <2>3, <3>1, <3>2, <3>3, <3>4, <3>5, ClientStep DEF Measure, ClientInv
  <2>4. CASE Keep(c)
    <3> DEFINE q == [client[c] EXCEPT !.at = "answered"]
    <3>1. client' = [client EXCEPT ![c] = q] /\ client[c].at = "measured"
      BY <2>0, <2>4 DEF Keep, OverviewTypeOK
    <3>2. q \in Client
      BY <2>0 DEF Client
    <3>3. /\ q.at = "answered" /\ q.date = client[c].date /\ q.generation = client[c].generation
          /\ q.since = client[c].since /\ q.from = client[c].from /\ q.data = client[c].data
      BY <2>0 DEF Client
    <3>4. snapshot' \in Snapshot
      BY <2>0, <2>4 DEF Keep, Snapshot, Client
    <3>5. SnapshotInv'
      BY <2>0, <2>4, <3>1 DEF Keep, SnapshotInv, ClientInv
    <3> HIDE DEF q
    <3> QED
      BY <1>0, <2>0, <2>4, <3>1, <3>2, <3>3, <3>4, <3>5, ClientStep DEF Keep, ClientInv
  <2>5. CASE MeasureFails(c) \/ Answer(c)
    <3>1. client' = [client EXCEPT ![c] = Idle] /\ mutex' \in Clients \cup {None}
      BY <2>0, <2>5 DEF MeasureFails, Answer
    <3>2. SnapshotInv' /\ snapshot' \in Snapshot \cup {None}
      BY <2>0, <2>5 DEF MeasureFails, Answer, SnapshotInv
    <3>3. UNCHANGED <<channel, world, generation, promised>>
      BY <2>5 DEF MeasureFails, Answer
    <3>4. Idle.at = "idle" /\ Idle.since = 0 /\ Idle.from = 0 /\ Idle.generation = 0
      BY DEF Idle
    <3>5. Idle.since <= promised /\ Idle.from <= day /\ Idle.generation <= generation
      BY <1>0, <3>4
    <3>6. Idle.at \notin {"measuring", "measured", "answered"}
      BY <3>4
    <3> HIDE DEF OverviewInv
    <3>7. OverviewInv
      BY DEF OverviewInv
    <3> QED
      BY <3>1, <3>2, <3>3, <3>5, <3>6, <3>7, IdleType, ClientStep
  <2> QED
    BY <1>4, <2>1, <2>2, <2>3, <2>4, <2>5 DEF Snap
<1>5. CASE OverviewReceived
  <2>1. HooksTypeOK'
    BY <1>0, <1>5, OverviewReceiveType DEF OverviewReceived
  <2> QED
    BY <1>0, <1>5, <2>1, OtherStep DEF OverviewReceived, world
<1>6. CASE RefreshOverview
  <2>1. hook' \in [at : Steps, batch : SUBSET Domains]
    BY <1>0, <1>6 DEF RefreshOverview, HooksTypeOK, Steps
  <2> QED
    BY <1>0, <1>6, <2>1, InvalidateStep DEF RefreshOverview, world
<1>7. CASE Refreshed
  <2>1. HooksTypeOK'
    BY <1>0, <1>7 DEF Refreshed, Handled, HooksTypeOK, Steps
  <2> QED
    BY <1>0, <1>7, <2>1, OtherStep DEF Refreshed, world
<1>8. CASE SummaryRefreshed
  <2>1. hook' \in [at : Steps, batch : SUBSET Domains] /\ stale' \in Nat
    BY <1>0, <1>8 DEF SummaryRefreshed, HooksTypeOK, channel
  <2> QED
    BY <1>8, <2>1, InvalidateStep DEF SummaryRefreshed, channel
<1>9. CASE UNCHANGED overviewVars
  <2>1. HooksTypeOK'
    BY <1>0, <1>9 DEF overviewVars, channel, HooksTypeOK
  <2> QED
    BY <1>0, <1>9, <2>1, OtherStep DEF overviewVars, world
<1> QED
  BY <1>1, <1>2, <1>3, <1>4, <1>5, <1>6, <1>7, <1>8, <1>9 DEF OverviewNext

-----------------------------------------------------------------------------

\* The types of the overview's cache, and of the receiver of its hook.
THEOREM OverviewTypeCorrect == OverviewSpec => []OverviewTypeOK
<1>1. OverviewInv => OverviewTypeOK
  BY DEF OverviewInv
<1> QED
  BY <1>1, OverviewInitially, OverviewAlways, PTL DEF OverviewSpec

\* overview_snapshot: a page shows nothing measured before the last
\* invalidation that preceded its request, and no earlier day's baselines.
THEOREM OverviewServedFresh == OverviewSpec => []OverviewFresh
<1>1. OverviewInv => OverviewFresh
  BY DEF OverviewInv, ClientInv, OverviewFresh
<1> QED
  BY <1>1, OverviewInitially, OverviewAlways, PTL DEF OverviewSpec

-----------------------------------------------------------------------------
(* JobProgress: the phases of a job are shown in their order.  The entry    *)
(* follows the job: between them are the samples the blocking work left,   *)
(* in order too, and only the task of a distribution may have moved the    *)
(* entry ahead, to a phase the job itself never enters.                    *)

\* What blocking work reports, and what it is doing meanwhile.
Reported == {"scan_history", "resolve_changes", "count_validation_files", "extract_validation_files"}
AtWork   == {"working", "blocking", "published"}
AtBridge == {"blocking", "published"}

\* The phases of a status in the order of the pipeline, none twice.
Ordered(st) ==
  /\ \A i, j \in 1 .. Len(st.passed) : i < j => Rank[st.passed[i]] < Rank[st.passed[j]]
  /\ st.phase # Nothing => \A i \in 1 .. Len(st.passed) : Rank[st.passed[i]] < Rank[st.phase]

\* What a status has of the phases of a job.
PhasesOf(st) == ToSet(st.passed) \cup {st.phase}

StartInv == startup # "ready" => task.at = "idle" /\ page.at = "closed"

OrderInv ==
  /\ entry # Nothing => Ordered(entry)
  /\ task.at = "ending" => task.copy # Nothing /\ Ordered(task.copy)

SeenInv ==
  /\ entry = Nothing => task.seen = {}
  /\ task.at = "ending" => task.seen \subseteq PhasesOf(task.copy)

\* What is on its way from blocking work to the entry is in order, too.
BridgeInv ==
  /\ task.at \in AtWork => task.phase \in Phase
  /\ task.at \in AtBridge => task.phase \in Reported \cup {"select_inputs"}
  /\ task.at \notin AtBridge => samples = <<>> /\ drained = <<>>
  /\ \A q \in ToSet(samples) \cup ToSet(drained) : q \in Reported /\ Rank[q] <= Rank[task.phase]
  /\ \A i, j \in 1 .. Len(samples) : i < j => Rank[samples[i]] <= Rank[samples[j]]
  /\ \A i, j \in 1 .. Len(drained) : i < j => Rank[drained[i]] <= Rank[drained[j]]
  /\ \A d \in ToSet(drained), q \in ToSet(samples) : Rank[d] <= Rank[q]

\* The entry is not ahead of the job; only the task of a distribution may have
\* moved it from "discover" to "sync".
ChainInv ==
  entry # Nothing /\ task.at \in AtWork =>
    /\ entry.phase # Nothing
    /\ entry.phase = "discover" => task.phase = "discover"
    /\ \/ Rank[entry.phase] <= Rank[task.phase]
       \/ entry.phase = "sync" /\ task.phase = "discover"
    /\ \A q \in ToSet(samples) \cup ToSet(drained) : Rank[entry.phase] <= Rank[q]

ProgressInv ==
  /\ ProgressTypeOK
  /\ StartInv /\ OrderInv /\ SeenInv /\ BridgeInv /\ ChainInv
  /\ PhasesKept /\ PageCurrent

-----------------------------------------------------------------------------

LEMMA PhaseNames ==
  /\ DOMAIN Phases = 1 .. 18
  /\ Phase = {"maintenance", "checkout", "discover", "sync", "commit",
              "clean_selection", "select_inputs", "scan_history", "resolve_changes",
              "check_recovered_downloads", "clean_validation_files",
              "count_validation_files", "extract_validation_files", "clean_results",
              "validate", "version_counts", "summary", "report"}
<1>1. DOMAIN Phases = 1 .. 18
  BY DEF Phases
<1>2. Phase = {Phases[i] : i \in 1 .. 18}
  BY <1>1 DEF Phase, ToSet
<1>3. /\ Phases[1] = "maintenance" /\ Phases[2] = "checkout" /\ Phases[3] = "discover"
      /\ Phases[4] = "sync" /\ Phases[5] = "commit" /\ Phases[6] = "clean_selection"
      /\ Phases[7] = "select_inputs" /\ Phases[8] = "scan_history" /\ Phases[9] = "resolve_changes"
      /\ Phases[10] = "check_recovered_downloads" /\ Phases[11] = "clean_validation_files"
      /\ Phases[12] = "count_validation_files" /\ Phases[13] = "extract_validation_files"
      /\ Phases[14] = "clean_results" /\ Phases[15] = "validate" /\ Phases[16] = "version_counts"
      /\ Phases[17] = "summary" /\ Phases[18] = "report"
  BY DEF Phases
<1> QED
  BY <1>1, <1>2, <1>3

LEMMA Ranks ==
  /\ \A p \in Phase : Rank[p] \in 1 .. 18
  /\ \A p, q \in Phase : Rank[p] = Rank[q] => p = q
<1>1. \A p \in Phase : \E i \in DOMAIN Phases : Phases[i] = p
  BY DEF Phase, ToSet
<1>2. \A p \in Phase : Rank[p] \in DOMAIN Phases /\ Phases[Rank[p]] = p
  BY <1>1 DEF Rank
<1>3. ASSUME NEW p \in Phase, NEW q \in Phase, Rank[p] = Rank[q]
      PROVE  p = q
  BY <1>2, <1>3
<1> QED
  BY <1>2, <1>3, PhaseNames

\* The ranks the proofs need.
LEMMA RankOf ==
  /\ Rank["discover"] = 3 /\ Rank["sync"] = 4 /\ Rank["select_inputs"] = 7
  /\ Rank["scan_history"] = 8 /\ Rank["resolve_changes"] = 9
  /\ Rank["count_validation_files"] = 12 /\ Rank["extract_validation_files"] = 13
<1>1. \A p \in Phase : Rank[p] \in 1 .. 18 /\ Phases[Rank[p]] = p
  <2>1. \A p \in Phase : \E i \in DOMAIN Phases : Phases[i] = p
    BY DEF Phase, ToSet
  <2> QED
    BY <2>1, PhaseNames DEF Rank
<1>2. "discover" \in Phase /\ "sync" \in Phase /\ "select_inputs" \in Phase /\ "scan_history" \in Phase
      /\ "resolve_changes" \in Phase /\ "count_validation_files" \in Phase
      /\ "extract_validation_files" \in Phase
  BY PhaseNames
<1>3. \A i \in 1 .. 18 : /\ Phases[i] = "discover" => i = 3
                         /\ Phases[i] = "sync" => i = 4
                         /\ Phases[i] = "select_inputs" => i = 7
                         /\ Phases[i] = "scan_history" => i = 8
                         /\ Phases[i] = "resolve_changes" => i = 9
                         /\ Phases[i] = "count_validation_files" => i = 12
                         /\ Phases[i] = "extract_validation_files" => i = 13
  BY DEF Phases
<1> QED
  BY <1>1, <1>2, <1>3

LEMMA Reporting ==
  ASSUME NEW p \in Reported \cup {"select_inputs"}, NEW q \in Reports(p)
  PROVE  q \in Reported /\ Rank[p] <= Rank[q]
BY RankOf DEF Reported, Reports

LEMMA ReportedPhases ==
  Reported \cup {"select_inputs"} \subseteq Phase /\ "discover" \notin Reported \cup {"select_inputs"}
BY PhaseNames DEF Reported

-----------------------------------------------------------------------------

LEMMA Elements ==
  ASSUME NEW S, NEW s \in Seq(S)
  PROVE  /\ Len(s) \in Nat /\ DOMAIN s = 1 .. Len(s)
         /\ ToSet(s) = {s[i] : i \in 1 .. Len(s)} /\ ToSet(s) \subseteq S
         /\ \A i \in 1 .. Len(s) : s[i] \in ToSet(s)
         /\ s = <<>> => ToSet(s) = {}
<1>1. Len(s) \in Nat /\ DOMAIN s = 1 .. Len(s)
  BY LenProperties
<1>2. \A i \in 1 .. Len(s) : s[i] \in S
  BY ElementOfSeq
<1> QED
  BY <1>1, <1>2 DEF ToSet

LEMMA PhaseAppended ==
  ASSUME NEW s \in Seq(Phase), NEW p \in Phase
  PROVE  /\ Append(s, p) \in Seq(Phase) /\ Len(Append(s, p)) = Len(s) + 1
         /\ Append(s, p)[Len(s) + 1] = p
         /\ \A i \in 1 .. Len(s) : Append(s, p)[i] = s[i]
         /\ ToSet(Append(s, p)) = ToSet(s) \cup {p}
<1>1. /\ Append(s, p) \in Seq(Phase) /\ Len(Append(s, p)) = Len(s) + 1
      /\ Append(s, p)[Len(s) + 1] = p
      /\ \A i \in 1 .. Len(s) : Append(s, p)[i] = s[i]
  BY AppendProperties, LenProperties
<1>2. PICK t : t = Append(s, p)
  OBVIOUS
<1>3. /\ ToSet(t) = {t[i] : i \in 1 .. Len(t)}
      /\ ToSet(s) = {s[i] : i \in 1 .. Len(s)} /\ Len(s) \in Nat
  <2>1. t \in Seq(Phase)
    BY <1>1, <1>2
  <2>2. ToSet(t) = {t[i] : i \in 1 .. Len(t)}
    BY <2>1, Elements
  <2> QED
    BY <2>2, Elements
<1>4. \A i \in 1 .. Len(t) : i \in 1 .. Len(s) \/ i = Len(s) + 1
  BY <1>1, <1>2, <1>3
<1>5. 1 .. Len(s) \subseteq 1 .. Len(t) /\ Len(s) + 1 \in 1 .. Len(t)
  BY <1>1, <1>2, <1>3
<1>6. ToSet(t) \subseteq ToSet(s) \cup {p}
  BY <1>1, <1>2, <1>3, <1>4
<1>7. ToSet(s) \cup {p} \subseteq ToSet(t)
  BY <1>1, <1>2, <1>3, <1>5
<1> QED
  BY <1>1, <1>2, <1>6, <1>7

\* A later phase follows those in order.
LEMMA OrderAppended ==
  ASSUME NEW s \in Seq(Phase), NEW p \in Phase,
         \A i, j \in 1 .. Len(s) : i < j => Rank[s[i]] < Rank[s[j]],
         \A i \in 1 .. Len(s) : Rank[s[i]] < Rank[p]
  PROVE  \A i, j \in 1 .. Len(Append(s, p)) : i < j => Rank[Append(s, p)[i]] < Rank[Append(s, p)[j]]
<1>1. PICK t : t = Append(s, p)
  OBVIOUS
<1>2. Len(t) = Len(s) + 1 /\ t[Len(s) + 1] = p /\ \A i \in 1 .. Len(s) : t[i] = s[i]
  BY <1>1, PhaseAppended
<1>3. Len(s) \in Nat
  BY LenProperties
<1>4. ASSUME NEW i \in 1 .. Len(t), NEW j \in 1 .. Len(t), i < j
      PROVE  Rank[t[i]] < Rank[t[j]]
  <2>1. i \in 1 .. Len(s)
    BY <1>2, <1>3, <1>4
  <2>2. CASE j \in 1 .. Len(s)
    BY <1>2, <1>4, <2>1, <2>2
  <2>3. CASE j = Len(s) + 1
    BY <1>2, <2>1, <2>3
  <2> QED
    BY <1>2, <1>3, <2>2, <2>3
<1> QED
  BY <1>1, <1>4

LEMMA StatusType ==
  ASSUME NEW st \in Status
  PROVE  /\ st # Nothing
         /\ st.phase \in Phase \cup {Nothing} /\ st.passed \in Seq(Phase)
         /\ st.status \in {"running", "completed", "failed"}
         /\ st.completed_at \in Times /\ st.last_completed_at \in Times
BY NothingAssumption DEF Status

\* What becomes of a status whose job moves on to p.
LEMMA InPhaseKeeps ==
  ASSUME NEW st \in Status, NEW p \in Phase, Ordered(st),
         st.phase # Nothing, Rank[st.phase] <= Rank[p]
  PROVE  /\ InPhase(st, p) \in Status /\ Ordered(InPhase(st, p))
         /\ InPhase(st, p).phase = p
         /\ PhasesOf(st) \cup {p} \subseteq PhasesOf(InPhase(st, p))
<1>1. st # Nothing /\ st.phase \in Phase /\ st.passed \in Seq(Phase) /\ p # Nothing
  BY StatusType, NothingAssumption
<1>2. CASE st.phase = p
  BY <1>1, <1>2 DEF InPhase, PhasesOf
<1>3. CASE st.phase # p
  <2>1. PICK u : u = [st EXCEPT !.phase = p, !.passed = Append(st.passed, st.phase)]
    OBVIOUS
  <2>2. InPhase(st, p) = u
    BY <1>1, <1>3, <2>1 DEF InPhase
  <2>3. st.phase \in Phase
    BY <1>1, <1>3
  <2>4. Append(st.passed, st.phase) \in Seq(Phase) /\ ToSet(Append(st.passed, st.phase)) = ToSet(st.passed) \cup {st.phase}
    BY <1>1, <2>3, PhaseAppended
  <2>5. u \in Status /\ u.phase = p /\ u.passed = Append(st.passed, st.phase)
    BY <2>1, <2>4 DEF Status
  <2>6. Rank[st.phase] < Rank[p] /\ Rank[p] \in Int /\ Rank[st.phase] \in Int
    BY <1>3, <2>3, Ranks
  <2>7. \A i \in 1 .. Len(st.passed) : Rank[st.passed[i]] < Rank[st.phase]
    BY <1>3 DEF Ordered
  <2>8. \A i \in 1 .. Len(st.passed) : Rank[st.passed[i]] \in Int
    BY <1>1, ElementOfSeq, Ranks
  <2>9. Ordered(u)
    <3>1. \A i, j \in 1 .. Len(u.passed) : i < j => Rank[u.passed[i]] < Rank[u.passed[j]]
      BY <1>1, <2>3, <2>5, <2>7, OrderAppended DEF Ordered
    <3>2. ASSUME NEW i \in 1 .. Len(u.passed) PROVE Rank[u.passed[i]] < Rank[p]
      <4>1. Len(st.passed) \in Nat /\ Len(u.passed) = Len(st.passed) + 1
        BY <1>1, <2>3, <2>5, PhaseAppended, LenProperties
      <4>2. CASE i = Len(st.passed) + 1
        BY <1>1, <2>3, <2>5, <2>6, <4>2, PhaseAppended
      <4>3. CASE i \in 1 .. Len(st.passed)
        <5>1. u.passed[i] = st.passed[i]
          BY <1>1, <2>3, <2>5, <4>3, PhaseAppended
        <5> QED
          BY <2>6, <2>7, <2>8, <4>3, <5>1
      <4> QED
        BY <4>1, <4>2, <4>3
    <3> QED
      BY <2>5, <3>1, <3>2 DEF Ordered
  <2> QED
    BY <2>2, <2>4, <2>5, <2>9 DEF PhasesOf
<1> QED
  BY <1>2, <1>3

\* What the end of a job makes of its entry.
LEMMA EndingKeeps ==
  ASSUME entry \in Status \cup {Nothing}, runs \in Nat, entry # Nothing => Ordered(entry),
         NEW status \in {"completed", "failed"}
  PROVE  /\ Ending(status) \in Status /\ Ordered(Ending(status))
         /\ entry # Nothing => PhasesOf(entry) \subseteq PhasesOf(Ending(status)) \cup {Nothing}
<1>1. PICK found : found = IF entry = Nothing THEN [Fresh(Nothing, Nothing) EXCEPT !.status = status]
                           ELSE [entry EXCEPT !.status = status]
  OBVIOUS
<1>2. PICK ended : ended = [found EXCEPT !.completed_at = runs + 1]
  OBVIOUS
<1>3. Ending(status) = IF status = "failed" \/ ended.phase = Nothing THEN ended
                       ELSE [ended EXCEPT !.phase = Nothing, !.passed = Append(@, found.phase)]
  BY <1>1, <1>2 DEF Ending
<1>4. /\ found \in Status /\ Ordered(found)
      /\ entry # Nothing => PhasesOf(found) = PhasesOf(entry)
  <2>1. CASE entry = Nothing
    <3>1. /\ found = [status |-> status, phase |-> Nothing, passed |-> <<>>,
                      completed_at |-> Nothing, last_completed_at |-> Nothing]
      BY <1>1, <2>1 DEF Fresh
    <3>2. <<>> \in Seq(Phase) /\ Nothing \in Times /\ Len(<<>>) = 0
      BY DEF Times
    <3> QED
      BY <2>1, <3>1, <3>2 DEF Status, Ordered
  <2>2. CASE entry # Nothing
    <3>1. found \in Status /\ found.phase = entry.phase /\ found.passed = entry.passed
      BY <1>1, <2>2 DEF Status
    <3> QED
      BY <2>2, <3>1 DEF Ordered, PhasesOf
  <2> QED
    BY <2>1, <2>2
<1>5. /\ ended \in Status /\ Ordered(ended) /\ PhasesOf(ended) = PhasesOf(found)
      /\ ended.phase = found.phase /\ ended.passed = found.passed
  <2>1. runs + 1 \in Times
    BY DEF Times
  <2>2. ended \in Status /\ ended.phase = found.phase /\ ended.passed = found.passed
    BY <1>2, <1>4, <2>1 DEF Status
  <2> QED
    BY <1>4, <2>2 DEF Ordered, PhasesOf
<1>6. CASE status = "failed" \/ ended.phase = Nothing
  BY <1>3, <1>4, <1>5, <1>6
<1>7. CASE ~(status = "failed" \/ ended.phase = Nothing)
  <2>1. ended.phase \in Phase /\ ended.passed \in Seq(Phase)
    BY <1>5, <1>7, StatusType
  <2>2. PICK u : u = [ended EXCEPT !.phase = Nothing, !.passed = Append(ended.passed, ended.phase)]
    OBVIOUS
  <2>3. Ending(status) = u
    BY <1>3, <1>5, <1>7, <2>2
  <2>4. Append(ended.passed, ended.phase) \in Seq(Phase)
        /\ ToSet(Append(ended.passed, ended.phase)) = ToSet(ended.passed) \cup {ended.phase}
    BY <2>1, PhaseAppended
  <2>5. u \in Status /\ u.phase = Nothing /\ u.passed = Append(ended.passed, ended.phase)
    BY <1>5, <2>2, <2>4 DEF Status
  <2>6. Ordered(u)
    BY <1>5, <1>7, <2>1, <2>5, OrderAppended DEF Ordered
  <2> QED
    BY <1>4, <1>5, <2>3, <2>4, <2>5, <2>6 DEF PhasesOf
<1> QED
  BY <1>6, <1>7

\* A phase recorded again or in front of it: what was recorded stays in order.
LEMMA RecordKeeps ==
  ASSUME NEW s \in Seq(Phase), NEW p \in Phase, NEW t,
         (t = s /\ p \in ToSet(s)) \/ t = Append(s, p),
         \A i, j \in 1 .. Len(s) : i < j => Rank[s[i]] <= Rank[s[j]],
         \A q \in ToSet(s) : Rank[q] <= Rank[p]
  PROVE  /\ t \in Seq(Phase) /\ ToSet(t) = ToSet(s) \cup {p}
         /\ \A i, j \in 1 .. Len(t) : i < j => Rank[t[i]] <= Rank[t[j]]
<1>0. Len(s) \in Nat /\ \A i \in 1 .. Len(s) : s[i] \in ToSet(s)
  BY Elements
<1>1. CASE t = s /\ p \in ToSet(s)
  BY <1>1
<1>2. CASE t = Append(s, p)
  <2>1. /\ t \in Seq(Phase) /\ ToSet(t) = ToSet(s) \cup {p}
        /\ Len(t) = Len(s) + 1 /\ t[Len(s) + 1] = p
        /\ \A i \in 1 .. Len(s) : t[i] = s[i]
    BY <1>2, PhaseAppended
  <2>2. ASSUME NEW i \in 1 .. Len(t), NEW j \in 1 .. Len(t), i < j PROVE Rank[t[i]] <= Rank[t[j]]
    <3>1. i \in 1 .. Len(s)
      BY <1>0, <2>1, <2>2
    <3>2. CASE j \in 1 .. Len(s)
      BY <2>1, <2>2, <3>1, <3>2
    <3>3. CASE j = Len(s) + 1
      BY <1>0, <2>1, <3>1, <3>3
    <3> QED
      BY <1>0, <2>1, <3>2, <3>3
  <2> QED
    BY <2>1, <2>2
<1> QED
  BY <1>1, <1>2

LEMMA TailKeeps ==
  ASSUME NEW s \in Seq(Phase), s # <<>>,
         \A i, j \in 1 .. Len(s) : i < j => Rank[s[i]] <= Rank[s[j]]
  PROVE  /\ Head(s) \in Phase /\ Tail(s) \in Seq(Phase)
         /\ ToSet(s) = {Head(s)} \cup ToSet(Tail(s))
         /\ \A i, j \in 1 .. Len(Tail(s)) : i < j => Rank[Tail(s)[i]] <= Rank[Tail(s)[j]]
         /\ \A q \in ToSet(Tail(s)) : Rank[Head(s)] <= Rank[q]
<1>0. PICK h, t : h = Head(s) /\ t = Tail(s)
  OBVIOUS
<1>1. /\ Len(s) \in Nat /\ Len(s) >= 1 /\ ToSet(s) = {s[i] : i \in 1 .. Len(s)}
      /\ \A i \in 1 .. Len(s) : s[i] \in ToSet(s) /\ s[i] \in Phase
  BY Elements, EmptySeq, ElementOfSeq
<1>2. /\ h = s[1] /\ t \in Seq(Phase) /\ Len(t) = Len(s) - 1
      /\ \A i \in 1 .. Len(t) : t[i] = s[i + 1]
  BY <1>0, <1>1, HeadTailProperties
<1>3. ToSet(t) = {t[i] : i \in 1 .. Len(t)}
  BY <1>2, Elements
<1>4. ToSet(s) \subseteq {h} \cup ToSet(t)
  <2>1. ASSUME NEW i \in 1 .. Len(s) PROVE s[i] \in {h} \cup ToSet(t)
    <3>1. CASE i = 1
      BY <1>2, <3>1
    <3>2. CASE i # 1
      <4>1. i - 1 \in 1 .. Len(t) /\ (i - 1) + 1 = i
        BY <1>1, <1>2, <3>2
      <4>2. t[i - 1] = s[i]
        BY <1>2, <4>1
      <4> QED
        BY <1>3, <4>1, <4>2
    <3> QED
      BY <3>1, <3>2
  <2> QED
    BY <1>1, <2>1
<1>5. \A i \in 1 .. Len(t) : i + 1 \in 1 .. Len(s) /\ 1 < i + 1
  BY <1>1, <1>2
<1>6. {h} \cup ToSet(t) \subseteq ToSet(s)
  BY <1>1, <1>2, <1>3, <1>5
<1>7. \A i, j \in 1 .. Len(t) : i < j => Rank[t[i]] <= Rank[t[j]]
  <2>1. ASSUME NEW i \in 1 .. Len(t), NEW j \in 1 .. Len(t), i < j PROVE Rank[t[i]] <= Rank[t[j]]
    <3>1. PICK k, l : k = i + 1 /\ l = j + 1
      OBVIOUS
    <3>2. k \in 1 .. Len(s) /\ l \in 1 .. Len(s) /\ k < l
      BY <1>1, <1>2, <2>1, <3>1
    <3>3. t[i] = s[k] /\ t[j] = s[l]
      BY <1>2, <3>1
    <3> QED
      BY <3>2, <3>3
  <2> QED
    BY <2>1
<1>8. \A i \in 1 .. Len(t) : Rank[h] <= Rank[t[i]]
  <2>1. ASSUME NEW i \in 1 .. Len(t) PROVE Rank[h] <= Rank[t[i]]
    <3>1. PICK k : k = i + 1
      OBVIOUS
    <3>2. k \in 1 .. Len(s) /\ 1 \in 1 .. Len(s) /\ 1 < k
      BY <1>1, <1>2, <2>1, <3>1
    <3> QED
      BY <1>2, <3>1, <3>2
  <2> QED
    BY <2>1
<1>9. /\ h \in Phase /\ t \in Seq(Phase) /\ ToSet(s) = {h} \cup ToSet(t)
      /\ \A i, j \in 1 .. Len(t) : i < j => Rank[t[i]] <= Rank[t[j]]
      /\ \A q \in ToSet(t) : Rank[h] <= Rank[q]
  BY <1>1, <1>2, <1>3, <1>4, <1>6, <1>7, <1>8
<1> QED
  BY <1>0, <1>9

-----------------------------------------------------------------------------

LEMMA PageKeeps ==
  ASSUME page \in [at : {"closed", "sending", "waiting"}, current : BOOLEAN], NEW x, NEW y,
         page' = [page EXCEPT !.current = @ /\ x = y]
  PROVE  page' \in [at : {"closed", "sending", "waiting"}, current : BOOLEAN] /\ page'.at = page.at
OBVIOUS

\* A write is announced, so that no page need show it yet.
LEMMA WroteKeeps ==
  ASSUME ProgressTypeOK, NEW w \in {"job", "spawned"}, NEW st, Wrote(w, st)
  PROVE  /\ entry' = st
         /\ page' \in [at : {"closed", "sending", "waiting"}, current : BOOLEAN] /\ page'.at = page.at
         /\ writers' \subseteq {"job", "spawned"}
         /\ PageCurrent'
<1>1. /\ entry' = st /\ writers' = writers \cup {w}
      /\ page' = [page EXCEPT !.current = @ /\ st = entry]
  BY DEF Wrote
<1>2. page \in [at : {"closed", "sending", "waiting"}, current : BOOLEAN] /\ writers \subseteq {"job", "spawned"}
  BY DEF ProgressTypeOK
<1>3. page' \in [at : {"closed", "sending", "waiting"}, current : BOOLEAN] /\ page'.at = page.at
  BY <1>1, <1>2, PageKeeps
<1>4. writers' # {}
  BY <1>1
<1> QED
  BY <1>1, <1>2, <1>3, <1>4 DEF PageCurrent

LEMMA ProgressInitially == ProgressInit => ProgressInv
<1> SUFFICES ASSUME ProgressInit PROVE ProgressInv
  OBVIOUS
<1>1. <<>> \in Seq(Phase) /\ Len(<<>>) = 0 /\ ToSet(<<>>) = {}
  BY DEF ToSet
<1>2. NoTask \in Task
  BY DEF NoTask, Task, Times
<1>3. ProgressTypeOK
  BY <1>1, <1>2 DEF ProgressInit, ProgressTypeOK
<1>4. BridgeInv
  BY <1>1 DEF ProgressInit, BridgeInv, NoTask, AtWork, AtBridge
<1>5. OrderInv /\ SeenInv /\ ChainInv /\ PhasesKept
  BY DEF ProgressInit, OrderInv, SeenInv, ChainInv, PhasesKept, NoTask
<1>6. StartInv /\ PageCurrent
  BY DEF ProgressInit, StartInv, PageCurrent, NoTask
<1> QED
  BY <1>3, <1>4, <1>5, <1>6 DEF ProgressInv

\* Who neither writes the entry nor does the job's work.
LEMMA JobUnchanged ==
  ASSUME ProgressInv, UNCHANGED <<entry, task, bridge>>
  PROVE  OrderInv' /\ SeenInv' /\ BridgeInv' /\ ChainInv' /\ PhasesKept'
<1>1. UNCHANGED <<entry, task, samples, drained>>
  BY DEF bridge
<1>2. OrderInv' /\ SeenInv'
  BY <1>1 DEF ProgressInv, OrderInv, SeenInv
<1>3. BridgeInv' /\ ChainInv' /\ PhasesKept'
  BY <1>1 DEF ProgressInv, BridgeInv, ChainInv, PhasesKept
<1> QED
  BY <1>2, <1>3

LEMMA PagesKeep ==
  ASSUME ProgressInv, Page \/ \E w \in {"job", "spawned"} : Notify(w)
  PROVE  ProgressInv'
<1>1. /\ ProgressTypeOK /\ StartInv /\ PageCurrent
      /\ page \in [at : {"closed", "sending", "waiting"}, current : BOOLEAN]
  BY DEF ProgressInv, ProgressTypeOK
<1>2. /\ UNCHANGED <<startup, entry, runs, task, spawned, removal, bridge>>
      /\ page' \in [at : {"closed", "sending", "waiting"}, current : BOOLEAN]
      /\ writers' \subseteq {"job", "spawned"} /\ changed' \in BOOLEAN
      /\ PageCurrent' /\ StartInv'
  <2>1. CASE Open
    BY <1>1, <2>1 DEF Open, ProgressTypeOK, PageCurrent, StartInv, Ready
  <2>2. CASE SendState
    BY <1>1, <2>2 DEF SendState, ProgressTypeOK, PageCurrent, StartInv
  <2>3. CASE Changed
    BY <1>1, <2>3 DEF Changed, ProgressTypeOK, PageCurrent, StartInv
  <2>4. CASE Heartbeat
    BY <1>1, <2>4 DEF Heartbeat, ProgressTypeOK, PageCurrent, StartInv
  <2>5. CASE Close
    BY <1>1, <2>5 DEF Close, ProgressTypeOK, PageCurrent, StartInv
  <2>6. ASSUME NEW w \in {"job", "spawned"}, Notify(w)
        PROVE  /\ UNCHANGED <<startup, entry, runs, task, spawned, removal, bridge>>
               /\ page' \in [at : {"closed", "sending", "waiting"}, current : BOOLEAN]
               /\ writers' \subseteq {"job", "spawned"} /\ changed' \in BOOLEAN
               /\ PageCurrent' /\ StartInv'
    BY <1>1, <2>6 DEF Notify, ProgressTypeOK, PageCurrent, StartInv
  <2> QED
    BY <2>1, <2>2, <2>3, <2>4, <2>5, <2>6 DEF Page
<1>3. OrderInv' /\ SeenInv' /\ BridgeInv' /\ ChainInv' /\ PhasesKept'
  BY <1>2, JobUnchanged
<1>4. ProgressTypeOK'
  BY <1>1, <1>2 DEF ProgressTypeOK, bridge
<1> QED
  BY <1>2, <1>3, <1>4 DEF ProgressInv

LEMMA StartupKeeps ==
  ASSUME ProgressInv, Startup
  PROVE  ProgressInv'
<1>1. /\ ProgressTypeOK /\ StartInv /\ PageCurrent
      /\ page \in [at : {"closed", "sending", "waiting"}, current : BOOLEAN]
  BY DEF ProgressInv, ProgressTypeOK
<1>2. ASSUME NEW from, NEW to \in {"jobs", "ready"}, from # "ready", StartupStep(from, to) PROVE ProgressInv'
  <2>1. /\ UNCHANGED <<entry, task, bridge>> /\ startup # "ready"
        /\ UNCHANGED <<runs, spawned, removal, samples, drained, writers, changed, page>>
        /\ startup' = to
    BY <1>2 DEF StartupStep, bridge, viewer
  <2>2. OrderInv' /\ SeenInv' /\ BridgeInv' /\ ChainInv' /\ PhasesKept'
    BY <2>1, JobUnchanged
  <2>3. ProgressTypeOK' /\ StartInv' /\ PageCurrent'
    BY <1>1, <2>1 DEF ProgressTypeOK, StartInv, PageCurrent
  <2> QED
    BY <2>2, <2>3 DEF ProgressInv
<1>3. CASE RestoreJobs
  <2>1. /\ startup = "jobs" /\ startup' = "points" /\ task.at = "idle" /\ page.at = "closed"
        /\ UNCHANGED <<runs, task, spawned, removal, samples, drained, writers, changed>>
    BY <1>1, <1>3 DEF RestoreJobs, StartInv, bridge
  <2>2. page' \in [at : {"closed", "sending", "waiting"}, current : BOOLEAN] /\ page'.at = "closed"
    BY <1>1, <1>3, <2>1, PageKeeps DEF RestoreJobs
  <2>3. entry' \in Status \cup {Nothing} /\ (entry' # Nothing => Ordered(entry') \/ entry' = entry)
    <3>1. CASE entry' = entry
      BY <1>1, <3>1 DEF ProgressTypeOK
    <3>2. CASE entry' = [status |-> "completed", phase |-> Nothing, passed |-> <<>>,
                         completed_at |-> 0, last_completed_at |-> 0]
      <4>1. PICK e : e = entry'
        OBVIOUS
      <4>2. e \in Status
        BY <3>2, <4>1 DEF Status, Times
      <4>3. e.passed = <<>> /\ e.phase = Nothing /\ Len(<<>>) = 0
        BY <3>2, <4>1
      <4>4. Ordered(e)
        BY <4>3 DEF Ordered
      <4> QED
        BY <4>1, <4>2, <4>4
    <3> QED
      BY <1>3, <3>1, <3>2 DEF RestoreJobs
  <2>4. ProgressTypeOK' /\ StartInv' /\ PageCurrent'
    BY <1>1, <2>1, <2>2, <2>3 DEF ProgressTypeOK, StartInv, PageCurrent
  <2>5. entry' # Nothing => Ordered(entry')
    BY <2>3 DEF ProgressInv, OrderInv
  <2>6. OrderInv' /\ BridgeInv'
    BY <2>1, <2>5 DEF ProgressInv, OrderInv, BridgeInv, Ordered
  <2>7. entry' = Nothing => entry = Nothing
    <3>1. 0 # Nothing
      BY ProgressAssumption
    <3>2. [status |-> "completed", phase |-> Nothing, passed |-> <<>>,
           completed_at |-> 0, last_completed_at |-> 0] \in Status
      BY DEF Status, Times
    <3> QED
      BY <1>3, <3>2, NothingAssumption DEF RestoreJobs
  <2>8. SeenInv' /\ ChainInv' /\ PhasesKept'
    BY <2>1, <2>7 DEF ProgressInv, SeenInv, ChainInv, PhasesKept, AtWork
  <2> QED
    BY <2>4, <2>6, <2>8 DEF ProgressInv
<1> QED
  BY <1>2, <1>3 DEF Startup

\* A provider that is deleted, and the task of a distribution that waits.
LEMMA OthersKeep ==
  ASSUME ProgressInv, Spawn \/ BeginRemoval
  PROVE  ProgressInv'
<1>1. /\ UNCHANGED <<entry, task, bridge>>
      /\ UNCHANGED <<startup, runs, samples, drained, writers, changed, page>>
      /\ spawned' \in BOOLEAN /\ removal' \in BOOLEAN
  BY DEF ProgressInv, ProgressTypeOK, Spawn, BeginRemoval, bridge, viewer
<1>2. OrderInv' /\ SeenInv' /\ BridgeInv' /\ ChainInv' /\ PhasesKept'
  BY <1>1, JobUnchanged
<1>3. ProgressTypeOK' /\ StartInv' /\ PageCurrent'
  BY <1>1 DEF ProgressInv, ProgressTypeOK, StartInv, PageCurrent
<1> QED
  BY <1>2, <1>3 DEF ProgressInv

LEMMA RemoveKeeps ==
  ASSUME ProgressInv, RemoveJob
  PROVE  ProgressInv'
<1>1. /\ entry' = Nothing /\ task' = [task EXCEPT !.seen = {}] /\ removal' = FALSE
      /\ page' = [page EXCEPT !.current = @ /\ entry = Nothing]
      /\ UNCHANGED <<startup, runs, spawned, samples, drained, writers, changed>>
  BY DEF RemoveJob, bridge
<1>2. page' \in [at : {"closed", "sending", "waiting"}, current : BOOLEAN] /\ page'.at = page.at
  BY <1>1, PageKeeps DEF ProgressInv, ProgressTypeOK
<1>3. /\ task' \in Task /\ task'.at = task.at /\ task'.phase = task.phase /\ task'.copy = task.copy
      /\ task'.seen = {}
  BY <1>1 DEF ProgressInv, ProgressTypeOK, Task
<1>4. ProgressTypeOK' /\ StartInv' /\ PageCurrent'
  BY <1>1, <1>2, <1>3 DEF ProgressInv, ProgressTypeOK, StartInv, PageCurrent
<1>5. OrderInv' /\ SeenInv' /\ ChainInv' /\ PhasesKept'
  BY <1>1, <1>3 DEF ProgressInv, OrderInv, SeenInv, ChainInv, PhasesKept
<1>6. BridgeInv'
  BY <1>1, <1>3 DEF ProgressInv, BridgeInv
<1> QED
  BY <1>4, <1>5, <1>6 DEF ProgressInv

-----------------------------------------------------------------------------

\* What the invariant says of the job, by name.
LEMMA TaskType ==
  ASSUME task \in Task
  PROVE  /\ task.at \in {"idle", "starting", "working", "blocking", "published", "ending", "ended"}
         /\ task.kind \in {"sync", "revalidate"} /\ task.phase \in Phase \cup {Nothing}
         /\ task.last \in Times /\ task.copy \in Status \cup {Nothing} /\ task.seen \in SUBSET Phase
BY DEF Task

LEMMA RunKeeps ==
  ASSUME ProgressInv, NEW kind \in {"sync", "revalidate"}, RunJob(kind)
  PROVE  ProgressInv'
<1>1. /\ startup = "ready" /\ task.at = "idle"
      /\ UNCHANGED <<startup, entry, runs, spawned, removal, samples, drained, writers, changed, page>>
      /\ task' = [NoTask EXCEPT !.at = "starting", !.kind = kind,
                    !.last = IF entry = Nothing THEN Nothing ELSE entry.completed_at]
  BY DEF RunJob, Ready, bridge, viewer
<1>2. (IF entry = Nothing THEN Nothing ELSE entry.completed_at) \in Times
  BY StatusType DEF ProgressInv, ProgressTypeOK, Times
<1>3. task' \in Task /\ task'.at = "starting" /\ task'.seen = {}
  BY <1>1, <1>2 DEF NoTask, Task
<1>4. ProgressTypeOK' /\ StartInv' /\ PageCurrent'
  BY <1>1, <1>3 DEF ProgressInv, ProgressTypeOK, StartInv, PageCurrent
<1>5. OrderInv' /\ SeenInv' /\ ChainInv' /\ PhasesKept'
  BY <1>1, <1>3 DEF ProgressInv, OrderInv, SeenInv, ChainInv, PhasesKept, AtWork
<1>6. samples = <<>> /\ drained = <<>> /\ Len(<<>>) = 0 /\ ToSet(<<>>) = {}
  BY <1>1 DEF ProgressInv, BridgeInv, AtBridge, ToSet
<1>7. BridgeInv'
  BY <1>1, <1>3, <1>6 DEF BridgeInv, AtWork, AtBridge
<1> QED
  BY <1>4, <1>5, <1>7 DEF ProgressInv

LEMMA BeginKeeps ==
  ASSUME ProgressInv, Begin
  PROVE  ProgressInv'
<1>1. PICK first : first = IF task.kind = "sync" THEN "maintenance" ELSE "checkout"
  OBVIOUS
<1>2. /\ task.at = "starting" /\ Wrote("job", Fresh(first, task.last))
      /\ task' = [task EXCEPT !.at = "working", !.phase = first, !.seen = {first}]
      /\ UNCHANGED <<startup, runs, spawned, removal, samples, drained, changed>>
  BY <1>1 DEF Begin, bridge
<1>3. ProgressTypeOK /\ task \in Task
  BY DEF ProgressInv, ProgressTypeOK
<1>4. first \in Phase /\ first # "discover"
  BY <1>1, PhaseNames
<1>5. PICK st : st = Fresh(first, task.last)
  OBVIOUS
<1>6. st \in Status /\ st.phase = first /\ st.passed = <<>> /\ st # Nothing
  <2>1. task.last \in Times /\ <<>> \in Seq(Phase) /\ Nothing \in Times
    BY <1>3, TaskType DEF Times
  <2>2. st \in Status /\ st.phase = first /\ st.passed = <<>>
    BY <1>4, <1>5, <2>1 DEF Fresh, Status
  <2> QED
    BY <2>2, StatusType
<1>7. /\ entry' = st /\ PageCurrent' /\ page'.at = page.at
      /\ page' \in [at : {"closed", "sending", "waiting"}, current : BOOLEAN]
      /\ writers' \subseteq {"job", "spawned"}
  BY <1>2, <1>3, <1>5, WroteKeeps
<1>8. task' \in Task /\ task'.at = "working" /\ task'.phase = first /\ task'.seen = {first}
  BY <1>2, <1>3, <1>4 DEF Task
<1>9. samples = <<>> /\ drained = <<>> /\ Len(<<>>) = 0 /\ ToSet(<<>>) = {}
  BY <1>2 DEF ProgressInv, BridgeInv, AtBridge, ToSet
<1>10. ProgressTypeOK'
  BY <1>2, <1>3, <1>6, <1>7, <1>8 DEF ProgressTypeOK
<1>11. StartInv'
  BY <1>2, <1>7 DEF ProgressInv, StartInv
<1>12. OrderInv'
  BY <1>6, <1>7, <1>8, <1>9 DEF OrderInv, Ordered
<1>13. SeenInv' /\ PhasesKept'
  BY <1>6, <1>7, <1>8 DEF SeenInv, PhasesKept
<1>14. BridgeInv'
  BY <1>2, <1>4, <1>8, <1>9 DEF BridgeInv, AtWork, AtBridge
<1>15. Rank[first] <= Rank[first]
  BY <1>4, Ranks
<1>16. ChainInv'
  BY <1>2, <1>4, <1>6, <1>7, <1>8, <1>9, <1>15, NothingAssumption DEF ChainInv
<1> QED
  BY <1>7, <1>10, <1>11, <1>12, <1>13, <1>14, <1>16 DEF ProgressInv

\* A phase that may be next comes after the one the job is in; the pipeline
\* itself never enters "sync".
LEMMA NextIsLater ==
  ASSUME NEW p \in NextPhases
  PROVE  p \in Phase /\ Rank[p] > Rank[task.phase] /\ p # "sync"
BY DEF NextPhases, Foreign

LEMMA EnterKeeps ==
  ASSUME ProgressInv, NEW p \in Phase, Enter(p)
  PROVE  ProgressInv'
<1>1. /\ task.at = "working" /\ p \in NextPhases /\ Wrote("job", InPhase(entry, p))
      /\ task' = [task EXCEPT !.at = IF p \in Blocking THEN "blocking" ELSE "working",
                    !.phase = p, !.seen = Seen(p)]
      /\ UNCHANGED <<startup, runs, spawned, removal, samples, drained, changed>>
  BY DEF Enter, bridge
<1>2. ProgressTypeOK /\ task \in Task /\ entry \in Status \cup {Nothing}
  BY DEF ProgressInv, ProgressTypeOK
<1>3. PICK st : st = InPhase(entry, p)
  OBVIOUS
<1>4. /\ entry' = st /\ PageCurrent' /\ page'.at = page.at
      /\ page' \in [at : {"closed", "sending", "waiting"}, current : BOOLEAN]
      /\ writers' \subseteq {"job", "spawned"}
  BY <1>1, <1>2, <1>3, WroteKeeps
<1>5. samples = <<>> /\ drained = <<>> /\ Len(<<>>) = 0 /\ ToSet(<<>>) = {}
  BY <1>1 DEF ProgressInv, BridgeInv, AtBridge, ToSet
<1>6. task.phase \in Phase /\ Rank[p] > Rank[task.phase] /\ p # "sync"
      /\ Rank[p] \in Int /\ Rank[task.phase] \in Int
  BY <1>1, NextIsLater, Ranks DEF ProgressInv, BridgeInv, AtWork
<1>7. CASE entry = Nothing
  <2>1. st = Nothing /\ task.seen = {}
    BY <1>3, <1>7 DEF InPhase, ProgressInv, SeenInv
  <2>2. /\ task' \in Task /\ task'.at \in {"working", "blocking"} /\ task'.phase = p /\ task'.seen = {}
        /\ task'.at = "blocking" <=> p \in Blocking
    BY <1>1, <1>2, <1>7, <2>1 DEF Task, Seen
  <2>3. ProgressTypeOK' /\ StartInv'
    BY <1>1, <1>2, <1>4, <2>1, <2>2 DEF ProgressInv, ProgressTypeOK, StartInv
  <2>4. OrderInv' /\ SeenInv' /\ ChainInv' /\ PhasesKept'
    BY <1>4, <2>1, <2>2 DEF OrderInv, SeenInv, ChainInv, PhasesKept
  <2>5. BridgeInv'
    BY <1>1, <1>5, <2>2 DEF BridgeInv, AtWork, AtBridge, Blocking, Reported
  <2> QED
    BY <1>4, <2>3, <2>4, <2>5 DEF ProgressInv
<1>8. CASE entry # Nothing
  <2>1. entry \in Status /\ Ordered(entry) /\ entry.phase # Nothing /\ entry.phase \in Phase
    BY <1>1, <1>2, <1>8, StatusType DEF ProgressInv, OrderInv, ChainInv, AtWork
  <2>2. Rank[entry.phase] <= Rank[p]
    <3>1. CASE Rank[entry.phase] <= Rank[task.phase]
      BY <1>6, <2>1, <3>1, Ranks
    <3>2. CASE entry.phase = "sync" /\ task.phase = "discover"
      <4>1. Rank[entry.phase] = 4 /\ Rank[task.phase] = 3
        BY <3>2, RankOf
      <4> QED
        BY <1>6, <4>1
    <3> QED
      BY <1>1, <1>8, <3>1, <3>2 DEF ProgressInv, ChainInv, AtWork
  <2>3. /\ st \in Status /\ Ordered(st) /\ st.phase = p
        /\ PhasesOf(entry) \cup {p} \subseteq PhasesOf(st)
    BY <1>3, <2>1, <2>2, InPhaseKeeps
  <2>4. task.seen \subseteq PhasesOf(entry)
    BY <1>1, <1>5, <1>8 DEF ProgressInv, PhasesKept, PhasesOf
  <2>5. /\ task' \in Task /\ task'.at \in {"working", "blocking"} /\ task'.phase = p
        /\ task'.seen = task.seen \cup {p}
        /\ task'.at = "blocking" <=> p \in Blocking
    BY <1>1, <1>2, <1>8 DEF Task, Seen
  <2>6. st # Nothing /\ p # Nothing
    BY <2>3, NothingAssumption
  <2>7. ProgressTypeOK' /\ StartInv'
    BY <1>1, <1>2, <1>4, <2>3, <2>5 DEF ProgressInv, ProgressTypeOK, StartInv
  <2>8. OrderInv'
    BY <1>4, <2>3, <2>5 DEF OrderInv, Ordered
  <2>9. SeenInv' /\ PhasesKept'
    BY <1>4, <2>3, <2>4, <2>5, <2>6 DEF SeenInv, PhasesKept, PhasesOf
  <2>10. BridgeInv'
    BY <1>1, <1>5, <2>5 DEF BridgeInv, AtWork, AtBridge, Blocking, Reported
  <2>11. ChainInv'
    BY <1>1, <1>4, <1>5, <1>6, <2>3, <2>5, <2>6 DEF ChainInv
  <2> QED
    BY <1>4, <2>7, <2>8, <2>9, <2>10, <2>11 DEF ProgressInv
<1> QED
  BY <1>7, <1>8

\* A task that is late finds the job elsewhere, and leaves it there.
LEMMA DistributionKeeps ==
  ASSUME ProgressInv, StartDistribution
  PROVE  ProgressInv'
<1>1. PICK st : st = IF entry # Nothing /\ entry.phase = "discover" THEN InPhase(entry, "sync") ELSE entry
  OBVIOUS
<1>2. /\ Wrote("spawned", st) /\ spawned' = FALSE
      /\ UNCHANGED <<startup, runs, task, removal, samples, drained, changed>>
  BY <1>1 DEF StartDistribution, bridge
<1>3. ProgressTypeOK /\ entry \in Status \cup {Nothing}
  BY DEF ProgressInv, ProgressTypeOK
<1>4. /\ entry' = st /\ PageCurrent' /\ page'.at = page.at
      /\ page' \in [at : {"closed", "sending", "waiting"}, current : BOOLEAN]
      /\ writers' \subseteq {"job", "spawned"}
  BY <1>2, <1>3, WroteKeeps
<1>5. StartInv' /\ BridgeInv'
  BY <1>2, <1>4 DEF ProgressInv, StartInv, BridgeInv
<1>6. CASE ~(entry # Nothing /\ entry.phase = "discover")
  <2>1. entry' = entry
    BY <1>1, <1>4, <1>6
  <2>2. ProgressTypeOK' /\ OrderInv' /\ SeenInv'
    BY <1>2, <1>4, <2>1 DEF ProgressInv, ProgressTypeOK, OrderInv, SeenInv
  <2>3. ChainInv' /\ PhasesKept'
    BY <1>2, <2>1 DEF ProgressInv, ChainInv, PhasesKept
  <2> QED
    BY <1>4, <1>5, <2>2, <2>3 DEF ProgressInv
<1>7. CASE entry # Nothing /\ entry.phase = "discover"
  <2>1. entry \in Status /\ Ordered(entry) /\ "sync" \in Phase /\ "discover" \in Phase
    BY <1>3, <1>7, PhaseNames DEF ProgressInv, OrderInv
  <2>2. "discover" # Nothing /\ Rank["discover"] <= Rank["sync"]
    BY <2>1, RankOf, NothingAssumption
  <2>3. /\ st \in Status /\ Ordered(st) /\ st.phase = "sync"
        /\ PhasesOf(entry) \cup {"sync"} \subseteq PhasesOf(st)
    BY <1>1, <1>7, <2>1, <2>2, InPhaseKeeps
  <2>4. st # Nothing /\ "sync" # Nothing
    BY <2>1, <2>3, NothingAssumption
  <2>5. ProgressTypeOK'
    BY <1>2, <1>3, <1>4, <2>3 DEF ProgressTypeOK
  <2>6. OrderInv' /\ SeenInv' /\ PhasesKept'
    BY <1>2, <1>4, <1>7, <2>3, <2>4 DEF ProgressInv, OrderInv, SeenInv, PhasesKept, PhasesOf, Ordered
  <2>7. ASSUME task.at \in AtWork
        PROVE  task.phase = "discover" /\ ToSet(samples) \cup ToSet(drained) = {}
    <3>1. task.phase = "discover"
      BY <1>7, <2>7 DEF ProgressInv, ChainInv
    <3>2. task.at \notin AtBridge
      BY <3>1, ReportedPhases DEF ProgressInv, BridgeInv
    <3> QED
      BY <3>1, <3>2 DEF ProgressInv, BridgeInv, ToSet
  <2>8. ChainInv'
    BY <1>2, <1>4, <2>3, <2>4, <2>7 DEF ChainInv
  <2> QED
    BY <1>4, <1>5, <2>5, <2>6, <2>8 DEF ProgressInv
<1> QED
  BY <1>6, <1>7

-----------------------------------------------------------------------------

LEMMA ReportKeeps ==
  ASSUME ProgressInv, NEW p \in Phase, Report(p)
  PROVE  ProgressInv'
<1>1. /\ task.at = "blocking" /\ p \in Reports(task.phase)
      /\ samples' = IF samples # <<>> /\ Last(samples) = p THEN samples ELSE Append(samples, p)
      /\ task' = [task EXCEPT !.phase = p, !.seen = Seen(p)]
      /\ UNCHANGED <<startup, entry, runs, spawned, removal, drained, writers, changed, page>>
  BY DEF Report, Record, viewer
<1>2. ProgressTypeOK /\ task \in Task /\ samples \in Seq(Phase) /\ drained \in Seq(Phase)
  BY DEF ProgressInv, ProgressTypeOK
<1>3. task.phase \in Reported \cup {"select_inputs"} /\ task.phase \in Phase /\ task.phase # "discover"
  BY <1>1, ReportedPhases DEF ProgressInv, BridgeInv, AtBridge
<1>4. p \in Reported /\ Rank[task.phase] <= Rank[p] /\ Rank[p] \in Int /\ Rank[task.phase] \in Int
      /\ p # "discover" /\ p # Nothing
  BY <1>1, <1>3, Reporting, ReportedPhases, Ranks, NothingAssumption
<1>5. ToSet(samples) \subseteq Phase /\ ToSet(drained) \subseteq Phase
  BY <1>2, Elements
<1>6. \A q \in ToSet(samples) \cup ToSet(drained) : Rank[q] <= Rank[p] /\ q \in Reported
  BY <1>4, <1>5, Ranks DEF ProgressInv, BridgeInv
<1>7. PICK t : t = samples'
  OBVIOUS
<1>8. /\ t \in Seq(Phase) /\ ToSet(t) = ToSet(samples) \cup {p}
      /\ \A i, j \in 1 .. Len(t) : i < j => Rank[t[i]] <= Rank[t[j]]
  <2>1. \A i, j \in 1 .. Len(samples) : i < j => Rank[samples[i]] <= Rank[samples[j]]
    BY DEF ProgressInv, BridgeInv
  <2>2. \A q \in ToSet(samples) : Rank[q] <= Rank[p]
    BY <1>6
  <2>3. PICK s : s = samples
    OBVIOUS
  <2>4. /\ s \in Seq(Phase) /\ ((t = s /\ p \in ToSet(s)) \/ t = Append(s, p))
        /\ \A i, j \in 1 .. Len(s) : i < j => Rank[s[i]] <= Rank[s[j]]
        /\ \A q \in ToSet(s) : Rank[q] <= Rank[p]
    <3>1. s # <<>> => Last(s) \in ToSet(s)
      <4>1. s \in Seq(Phase) /\ Len(s) \in Nat /\ (s # <<>> => Len(s) # 0)
        BY <1>2, <2>3, LenProperties, EmptySeq
      <4> QED
        BY <4>1, Elements DEF Last
    <3> QED
      BY <1>1, <1>2, <1>7, <2>1, <2>2, <2>3, <3>1
  <2>5. /\ t \in Seq(Phase) /\ ToSet(t) = ToSet(s) \cup {p}
        /\ \A i, j \in 1 .. Len(t) : i < j => Rank[t[i]] <= Rank[t[j]]
    BY <2>4, RecordKeeps
  <2> QED
    BY <2>3, <2>5
<1>9. /\ task' \in Task /\ task'.at = "blocking" /\ task'.phase = p
      /\ task'.seen = IF entry = Nothing THEN task.seen ELSE task.seen \cup {p}
  BY <1>1, <1>2 DEF Task, Seen
<1>10. ProgressTypeOK' /\ StartInv' /\ PageCurrent'
  BY <1>1, <1>2, <1>7, <1>8, <1>9 DEF ProgressInv, ProgressTypeOK, StartInv, PageCurrent
<1>11. OrderInv' /\ SeenInv'
  BY <1>1, <1>9 DEF ProgressInv, OrderInv, SeenInv
<1>12. PhasesKept'
  BY <1>1, <1>7, <1>8, <1>9 DEF ProgressInv, PhasesKept
<1>13. BridgeInv'
  <2>1. \A q \in ToSet(t) \cup ToSet(drained) : q \in Reported /\ Rank[q] <= Rank[p]
    BY <1>4, <1>6, <1>8
  <2>2. \A d \in ToSet(drained), q \in ToSet(t) : Rank[d] <= Rank[q]
    BY <1>6, <1>8 DEF ProgressInv, BridgeInv
  <2>3. \A i, j \in 1 .. Len(drained) : i < j => Rank[drained[i]] <= Rank[drained[j]]
    BY DEF ProgressInv, BridgeInv
  <2> QED
    BY <1>1, <1>4, <1>7, <1>8, <1>9, <2>1, <2>2, <2>3 DEF BridgeInv, AtBridge
<1>14. ChainInv'
  <2>1. ASSUME entry # Nothing
        PROVE  /\ entry.phase # Nothing /\ entry.phase \in Phase /\ entry.phase # "discover"
               /\ Rank[entry.phase] <= Rank[task.phase]
               /\ \A q \in ToSet(samples) \cup ToSet(drained) : Rank[entry.phase] <= Rank[q]
    BY <1>1, <1>2, <1>3, <2>1, StatusType DEF ProgressInv, ProgressTypeOK, ChainInv, AtWork
  <2>2. ASSUME entry # Nothing PROVE Rank[entry.phase] <= Rank[p]
    BY <1>4, <2>1, <2>2, Ranks
  <2> QED
    BY <1>1, <1>7, <1>8, <1>9, <2>1, <2>2 DEF ChainInv
<1> QED
  BY <1>10, <1>11, <1>12, <1>13, <1>14 DEF ProgressInv

LEMMA DrainKeeps ==
  ASSUME ProgressInv, Drain
  PROVE  ProgressInv'
<1>1. /\ task.at \in AtBridge /\ drained = <<>> /\ drained' = samples /\ samples' = <<>>
      /\ UNCHANGED <<startup, entry, runs, task, spawned, removal, writers, changed, page>>
  BY DEF Drain, viewer, AtBridge
<1>2. <<>> \in Seq(Phase) /\ Len(<<>>) = 0 /\ ToSet(<<>>) = {}
  BY DEF ToSet
<1>3. ProgressTypeOK' /\ StartInv' /\ PageCurrent'
  BY <1>1, <1>2 DEF ProgressInv, ProgressTypeOK, StartInv, PageCurrent
<1>4. OrderInv' /\ SeenInv'
  BY <1>1 DEF ProgressInv, OrderInv, SeenInv
<1>5. PhasesKept'
  BY <1>1, <1>2 DEF ProgressInv, PhasesKept
<1>6. ChainInv'
  BY <1>1, <1>2 DEF ProgressInv, ChainInv
<1>7. BridgeInv'
  BY <1>1, <1>2 DEF ProgressInv, BridgeInv
<1> QED
  BY <1>3, <1>4, <1>5, <1>6, <1>7 DEF ProgressInv

LEMMA PublishKeeps ==
  ASSUME ProgressInv, Publish
  PROVE  ProgressInv'
<1>1. PICK st, h, t : st = InPhase(entry, Head(drained)) /\ h = Head(drained) /\ t = Tail(drained)
  OBVIOUS
<1>2. /\ drained # <<>> /\ Wrote("job", st) /\ drained' = t
      /\ UNCHANGED <<startup, runs, task, spawned, removal, samples, changed>>
  BY <1>1 DEF Publish
<1>3. ProgressTypeOK /\ entry \in Status \cup {Nothing} /\ drained \in Seq(Phase)
  BY DEF ProgressInv, ProgressTypeOK
<1>4. /\ entry' = st /\ PageCurrent' /\ page'.at = page.at
      /\ page' \in [at : {"closed", "sending", "waiting"}, current : BOOLEAN]
      /\ writers' \subseteq {"job", "spawned"}
  BY <1>2, <1>3, WroteKeeps
<1>5. /\ h \in Phase /\ t \in Seq(Phase) /\ ToSet(drained) = {h} \cup ToSet(t)
      /\ \A i, j \in 1 .. Len(t) : i < j => Rank[t[i]] <= Rank[t[j]]
      /\ \A q \in ToSet(t) : Rank[h] <= Rank[q]
  <2>1. \A i, j \in 1 .. Len(drained) : i < j => Rank[drained[i]] <= Rank[drained[j]]
    BY DEF ProgressInv, BridgeInv
  <2>2. /\ Head(drained) \in Phase /\ Tail(drained) \in Seq(Phase)
        /\ ToSet(drained) = {Head(drained)} \cup ToSet(Tail(drained))
        /\ \A i, j \in 1 .. Len(Tail(drained)) : i < j => Rank[Tail(drained)[i]] <= Rank[Tail(drained)[j]]
        /\ \A q \in ToSet(Tail(drained)) : Rank[Head(drained)] <= Rank[q]
    BY <1>2, <1>3, <2>1, TailKeeps
  <2> QED
    BY <1>1, <2>2
<1>6. task.at \in AtBridge /\ task.at \in AtWork /\ task.phase # "discover"
  BY <1>2, ReportedPhases DEF ProgressInv, BridgeInv, AtBridge, AtWork
<1>7. /\ h \in Reported /\ h # "discover" /\ h # Nothing /\ Rank[h] <= Rank[task.phase]
      /\ \A q \in ToSet(samples) : Rank[h] <= Rank[q]
  BY <1>5, ReportedPhases, NothingAssumption DEF ProgressInv, BridgeInv
<1>8. BridgeInv'
  BY <1>2, <1>5, <1>6 DEF ProgressInv, BridgeInv
<1>9. StartInv'
  BY <1>2, <1>4 DEF ProgressInv, StartInv
<1>10. CASE entry = Nothing
  <2>1. st = Nothing
    BY <1>1, <1>10 DEF InPhase
  <2>2. ProgressTypeOK'
    BY <1>2, <1>3, <1>4, <1>5, <2>1 DEF ProgressTypeOK
  <2>3. OrderInv' /\ SeenInv' /\ ChainInv' /\ PhasesKept'
    BY <1>2, <1>4, <1>6, <1>10, <2>1 DEF ProgressInv, OrderInv, SeenInv, ChainInv, PhasesKept
  <2> QED
    BY <1>4, <1>8, <1>9, <2>2, <2>3 DEF ProgressInv
<1>11. CASE entry # Nothing
  <2>1. entry \in Status /\ Ordered(entry) /\ entry.phase # Nothing /\ Rank[entry.phase] <= Rank[h]
    BY <1>3, <1>5, <1>6, <1>11 DEF ProgressInv, OrderInv, ChainInv
  <2>2. /\ st \in Status /\ Ordered(st) /\ st.phase = h /\ PhasesOf(entry) \cup {h} \subseteq PhasesOf(st)
    BY <1>1, <1>5, <2>1, InPhaseKeeps
  <2>3. st # Nothing
    BY <2>2, StatusType
  <2>4. ProgressTypeOK'
    BY <1>2, <1>3, <1>4, <1>5, <2>2 DEF ProgressTypeOK
  <2>5. OrderInv' /\ SeenInv'
    BY <1>2, <1>4, <1>6, <2>2, <2>3 DEF ProgressInv, OrderInv, SeenInv, AtBridge, Ordered
  <2>6. PhasesKept'
    <3>1. task.seen \subseteq PhasesOf(entry) \cup ToSet(samples) \cup ToSet(drained)
      BY <1>6, <1>11 DEF ProgressInv, PhasesKept, PhasesOf, AtBridge
    <3>2. task.seen \subseteq PhasesOf(st) \cup ToSet(samples) \cup ToSet(t)
      BY <1>5, <2>2, <3>1
    <3> QED
      BY <1>2, <1>4, <3>2 DEF PhasesKept, PhasesOf
  <2>7. ChainInv'
    BY <1>2, <1>4, <1>5, <1>7, <2>2 DEF ChainInv
  <2> QED
    BY <1>4, <1>8, <1>9, <2>4, <2>5, <2>6, <2>7 DEF ProgressInv
<1> QED
  BY <1>10, <1>11

\* The blocking work is over; then what it reported is published.
LEMMA BridgeEndsKeeps ==
  ASSUME ProgressInv, WorkDone \/ Published
  PROVE  ProgressInv'
<1>1. /\ UNCHANGED <<startup, entry, runs, spawned, removal, samples, drained, writers, changed, page>>
      /\ task.at \in AtBridge
      /\ \/ task' = [task EXCEPT !.at = "published"]
         \/ task' = [task EXCEPT !.at = "working"] /\ samples = <<>> /\ drained = <<>>
  BY DEF WorkDone, Published, bridge, viewer, AtBridge
<1>2. /\ task' \in Task /\ task'.phase = task.phase /\ task'.seen = task.seen
      /\ \/ task'.at = "published"
         \/ task'.at = "working" /\ samples = <<>> /\ drained = <<>>
  BY <1>1 DEF ProgressInv, ProgressTypeOK, Task
<1>3. ProgressTypeOK' /\ StartInv' /\ PageCurrent'
  BY <1>1, <1>2 DEF ProgressInv, ProgressTypeOK, StartInv, PageCurrent, AtBridge
<1>4. OrderInv' /\ SeenInv' /\ PhasesKept'
  BY <1>1, <1>2 DEF ProgressInv, OrderInv, SeenInv, PhasesKept, AtBridge
<1>5. BridgeInv' /\ ChainInv'
  BY <1>1, <1>2 DEF ProgressInv, BridgeInv, ChainInv, AtWork, AtBridge
<1> QED
  BY <1>3, <1>4, <1>5 DEF ProgressInv

-----------------------------------------------------------------------------

LEMMA GetKeeps ==
  ASSUME ProgressInv, GetJob
  PROVE  ProgressInv'
<1>1. PICK status \in {"completed", "failed"} :
        /\ task.at = "working" /\ runs' = runs + 1
        /\ task' = [task EXCEPT !.at = "ending", !.copy = Ending(status)]
        /\ UNCHANGED <<startup, entry, spawned, removal, samples, drained, writers, changed, page>>
  BY DEF GetJob, bridge, viewer
<1>2. task \in Task /\ entry \in Status \cup {Nothing} /\ runs \in Nat /\ (entry # Nothing => Ordered(entry))
  BY DEF ProgressInv, ProgressTypeOK, OrderInv
<1>3. PICK st : st = Ending(status)
  OBVIOUS
<1>4. /\ st \in Status /\ Ordered(st)
      /\ entry # Nothing => PhasesOf(entry) \subseteq PhasesOf(st) \cup {Nothing}
  BY <1>2, <1>3, EndingKeeps
<1>5. task' \in Task /\ task'.at = "ending" /\ task'.copy = st /\ task'.seen = task.seen /\ st # Nothing
  BY <1>1, <1>2, <1>3, <1>4, StatusType DEF Task
<1>6. samples = <<>> /\ drained = <<>> /\ ToSet(<<>>) = {}
  BY <1>1 DEF ProgressInv, BridgeInv, AtBridge, ToSet
<1>7. task.seen \subseteq PhasesOf(st)
  <2>1. CASE entry = Nothing
    BY <2>1 DEF ProgressInv, SeenInv
  <2>2. CASE entry # Nothing
    <3>1. task.seen \subseteq PhasesOf(entry)
      BY <1>1, <1>6, <2>2 DEF ProgressInv, PhasesKept, PhasesOf
    <3>2. Nothing \notin task.seen
      BY <1>2, TaskType, NothingAssumption
    <3> QED
      BY <1>4, <2>2, <3>1, <3>2
  <2> QED
    BY <2>1, <2>2
<1>8. ProgressTypeOK' /\ StartInv' /\ PageCurrent'
  BY <1>1, <1>5 DEF ProgressInv, ProgressTypeOK, StartInv, PageCurrent
<1>9. OrderInv' /\ SeenInv' /\ PhasesKept' /\ ChainInv'
  BY <1>1, <1>4, <1>5, <1>7 DEF ProgressInv, OrderInv, SeenInv, PhasesKept, ChainInv, AtWork, PhasesOf, Ordered
<1>10. BridgeInv'
  BY <1>1, <1>5, <1>6 DEF ProgressInv, BridgeInv, AtWork, AtBridge
<1> QED
  BY <1>8, <1>9, <1>10 DEF ProgressInv

LEMMA UpdateKeeps ==
  ASSUME ProgressInv, UpdateJob
  PROVE  ProgressInv'
<1>1. /\ task.at = "ending" /\ Wrote("job", task.copy)
      /\ task' = [task EXCEPT !.at = "ended", !.copy = Nothing]
      /\ UNCHANGED <<startup, runs, spawned, removal, samples, drained, changed>>
  BY DEF UpdateJob, bridge
<1>2. /\ ProgressTypeOK /\ task \in Task /\ task.copy # Nothing /\ Ordered(task.copy)
      /\ task.copy \in Status /\ task.seen \subseteq PhasesOf(task.copy)
  BY <1>1, TaskType DEF ProgressInv, ProgressTypeOK, OrderInv, SeenInv
<1>3. /\ entry' = task.copy /\ PageCurrent' /\ page'.at = page.at
      /\ page' \in [at : {"closed", "sending", "waiting"}, current : BOOLEAN]
      /\ writers' \subseteq {"job", "spawned"}
  BY <1>1, <1>2, WroteKeeps
<1>4. task' \in Task /\ task'.at = "ended" /\ task'.seen = task.seen
  BY <1>1, <1>2 DEF Task
<1>5. ProgressTypeOK' /\ StartInv'
  BY <1>1, <1>2, <1>3, <1>4 DEF ProgressInv, ProgressTypeOK, StartInv
<1>6. OrderInv' /\ SeenInv' /\ PhasesKept' /\ ChainInv'
  BY <1>1, <1>2, <1>3, <1>4 DEF OrderInv, SeenInv, PhasesKept, ChainInv, AtWork, PhasesOf, Ordered
<1>7. samples = <<>> /\ drained = <<>> /\ ToSet(<<>>) = {}
  BY <1>1 DEF ProgressInv, BridgeInv, AtBridge, ToSet
<1>8. BridgeInv'
  BY <1>1, <1>4, <1>7 DEF ProgressInv, BridgeInv, AtWork, AtBridge
<1> QED
  BY <1>3, <1>5, <1>6, <1>8 DEF ProgressInv

LEMMA EndsKeeps ==
  ASSUME ProgressInv, JobEnds
  PROVE  ProgressInv'
<1>1. /\ task.at = "ended" /\ task' = NoTask
      /\ UNCHANGED <<startup, entry, runs, spawned, removal, samples, drained, writers, changed, page>>
  BY DEF JobEnds, bridge, viewer
<1>2. NoTask \in Task /\ NoTask.at = "idle" /\ NoTask.seen = {}
  BY DEF NoTask, Task, Times
<1>3. ProgressTypeOK' /\ StartInv' /\ PageCurrent'
  BY <1>1, <1>2 DEF ProgressInv, ProgressTypeOK, StartInv, PageCurrent
<1>4. OrderInv' /\ SeenInv' /\ PhasesKept' /\ ChainInv'
  BY <1>1, <1>2 DEF ProgressInv, OrderInv, SeenInv, PhasesKept, ChainInv, AtWork
<1>5. samples = <<>> /\ drained = <<>> /\ ToSet(<<>>) = {}
  BY <1>1 DEF ProgressInv, BridgeInv, AtBridge, ToSet
<1>6. BridgeInv'
  BY <1>1, <1>2, <1>5 DEF ProgressInv, BridgeInv, AtWork, AtBridge
<1> QED
  BY <1>3, <1>4, <1>6 DEF ProgressInv

LEMMA ProgressAlways == ProgressInv /\ [ProgressNext]_progressVars => ProgressInv'
<1> SUFFICES ASSUME ProgressInv, [ProgressNext]_progressVars PROVE ProgressInv'
  OBVIOUS
<1>1. CASE Run
  BY <1>1, RunKeeps, BeginKeeps, EnterKeeps, OthersKeep, DistributionKeeps, GetKeeps, UpdateKeeps,
     EndsKeeps DEF Run
<1>2. CASE Bridge
  BY <1>2, ReportKeeps, DrainKeeps, PublishKeeps, BridgeEndsKeeps DEF Bridge
<1>3. CASE UNCHANGED progressVars
  <2>1. /\ UNCHANGED <<entry, task, bridge>>
        /\ UNCHANGED <<startup, runs, spawned, removal, samples, drained, writers, changed, page>>
    BY <1>3 DEF progressVars, bridge, viewer
  <2>2. OrderInv' /\ SeenInv' /\ BridgeInv' /\ ChainInv' /\ PhasesKept'
    BY <2>1, JobUnchanged
  <2>3. ProgressTypeOK' /\ StartInv' /\ PageCurrent'
    BY <2>1 DEF ProgressInv, ProgressTypeOK, StartInv, PageCurrent
  <2> QED
    BY <2>2, <2>3 DEF ProgressInv
<1> QED
  BY <1>1, <1>2, <1>3, StartupKeeps, PagesKeep, OthersKeep, RemoveKeeps DEF ProgressNext

\* Whatever a status has passed, with the phase it is in, is in the pipeline's order.
LEMMA OrderShown ==
  ASSUME entry \in Status \cup {Nothing}, entry # Nothing => Ordered(entry)
  PROVE  PhasesInOrder
<1> SUFFICES ASSUME entry # Nothing
             PROVE  LET all == IF entry.phase = Nothing THEN entry.passed
                               ELSE Append(entry.passed, entry.phase) IN
                    \A i, j \in DOMAIN all : i < j => Rank[all[i]] < Rank[all[j]]
  BY DEF PhasesInOrder
<1>1. entry \in Status /\ Ordered(entry) /\ entry.passed \in Seq(Phase)
      /\ entry.phase \in Phase \cup {Nothing}
  BY StatusType
<1>2. PICK all : all = IF entry.phase = Nothing THEN entry.passed ELSE Append(entry.passed, entry.phase)
  OBVIOUS
<1>3. all \in Seq(Phase) /\ \A i, j \in 1 .. Len(all) : i < j => Rank[all[i]] < Rank[all[j]]
  <2>1. CASE entry.phase = Nothing
    BY <1>1, <1>2, <2>1 DEF Ordered
  <2>2. CASE entry.phase # Nothing
    BY <1>1, <1>2, <2>2, OrderAppended, PhaseAppended DEF Ordered
  <2> QED
    BY <2>1, <2>2
<1>4. DOMAIN all = 1 .. Len(all)
  BY <1>3, LenProperties
<1> QED
  BY <1>2, <1>3, <1>4

LEMMA ProgressInvShown == ProgressInv => ProgressTypeOK /\ PhasesTrue /\ PageCurrent
BY OrderShown DEF ProgressInv, ProgressTypeOK, OrderInv, PhasesTrue

\* The phases shown of a job (JobStatus of main.rs) are those it went through, in
\* the order of the pipeline, whatever a late task, the blocking work, a
\* deletion and the end of the job write into the entry.
THEOREM PhasesAlwaysTrue == ProgressSpec => [](ProgressTypeOK /\ PhasesTrue)
BY ProgressInvShown, ProgressInitially, ProgressAlways, PTL DEF ProgressSpec

\* A page on the WebSocket of api/sync.rs that waits with no notification on its
\* way shows the entry as it is.
THEOREM PageAlwaysCurrent == ProgressSpec => []PageCurrent
BY ProgressInvShown, ProgressInitially, ProgressAlways, PTL DEF ProgressSpec

-----------------------------------------------------------------------------
(* The three together: they share the events of the jobs and no other      *)
(* state, so that the invariant of each survives a step of the others.     *)

ServingInv ==
  /\ CachesInv /\ OverviewInv /\ ProgressInv
  /\ IF view = "providers" THEN SearchInv ELSE search = None

\* The events are of no concern to the index.
LEMMA IndexBesideOthers ==
  ASSUME CachesInv, HooksTypeOK', UNCHANGED <<store, work, caches>>
  PROVE  CachesInv'
<1>1. CachesTypeOK'
  BY DEF CachesInv, CachesTypeOK, store, work, caches
<1>2. ASSUME NEW d \in Domains PROVE Agrees(d)'
  BY DEF CachesInv, Agrees, FileInv, IndexInv, ReadInv, Pending, store, work, caches
<1> QED
  BY <1>1, <1>2 DEF CachesInv

\* Nor to the overview.
LEMMA OverviewBesideOthers ==
  ASSUME OverviewInv, HooksTypeOK', UNCHANGED <<world, overview>>
  PROVE  OverviewInv'
BY DEF OverviewInv, OverviewTypeOK, SnapshotInv, ClientInv, world, overview

LEMMA ServingInitially == Init => ServingInv
<1> SUFFICES ASSUME Init PROVE ServingInv
  OBVIOUS
<1>1. CachesInit /\ OverviewInit /\ ProgressInit
  BY DEF Init
<1>2. search = None
  BY <1>1 DEF CachesInit
<1> QED
  BY <1>1, <1>2, CachesInitially, OverviewInitially, ProgressInitially, InitSearch DEF ServingInv

LEMMA ServingKeeps == ServingInv /\ [Next]_allVars => ServingInv'
<1> SUFFICES ASSUME ServingInv, [Next]_allVars PROVE ServingInv'
  OBVIOUS
<1>0. /\ CachesInv /\ OverviewInv /\ ProgressInv
      /\ IF view = "providers" THEN SearchInv ELSE search = None
  BY DEF ServingInv
<1>1. CASE Providers(CachesNext)
  <2>1. view = "providers" /\ view' = view /\ CachesNext /\ UNCHANGED <<world, overview, progressVars>>
    BY <1>1 DEF Providers
  <2>2. CachesInv' /\ SearchInv'
    BY <1>0, <2>1, CachesAlways, NextSearch DEF CachesInv
  <2>3. OverviewInv'
    BY <1>0, <2>1, <2>2, OverviewBesideOthers DEF CachesInv, CachesTypeOK
  <2>4. ProgressInv'
    BY <1>0, <2>1, ProgressAlways
  <2> QED
    BY <2>1, <2>2, <2>3, <2>4 DEF ServingInv
<1>2. CASE view = "overview" /\ OverviewNext /\ UNCHANGED <<view, store, work, caches, progressVars>>
  <2>1. OverviewInv'
    BY <1>0, <1>2, OverviewAlways
  <2>2. CachesInv'
    BY <1>0, <1>2, <2>1, IndexBesideOthers DEF OverviewInv, OverviewTypeOK
  <2>3. ProgressInv' /\ search' = None
    BY <1>0, <1>2, ProgressAlways DEF caches
  <2> QED
    BY <1>2, <2>1, <2>2, <2>3 DEF ServingInv
<1>3. CASE view = "progress" /\ ProgressNext /\ UNCHANGED <<view, vars, world, overview>>
  <2>1. ProgressInv'
    BY <1>0, <1>3, ProgressAlways
  <2>2. CachesInv'
    BY <1>0, <1>3, CachesAlways
  <2>3. OverviewInv'
    BY <1>0, <1>3, OverviewAlways DEF overviewVars, vars
  <2>4. search' = None
    BY <1>0, <1>3 DEF vars, caches
  <2> QED
    BY <1>3, <2>1, <2>2, <2>3, <2>4 DEF ServingInv
<1>4. CASE UNCHANGED allVars
  <2>1. UNCHANGED <<view, vars, world, overview, progressVars>>
    BY <1>4 DEF allVars
  <2>2. CachesInv' /\ ProgressInv' /\ (view = "providers" => SearchInv')
    BY <1>0, <2>1, CachesAlways, ProgressAlways, NextSearch DEF CachesInv
  <2>3. OverviewInv'
    BY <1>0, <2>1, OverviewAlways DEF overviewVars, vars
  <2>4. search' = search
    BY <2>1 DEF vars, caches
  <2> QED
    BY <1>0, <2>1, <2>2, <2>3, <2>4 DEF ServingInv
<1> QED
  BY <1>1, <1>2, <1>3, <1>4 DEF Next

\* What the server answers of its jobs is right in each of its views, beside the
\* other ones: types, the index and the searches, the overview, a job's phases
\* and the pages that follow it (storage/provider_summary.rs, overview.rs and
\* jobs.rs).
THEOREM ServingAlwaysTrue ==
  Spec => [](TypeOK /\ IndexCurrent /\ SearchFresh /\ OverviewFresh /\ PhasesTrue /\ PageCurrent)
<1>1. ServingInv =>
        TypeOK /\ IndexCurrent /\ SearchFresh /\ OverviewFresh /\ PhasesTrue /\ PageCurrent
  <2> SUFFICES ASSUME ServingInv
               PROVE  TypeOK /\ IndexCurrent /\ SearchFresh /\ OverviewFresh /\ PhasesTrue /\ PageCurrent
    OBVIOUS
  <2>1. CachesInv /\ OverviewInv /\ ProgressInv
    BY DEF ServingInv
  <2>2. SearchFresh
    <3>1. CASE view = "providers"
      BY <2>1, <3>1, SearchInvFresh DEF ServingInv, CachesInv
    <3>2. CASE view # "providers"
      BY <3>2 DEF ServingInv, SearchFresh
    <3> QED
      BY <3>1, <3>2
  <2>3. IndexCurrent
    BY <2>1, IndexInvCurrent
  <2>4. OverviewFresh
    BY <2>1 DEF OverviewInv, ClientInv, OverviewFresh
  <2>5. PhasesTrue /\ PageCurrent /\ ProgressTypeOK
    BY <2>1, ProgressInvShown
  <2> QED
    BY <2>1, <2>2, <2>3, <2>4, <2>5 DEF TypeOK, CachesInv, OverviewInv
<1> QED
  BY <1>1, ServingInitially, ServingKeeps, PTL DEF Spec

=============================================================================
