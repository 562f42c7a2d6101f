---------------------------- MODULE SummaryCaches ----------------------------
(***************************************************************************)
(* The index of the providers' summaries and the cache of CVE searches     *)
(* (storage/cache.rs, storage/mod.rs), while jobs, refreshes of old        *)
(* summaries and deletions change what they are made of, and the hook      *)
(* "provider_caches".                                                      *)
(*                                                                         *)
(* A version of a provider's documents is the number of jobs that changed  *)
(* them; a summary is the version it was built from.  rows is what an open *)
(* connection reads: it outlives the deletion of the file.                 *)
(***************************************************************************)
EXTENDS Hooks, FiniteSets

CONSTANTS
  Torn,      \* a summary.json that is being written, or was not finished
  MaxMoves   \* bound: refreshes and deletions that are begun

ASSUME TornAssumption ==
  /\ Torn # None /\ Torn \notin Int
  /\ MaxMoves \in Nat

VARIABLES
  rows,      \* version of the documents in each provider's database
  finished,  \* rows when the provider's last job ended
  files      \* summary.json of each provider

VARIABLES
  job,       \* step of what holds each provider's lock: a job or a refresh
  deletion,  \* step of the delete handler for each provider
  moves,     \* refreshes and deletions begun
  beside     \* providers deleted beside a job, not reloaded since

VARIABLES
  index,     \* SummaryIndex: summaries by provider, None until loaded
  writer,    \* who holds the index's lock for writing, and what it has read
  search,    \* the cached result of a CVE search
  query      \* the computation of one

store  == <<rows, finished, files>>
work   == <<job, deletion, moves, beside>>
caches == <<index, writer, search, query>>
vars   == <<channel, store, work, caches>>

Summary == Nat \cup {None}

JobSteps == {"idle", "work", "summary", "writing", "index", "ending",
             "refresh", "rewriting", "reindex"}

CachesTypeOK ==
  /\ HooksTypeOK
  /\ rows \in [Domains -> Nat] /\ finished \in [Domains -> Nat]
  /\ files \in [Domains -> Summary \cup {Torn}]
  /\ job \in [Domains -> JobSteps]
  /\ deletion \in [Domains -> {"idle", "files", "index", "search"}]
  /\ moves \in Nat
  /\ beside \subseteq Domains
  /\ index \in [Domains -> Summary] \cup {None}
  /\ \/ writer \in {None} \cup [by : {"reload"}, of : Domains, got : Summary]
     \/ \E D \in SUBSET Domains : writer \in [by : {"load"}, got : [D -> Summary]]
  /\ search \in [hits : [Domains -> Summary], misled : SUBSET Domains, straddled : BOOLEAN]
                  \cup {None}
  /\ query \in [todo : SUBSET Domains, hits : [Domains -> Summary],
                misled : SUBSET Domains, straddled : BOOLEAN] \cup {None}

CachesInit ==
  /\ HooksInit
  /\ rows = [d \in Domains |-> 0] /\ finished = rows
  /\ files \in [Domains -> {None, 0}]
  /\ job = [d \in Domains |-> "idle"]
  /\ deletion = [d \in Domains |-> "idle"]
  /\ moves = 0
  /\ beside = {}
  /\ index = None /\ writer = None
  /\ search = None /\ query = None

-----------------------------------------------------------------------------
(* Jobs: run_job, save_summary; refresh_summaries at startup *)

Go(d, step) == job' = [job EXCEPT ![d] = step]
Becomes(f, d, v) == [f EXCEPT ![d] = v]

readers == <<search, query>>

Running == {d \in Domains : job[d] \notin {"idle", "refresh", "rewriting", "reindex"}}

Move == moves < MaxMoves /\ moves' = moves + 1

\* A deletion looks at the status of the job only when it begins.
StartJob(d) ==
  /\ job[d] = "idle"
  /\ Len(sent) + Cardinality(Running) < MaxJobs
  /\ Go(d, "work")
  /\ beside' = IF deletion[d] = "idle" THEN beside ELSE beside \cup {d}
  /\ UNCHANGED <<channel, store, deletion, moves, caches>>

\* The job may find nothing to do, or fail, and leave the summary alone.
Work(d) ==
  /\ job[d] = "work"
  /\ \/ rows' = Becomes(rows, d, rows[d] + 1) /\ Go(d, "summary")
     \/ UNCHANGED rows /\ Go(d, "ending")
  /\ UNCHANGED <<channel, finished, files, deletion, moves, beside, caches>>

\* So may a refresh; what was being written stays as it is.
WorkFails(d) ==
  /\ \/ job[d] \in {"summary", "writing"} /\ Go(d, "ending")
     \/ job[d] \in {"refresh", "rewriting"} /\ Go(d, "idle")
  /\ UNCHANGED <<channel, store, deletion, moves, beside, caches>>

\* write_json empties the file before it writes it.
Truncate(d, from, to) ==
  /\ job[d] = from /\ Go(d, to)
  /\ files' = Becomes(files, d, Torn)
  /\ UNCHANGED <<channel, rows, finished, deletion, moves, beside, caches>>

\* A deletion may have removed the file meanwhile: it stays removed.
Write(d, from, to) ==
  /\ job[d] = from /\ Go(d, to)
  /\ files' = IF files[d] = None THEN files ELSE Becomes(files, d, rows[d])
  /\ UNCHANGED <<channel, rows, finished, deletion, moves, beside, caches>>

Unlocked == writer = None

Put(d, summary) == index' = IF index = None THEN None ELSE Becomes(index, d, summary)

\* update waits for the index's lock.
Update(d, from, to) ==
  /\ job[d] = from /\ Go(d, to)
  /\ Unlocked
  /\ Put(d, rows[d])
  /\ UNCHANGED <<channel, store, deletion, moves, beside, writer, readers>>

\* Mutant: the index is updated before the file is written.
SaveIndexFirst(d) ==
  \/ Update(d, "summary", "writing")
  \/ Truncate(d, "writing", "index")
  \/ Write(d, "index", "ending")

SaveSummary(d) ==
  \/ Truncate(d, "summary", "writing")
  \/ Write(d, "writing", "index")
  \/ Update(d, "index", "ending")

EndJob(d) ==
  /\ job[d] = "ending" /\ Go(d, "idle")
  /\ finished' = Becomes(finished, d, rows[d])
  /\ Send(d)
  /\ UNCHANGED <<next, hook, rows, files, deletion, moves, beside, caches>>

\* The provider has an old summary, looked up under the provider's lock.
BeginRefresh(d) ==
  /\ job[d] = "idle" /\ files[d] \in Nat /\ Move
  /\ Go(d, "refresh")
  /\ beside' = IF deletion[d] = "idle" THEN beside ELSE beside \cup {d}
  /\ UNCHANGED <<channel, store, deletion, caches>>

RefreshSummary(d) ==
  \/ Truncate(d, "refresh", "rewriting")
  \/ Write(d, "rewriting", "reindex")
  \/ Update(d, "reindex", "idle")

-----------------------------------------------------------------------------
(* delete_provider: the files, the index, the search results *)

BeginDelete(d) ==
  /\ deletion[d] = "idle" /\ d \notin Running /\ Move
  /\ deletion' = Becomes(deletion, d, "files")
  /\ beside' = IF job[d] = "idle" THEN beside ELSE beside \cup {d}
  /\ UNCHANGED <<channel, store, job, caches>>

RemoveFiles(d) ==
  /\ deletion[d] = "files"
  /\ deletion' = Becomes(deletion, d, "index")
  /\ files' = Becomes(files, d, None)
  /\ UNCHANGED <<channel, rows, finished, job, moves, beside, caches>>

RemoveSummary(d) ==
  /\ deletion[d] = "index" /\ Unlocked
  /\ deletion' = Becomes(deletion, d, "search")
  /\ Put(d, None)
  /\ UNCHANGED <<channel, store, job, moves, beside, writer, readers>>

\* invalidate_all drops what is cached.  A computation goes on and its result
\* is cached afterwards.
InvalidateAll ==
  /\ search' = None
  /\ query' = IF query = None THEN None ELSE [query EXCEPT !.straddled = TRUE]

EndDelete(d) ==
  /\ deletion[d] = "search"
  /\ deletion' = Becomes(deletion, d, "idle")
  /\ InvalidateAll
  /\ UNCHANGED <<channel, store, job, moves, beside, index, writer>>

-----------------------------------------------------------------------------
(* SummaryIndex: all, reload *)

BeginLoad ==
  /\ index = None /\ Unlocked
  /\ writer' = [by |-> "load", got |-> <<>>]
  /\ UNCHANGED <<channel, store, work, index, readers>>

\* load reads one summary after the other; one it cannot parse is left out.
LoadFile(d) ==
  /\ writer # None /\ writer.by = "load" /\ d \notin DOMAIN writer.got
  /\ writer' = [writer EXCEPT !.got = [e \in DOMAIN writer.got \cup {d} |->
                  IF e # d THEN writer.got[e]
                  ELSE IF files[d] = Torn THEN None ELSE files[d]]]
  /\ UNCHANGED <<channel, store, work, index, readers>>

\* Mutant: the index is filled while the files are still being read.
EndLoadEarly ==
  /\ writer # None /\ writer.by = "load"
  /\ index' = writer.got
  /\ writer' = None
  /\ UNCHANGED <<channel, store, work, readers>>

EndLoad ==
  /\ writer # None /\ writer.by = "load" /\ DOMAIN writer.got = Domains
  /\ index' = writer.got
  /\ writer' = None
  /\ UNCHANGED <<channel, store, work, readers>>

\* A file that is gone between two looks at it fails the whole load.
LoadFails ==
  /\ writer # None /\ writer.by = "load"
  /\ writer' = None
  /\ UNCHANGED <<channel, store, work, index, readers>>

-----------------------------------------------------------------------------
(* The hook "provider_caches": invalidate_provider_caches *)

Received ==
  /\ Receive
  /\ UNCHANGED <<store, work, caches>>

Invalidated ==
  /\ hook.at = "handling"
  /\ hook' = [hook EXCEPT !.at = "finishing"]
  /\ InvalidateAll
  /\ UNCHANGED <<sent, next, store, work, index, writer>>

\* reload takes the lock and reads the file; the domains come in some order.
\* A file it cannot parse fails the handler: what is left is not reloaded.
Reload(d) ==
  /\ hook.at = "finishing" /\ d \in hook.batch /\ Unlocked
  /\ \/ /\ index # None /\ files[d] # Torn
        /\ writer' = [by |-> "reload", of |-> d, got |-> files[d]]
        /\ UNCHANGED <<hook, beside>>
     \/ /\ index # None /\ files[d] = Torn
        /\ Handled
        /\ UNCHANGED <<writer, beside>>
     \/ /\ index = None
        /\ hook' = [hook EXCEPT !.batch = @ \ {d}]
        /\ UNCHANGED <<writer, beside>>
  /\ UNCHANGED <<sent, next, store, job, deletion, moves, index, readers>>

Reloaded ==
  /\ writer # None /\ writer.by = "reload"
  /\ LET d == writer.of IN
     /\ Put(d, writer.got)
     /\ hook' = [hook EXCEPT !.batch = @ \ {d}]
     /\ beside' = IF job[d] = "idle" /\ deletion[d] = "idle" THEN beside \ {d} ELSE beside
  /\ writer' = None
  /\ UNCHANGED <<sent, next, store, job, deletion, moves, readers>>

BatchDone ==
  /\ hook.at = "finishing" /\ hook.batch = {} /\ Handled
  /\ UNCHANGED <<sent, next, store, work, caches>>

\* Mutant: the summaries are reloaded first, and the results dropped after it.
ReloadFirst ==
  \/ \E d \in Domains : Reload(d)
  \/ Reloaded
  \/ /\ hook.at = "handling"
     /\ hook' = [hook EXCEPT !.at = "finishing"]
     /\ UNCHANGED <<sent, next, store, work, caches>>
  \/ /\ hook.at = "finishing" /\ hook.batch = {} /\ Handled
     /\ InvalidateAll
     /\ UNCHANGED <<sent, next, store, work, index, writer>>

Handle == Invalidated \/ (\E d \in Domains : Reload(d)) \/ Reloaded \/ BatchDone

-----------------------------------------------------------------------------
(* find_by_cve: cached, or computed once for everyone who asks *)

\* search_cve asks the providers of the index, which the hook may be about to
\* write: it may miss one, or ask one that was deleted.  So it may with one a job
\* or refresh puts back after it was deleted (misled).
BeginSearch ==
  /\ search = None /\ query = None
  /\ index # None /\ Unlocked
  /\ LET listed == {d \in Domains : index[d] # None} IN
     query' = [todo |-> listed, hits |-> [d \in Domains |-> None],
               misled |-> {d \in Domains : d \in beside \/ (d \in listed) # (files[d] # None)},
               straddled |-> FALSE]
  /\ UNCHANGED <<channel, store, work, index, writer, search>>

SearchProvider(d) ==
  /\ query # None /\ d \in query.todo
  /\ query' = [query EXCEPT !.todo = @ \ {d}, !.hits[d] = rows[d]]
  /\ UNCHANGED <<channel, store, work, index, writer, search>>

EndSearch ==
  /\ query # None /\ query.todo = {}
  /\ search' = [hits |-> query.hits, misled |-> query.misled, straddled |-> query.straddled]
  /\ query' = None
  /\ UNCHANGED <<channel, store, work, index, writer>>

\* An error is not cached.
SearchFails ==
  /\ query # None
  /\ query' = None
  /\ UNCHANGED <<channel, store, work, index, writer, search>>

\* The time to live is over, or the entry is evicted.
Expire ==
  /\ search # None
  /\ search' = None
  /\ UNCHANGED <<channel, store, work, index, writer, query>>

-----------------------------------------------------------------------------

JobStep(d) == StartJob(d) \/ Work(d) \/ WorkFails(d) \/ SaveSummary(d) \/ EndJob(d)
                \/ BeginRefresh(d) \/ RefreshSummary(d)
DeleteStep(d) == BeginDelete(d) \/ RemoveFiles(d) \/ RemoveSummary(d) \/ EndDelete(d)
Load   == BeginLoad \/ (\E d \in Domains : LoadFile(d)) \/ EndLoad \/ LoadFails
Search == BeginSearch \/ (\E d \in Domains : SearchProvider(d)) \/ EndSearch
            \/ SearchFails \/ Expire

CachesNext ==
  \/ \E d \in Domains : JobStep(d) \/ DeleteStep(d)
  \/ Load \/ Received \/ Handle \/ Search

CachesSpec == CachesInit /\ [][CachesNext]_vars

-----------------------------------------------------------------------------
(* What the caches promise *)

\* Nobody is between the change of a provider's summary and that of the index,
\* and no deletion ran beside a job since the provider was last reloaded.
Settled(d) == job[d] \notin {"index", "reindex"} /\ deletion[d] # "index" /\ d \notin beside

\* The index in memory shows what the file on disk says: whatever happened
\* while it was loaded, whatever the hook re-read, whoever was deleted.
IndexCurrent ==
  index # None /\ Unlocked =>
    \A d \in Domains : Settled(d) /\ files[d] # Torn => index[d] = files[d]

\* Once the hook handled every event, a cached result has each provider's
\* documents as its last job left them, and nothing of a deleted provider.  Not
\* covered by the code: a result whose computation an invalidation ran into,
\* and a provider the index was wrong about, or that had been deleted beside a
\* job, when it began.
SearchFresh ==
  CaughtUp /\ (\A d \in Domains : job[d] = "idle" /\ deletion[d] = "idle")
    /\ search # None /\ ~search.straddled
  => \A d \in Domains :
       /\ search.hits[d] # None => search.hits[d] >= finished[d]
       /\ d \notin search.misled => (search.hits[d] = None) = (files[d] = None)

\* A result older than a finished job is dropped at some point.
Stale == search # None /\ \E d \in Domains : search.hits[d] # None /\ search.hits[d] < finished[d]
           /\ ~search.straddled

StaleDropped == Stale ~> ~Stale

=============================================================================
