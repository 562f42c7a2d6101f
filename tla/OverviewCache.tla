---------------------------- MODULE OverviewCache ----------------------------
(***************************************************************************)
(* The snapshot behind the overview page (storage/overview.rs): measured   *)
(* under a mutex, valid for one generation and one day, made stale by the  *)
(* hook "overview_cache" and by the refresh of old summaries at startup.   *)
(*                                                                         *)
(* What is measured is a number that grows when a job stores something.    *)
(***************************************************************************)
EXTENDS Hooks

CONSTANTS
  Readers,   \* requests of the page; one of them warms the cache at startup
  Refresher, \* the hook's task, which asks for the snapshot itself
  MaxDays,   \* bound: days that pass
  MaxStale   \* bound: summaries refreshed at startup

ASSUME OverviewAssumption ==
  /\ Refresher \notin Readers
  /\ MaxDays \in Nat
  /\ MaxStale \in Nat

Clients == Readers \cup {Refresher}

VARIABLES
  stored,    \* storage and metrics, as a number that grows
  storing,   \* providers whose job stored something and has not ended
  stale,     \* summaries refreshed at startup
  day        \* today

VARIABLES
  generation,  \* number of invalidations
  snapshot,    \* OverviewCache.snapshot
  mutex,       \* the client that holds it
  client,      \* step of each request, and what it has read so far
  promised     \* stored at the last invalidation

world   == <<stored, storing, stale, day>>
overview == <<generation, snapshot, mutex, client, promised>>
overviewVars == <<channel, world, overview>>

Snapshot == [generation : Nat, date : Nat, data : Nat]

\* since, from: promised and day when the request was made.
Client == [at : {"idle", "asked", "measuring", "measured", "answered"},
           since : Nat, from : Nat, generation : Nat, date : Nat, data : Nat]

Idle == [at |-> "idle", since |-> 0, from |-> 0, generation |-> 0, date |-> 0, data |-> 0]

OverviewTypeOK ==
  /\ HooksTypeOK
  /\ stored \in Nat /\ storing \subseteq Domains /\ stale \in Nat /\ day \in Nat
  /\ generation \in Nat
  /\ snapshot \in Snapshot \cup {None}
  /\ mutex \in Clients \cup {None}
  /\ client \in [Clients -> Client]
  /\ promised \in Nat

OverviewInit ==
  /\ HooksInit
  /\ stored = 0 /\ storing = {} /\ stale = 0 /\ day = 0
  /\ generation = 0 /\ snapshot = None /\ mutex = None
  /\ client = [c \in Clients |-> Idle]
  /\ promised = 0

-----------------------------------------------------------------------------
(* Jobs, days *)

Store(d) ==
  /\ d \notin storing /\ stored < MaxJobs
  /\ stored' = stored + 1
  /\ storing' = storing \cup {d}
  /\ UNCHANGED <<channel, stale, day, overview>>

End(d) ==
  /\ d \in storing
  /\ storing' = storing \ {d}
  /\ Send(d)
  /\ UNCHANGED <<next, hook, stored, stale, day, overview>>

Midnight ==
  /\ day < MaxDays
  /\ day' = day + 1
  /\ UNCHANGED <<channel, stored, storing, stale, overview>>

-----------------------------------------------------------------------------
(* overview_snapshot, step by step for each client *)

\* What is asked from now on is measured from now on.
Invalidate == generation' = generation + 1 /\ promised' = stored

Asked(since) == [Idle EXCEPT !.at = "asked", !.since = since, !.from = day]

Request(c) ==
  /\ c \in Readers /\ client[c].at = "idle"
  /\ client' = [client EXCEPT ![c] = Asked(promised)]
  /\ UNCHANGED <<channel, world, generation, snapshot, mutex, promised>>

\* Under the mutex: generation and date are read before anything is measured.
Lock(c) ==
  /\ client[c].at = "asked" /\ mutex = None
  /\ LET current == snapshot # None /\ snapshot.generation = generation /\ snapshot.date = day IN
     IF current
       THEN client' = [client EXCEPT ![c].at = "answered", ![c].date = day,
                         ![c].generation = generation, ![c].data = snapshot.data]
            /\ UNCHANGED mutex
       ELSE client' = [client EXCEPT ![c].at = "measuring", ![c].date = day,
                         ![c].generation = generation]
            /\ mutex' = c
  /\ UNCHANGED <<channel, world, generation, snapshot, promised>>

Measure(c) ==
  /\ client[c].at = "measuring"
  /\ client' = [client EXCEPT ![c].at = "measured", ![c].data = stored]
  /\ UNCHANGED <<channel, world, generation, snapshot, mutex, promised>>

\* Mutant: the snapshot is filed under the generation found after measuring.
KeepUnderLatest(c) ==
  /\ client[c].at = "measured"
  /\ snapshot' = [generation |-> generation, date |-> client[c].date, data |-> client[c].data]
  /\ client' = [client EXCEPT ![c].at = "answered"]
  /\ mutex' = None
  /\ UNCHANGED <<channel, world, generation, promised>>

Keep(c) ==
  /\ client[c].at = "measured"
  /\ snapshot' = [generation |-> client[c].generation, date |-> client[c].date,
                  data |-> client[c].data]
  /\ client' = [client EXCEPT ![c].at = "answered"]
  /\ mutex' = None
  /\ UNCHANGED <<channel, world, generation, promised>>

\* The storage or the metrics cannot be read.
MeasureFails(c) ==
  /\ client[c].at = "measuring"
  /\ client' = [client EXCEPT ![c] = Idle]
  /\ mutex' = None
  /\ UNCHANGED <<channel, world, generation, snapshot, promised>>

Answer(c) ==
  /\ client[c].at = "answered"
  /\ client' = [client EXCEPT ![c] = Idle]
  /\ UNCHANGED <<channel, world, generation, snapshot, mutex, promised>>

Snap(c) == Lock(c) \/ Measure(c) \/ Keep(c) \/ MeasureFails(c) \/ Answer(c)

-----------------------------------------------------------------------------
(* Invalidations: refresh_overview of the hook; refresh_summaries *)

OverviewReceived == Receive /\ UNCHANGED <<world, overview>>

RefreshOverview ==
  /\ hook.at = "handling"
  /\ hook' = [hook EXCEPT !.at = "finishing"]
  /\ Invalidate
  /\ client' = [client EXCEPT ![Refresher] = Asked(stored)]
  /\ UNCHANGED <<sent, next, world, snapshot, mutex>>

Refreshed ==
  /\ hook.at = "finishing" /\ client[Refresher].at = "idle"
  /\ Handled
  /\ UNCHANGED <<sent, next, world, overview>>

SummaryRefreshed ==
  /\ stale < MaxStale
  /\ stale' = stale + 1
  /\ Invalidate
  /\ UNCHANGED <<channel, stored, storing, day, snapshot, mutex, client>>

OverviewNext ==
  \/ \E d \in Domains : Store(d) \/ End(d)
  \/ Midnight
  \/ \E c \in Clients : Request(c) \/ Snap(c)
  \/ OverviewReceived \/ RefreshOverview \/ Refreshed \/ SummaryRefreshed

OverviewSpec == OverviewInit /\ [][OverviewNext]_overviewVars

-----------------------------------------------------------------------------

\* A page that is asked for after an invalidation shows nothing measured
\* before it, and no baselines of an earlier day, whoever measured and
\* whatever was invalidated meanwhile.
OverviewFresh ==
  \A c \in Clients : client[c].at = "answered" =>
    client[c].data >= client[c].since /\ client[c].date >= client[c].from

=============================================================================
