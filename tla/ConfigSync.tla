----------------------------- MODULE ConfigSync -----------------------------
(***************************************************************************)
(* How the sources published in the configuration repository become the    *)
(* sources the server works with: the clone in config-repo, the copy in    *)
(* data_dir/sources (config_sync.rs) and AppState.sources (main.rs,        *)
(* startup.rs).  Startup, the poll of the scheduler and the webhook do it, *)
(* the latter two at the same time if it so happens, and nothing locks.    *)
(*                                                                         *)
(* A file holds the source of one domain, by whose name it goes here.      *)
(***************************************************************************)
EXTENDS Naturals

CONSTANTS
  Files,      \* files of sources/
  Contents,   \* what they can say
  Inline,     \* the sources of the server's configuration file
  Missing,    \* no file, no source
  Unreadable,       \* a file that is created and not written yet: not TOML of a source
  Boot, Poll, Webhook,
  MaxEvents   \* bound: pushes, failures, webhooks and restarts

ASSUME ConfigAssumption ==
  /\ Missing \notin Contents /\ Unreadable \notin Contents /\ Missing # Unreadable
  /\ Inline \in [Files -> Contents \cup {Missing}]
  /\ MaxEvents \in Nat

Syncers == {Boot, Poll, Webhook}
Sources == [Files -> Contents \cup {Missing}]
NoFiles == [f \in Files |-> Missing]

VARIABLES
  remote,   \* sources/ at the tip of the remote branch
  fetched,  \* sources/ at the remote-tracking branch of the clone
  clone,    \* config-repo: "none", "cloning" while HEAD is unborn, "ready"
  tree,     \* its working tree
  dir,      \* data_dir/sources
  sources,  \* AppState.sources
  ready,    \* has startup finished?
  syncer,   \* step of each syncer, files it has listed, sources it has read
  events    \* pushes, failures, webhooks and restarts so far

repository == <<fetched, clone, tree>>
configVars == <<remote, repository, dir, sources, ready, syncer, events>>

Syncer == [at : {"idle", "start", "cloning", "fetch", "reset", "list", "remove", "copy",
                 "write", "load", "read"},
           todo : SUBSET Files, file : Files \cup {Missing}, found : Sources]

Resting == [at |-> "idle", todo |-> {}, file |-> Missing, found |-> NoFiles]

There(files) == {f \in Files : files[f] # Missing}

ConfigTypeOK ==
  /\ remote \in Sources /\ fetched \in Sources /\ tree \in Sources /\ sources \in Sources
  /\ dir \in [Files -> Contents \cup {Missing, Unreadable}]
  /\ clone \in {"none", "cloning", "ready"}
  /\ ready \in BOOLEAN
  /\ syncer \in [Syncers -> Syncer]
  /\ events \in 0 .. MaxEvents

ConfigInit ==
  /\ remote \in Sources
  /\ fetched = NoFiles /\ clone = "none" /\ tree = NoFiles
  /\ dir = NoFiles /\ sources = NoFiles /\ ready = FALSE
  /\ syncer = [s \in Syncers |-> IF s = Boot THEN [Resting EXCEPT !.at = "start"] ELSE Resting]
  /\ events = 0

Step(s, from, to) == syncer[s].at = from /\ syncer' = [syncer EXCEPT ![s].at = to]

\* Anything the network or the disk does to a step that can fail.
Event == events < MaxEvents /\ events' = events + 1
Quiet == UNCHANGED events

-----------------------------------------------------------------------------
(* The world *)

Push ==
  /\ Event
  /\ remote' \in Sources \ {remote}
  /\ UNCHANGED <<repository, dir, sources, ready, syncer>>

\* A restart while the repository is cloned leaves the directory behind.
RestartServer ==
  /\ Event
  /\ ready' = FALSE /\ sources' = NoFiles
  /\ syncer' = [s \in Syncers |-> IF s = Boot THEN [Resting EXCEPT !.at = "start"] ELSE Resting]
  /\ UNCHANGED <<remote, repository, dir>>

\* scheduler::run polls for ever; github answers a webhook, once startup is over.
BeginPoll == ready /\ Step(Poll, "idle", "start") /\ Quiet
             /\ UNCHANGED <<remote, repository, dir, sources, ready>>

BeginWebhook == ready /\ Step(Webhook, "idle", "start") /\ Event
                /\ UNCHANGED <<remote, repository, dir, sources, ready>>

-----------------------------------------------------------------------------
(* sync: clone, or fetch and reset *)

\* An existing directory is opened; it is cloned only if there is none.
Start(s) ==
  /\ syncer[s].at = "start" /\ Quiet
  /\ IF clone = "none"
       THEN Step(s, "start", "cloning") /\ clone' = "cloning"
       ELSE Step(s, "start", "fetch") /\ UNCHANGED clone
  /\ UNCHANGED <<remote, fetched, tree, dir, sources, ready>>

Cloned(s) ==
  /\ Step(s, "cloning", "list") /\ Quiet
  /\ clone' = "ready" /\ fetched' = remote /\ tree' = remote
  /\ UNCHANGED <<remote, dir, sources, ready>>

\* A clone that fails removes what it created.
CloneFails(s) ==
  /\ Step(s, "cloning", "load") /\ Event
  /\ clone' = "none"
  /\ UNCHANGED <<remote, fetched, tree, dir, sources, ready>>

\* update_repo: "Failed to get HEAD" of what is not cloned.
Unborn(s) ==
  /\ clone # "ready" /\ Step(s, "fetch", "load") /\ Quiet
  /\ UNCHANGED <<remote, repository, dir, sources, ready>>

Fetch(s) ==
  /\ clone = "ready" /\ Step(s, "fetch", "reset") /\ Quiet
  /\ fetched' = remote
  /\ UNCHANGED <<remote, clone, tree, dir, sources, ready>>

Reset(s) ==
  /\ Step(s, "reset", "list") /\ Quiet
  /\ tree' = fetched
  /\ UNCHANGED <<remote, fetched, clone, dir, sources, ready>>

\* The network, a lock of git, a full disk: the sync ends, the reload follows.
SyncFails(s) ==
  /\ \E step \in {"fetch", "reset", "list", "remove", "copy", "write"} : Step(s, step, "load")
  /\ Event
  /\ UNCHANGED <<remote, repository, dir, sources, ready>>

-----------------------------------------------------------------------------
(* copy_sources *)

\* Mutant: what was withdrawn stays; files are only ever replaced.
ListForCopyOnly(s) ==
  /\ syncer[s].at = "list" /\ Quiet
  /\ syncer' = [syncer EXCEPT ![s].at = IF There(tree) = {} THEN "load" ELSE "remove",
                              ![s].todo = {}]
  /\ UNCHANGED <<remote, repository, dir, sources, ready>>

\* Without a sources directory nothing is touched; git keeps no empty one.
List(s) ==
  /\ syncer[s].at = "list" /\ Quiet
  /\ syncer' = [syncer EXCEPT ![s].at = IF There(tree) = {} THEN "load" ELSE "remove",
                              ![s].todo = There(dir)]
  /\ UNCHANGED <<remote, repository, dir, sources, ready>>

\* A file that another sync has removed meanwhile ends this one.
Remove(s) ==
  /\ syncer[s].at = "remove" /\ Quiet
  /\ \E f \in syncer[s].todo :
       /\ dir' = [dir EXCEPT ![f] = Missing]
       /\ syncer' = [syncer EXCEPT ![s].at = IF dir[f] = Missing THEN "load" ELSE @,
                                   ![s].todo = @ \ {f}]
  /\ UNCHANGED <<remote, repository, sources, ready>>

Removed(s) ==
  /\ syncer[s].at = "remove" /\ syncer[s].todo = {} /\ Quiet
  /\ syncer' = [syncer EXCEPT ![s].at = "copy", ![s].todo = There(tree)]
  /\ UNCHANGED <<remote, repository, dir, sources, ready>>

\* fs::copy creates or truncates the file and then writes it.
Copy(s) ==
  /\ syncer[s].at = "copy" /\ Quiet
  /\ \E f \in syncer[s].todo :
       IF tree[f] = Missing
         THEN Step(s, "copy", "load") /\ UNCHANGED dir
         ELSE /\ dir' = [dir EXCEPT ![f] = Unreadable]
              /\ syncer' = [syncer EXCEPT ![s].at = "write", ![s].todo = @ \ {f}, ![s].file = f,
                                          ![s].found[f] = tree[f]]
  /\ UNCHANGED <<remote, repository, sources, ready>>

\* Written to a file another sync has removed meanwhile, it is gone with it.
WriteCopy(s) ==
  /\ Step(s, "write", "copy") /\ Quiet
  /\ LET f == syncer[s].file IN
     dir' = [dir EXCEPT ![f] = IF @ = Missing THEN Missing ELSE syncer[s].found[f]]
  /\ UNCHANGED <<remote, repository, sources, ready>>

Copied(s) ==
  /\ syncer[s].todo = {} /\ Step(s, "copy", "load") /\ Quiet
  /\ UNCHANGED <<remote, repository, dir, sources, ready>>

-----------------------------------------------------------------------------
(* load_sources_from_dir; reload_sources, load_sources of startup *)

Load(s) ==
  /\ syncer[s].at = "load" /\ Quiet
  /\ syncer' = [syncer EXCEPT ![s] = [Resting EXCEPT !.at = "read", !.todo = There(dir)]]
  /\ UNCHANGED <<remote, repository, dir, sources, ready>>

\* What cannot be parsed is left out.
Read(s) ==
  /\ syncer[s].at = "read" /\ Quiet
  /\ \E f \in syncer[s].todo :
       /\ dir[f] # Missing
       /\ syncer' = [syncer EXCEPT ![s].todo = @ \ {f},
                       ![s].found[f] = IF dir[f] = Unreadable THEN Missing ELSE dir[f]]
  /\ UNCHANGED <<remote, repository, dir, sources, ready>>

WithInline(found) == [f \in Files |-> IF Inline[f] # Missing THEN Inline[f] ELSE found[f]]

\* A file has vanished since it was listed: a reload keeps the sources there
\* are, startup makes do with those of its configuration file.
ReadFails(s) ==
  /\ syncer[s].at = "read" /\ Quiet
  /\ \E f \in syncer[s].todo : dir[f] = Missing
  /\ sources' = IF s = Boot THEN WithInline(NoFiles) ELSE sources
  /\ ready' = (ready \/ s = Boot)
  /\ syncer' = [syncer EXCEPT ![s] = Resting]
  /\ UNCHANGED <<remote, repository, dir>>

\* Only startup adds the sources of the configuration file.
Adopt(s) ==
  /\ syncer[s].at = "read" /\ syncer[s].todo = {} /\ Quiet
  /\ sources' = IF s = Boot THEN WithInline(syncer[s].found) ELSE syncer[s].found
  /\ ready' = (ready \/ s = Boot)
  /\ syncer' = [syncer EXCEPT ![s] = Resting]
  /\ UNCHANGED <<remote, repository, dir>>

\* A syncer runs on; what a failure does to it is not its own doing.
Runs(s) ==
  \/ Start(s) \/ Cloned(s) \/ Unborn(s) \/ Fetch(s) \/ Reset(s)
  \/ List(s) \/ Remove(s) \/ Removed(s) \/ Copy(s) \/ WriteCopy(s) \/ Copied(s)
  \/ Load(s) \/ Read(s) \/ ReadFails(s) \/ Adopt(s)

ConfigNext ==
  \/ Push \/ RestartServer \/ BeginPoll \/ BeginWebhook
  \/ \E s \in Syncers : Runs(s) \/ CloneFails(s) \/ SyncFails(s)

-----------------------------------------------------------------------------

\* A clone that a restart cut off is never completed and never removed.
CutOff == clone = "cloning" /\ \A s \in Syncers : syncer[s].at # "cloning"

\* Once nothing is pushed and nothing fails any more, the server works with the
\* sources that are published, whatever concurrent syncs, failures and restarts
\* have left in the directory.  (Not if the last source was withdrawn, and not
\* if the clone was cut off.)
SourcesConverge == <>[](CutOff \/ There(remote) = {} \/ sources = remote)

=============================================================================
