----------------------------- MODULE MCFullSync -----------------------------
(***************************************************************************)
(* ProviderJobs with two history variables that follow the promise of a    *)
(* full sync: what the API has accepted and no walk has fulfilled yet.     *)
(***************************************************************************)
EXTENDS ProviderJobs

VARIABLES
  full,  \* the tasks that do a full sync
  owed   \* was a full sync accepted that no full walk has taken up?

Cleared(t) == At(t, "clear_write") /\ task'[t].at = "spawned"
Walks(t)   == At(t, "begin") /\ task'[t].at = "walk"
FullWalk(t) == Walks(t) /\ ~Loaded.since

\* A request made during a full sync counts as fulfilled by it, and so does one
\* whose provider is deleted.
Follow ==
  /\ full' = {t \in Jobs : /\ task'[t].at \in {"walk", "advance_save", "advance_write"}
                          /\ (FullWalk(t) \/ t \in full)}
  /\ owed' = \/ /\ owed
                /\ saved' # None
                /\ \A t \in Jobs : ~FullWalk(t)
             \/ /\ \E t \in Jobs : Cleared(t)
                /\ full = {}

\* From a provider that has been synced, as every other one is by its first sync.
FollowedSpec ==
  /\ Init /\ saved = [since |-> TRUE, synced |-> TRUE] /\ full = {} /\ owed = FALSE
  /\ [][Next /\ Follow]_<<vars, full, owed>>

\* A promised full sync is not forgotten: until a full walk begins, sync.json
\* has no token (TriggerQuery::full, "clears the since-token to force a full
\* re-sync").  A job that is under way writes it back.
FullSyncKept == owed => saved \in {None, Torn} \/ ~saved.since

=============================================================================
