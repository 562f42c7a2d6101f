------------------------------- MODULE Hooks -------------------------------
(***************************************************************************)
(* The events of finished jobs on their way to a hook (hooks.rs).  Every   *)
(* hook has a receiver and a task of its own and sees nothing of the other *)
(* hook, so there is one here: a module that says what a hook does extends *)
(* this one.                                                               *)
(*                                                                         *)
(* The hook subscribes before the first job can end: startup calls         *)
(* hooks::spawn right after it declares the server ready, without waiting. *)
(***************************************************************************)
EXTENDS Integers, Sequences

CONSTANTS
  Domains,   \* providers
  Capacity,  \* events kept for a receiver that is behind (256 in the code)
  MaxJobs,   \* bound: jobs that are run
  None       \* nothing there: no file, no entry, no computation

ASSUME HooksAssumption ==
  /\ Capacity \in Nat \ {0}
  /\ MaxJobs \in Nat
  /\ None \notin Int

VARIABLES
  sent,    \* domains of the events sent so far
  next,    \* position in sent of the receiver's next event
  hook     \* step of the hook and the domains of its batch

channel == <<sent, next, hook>>

Steps == {"waiting", "collecting", "handling", "finishing"}

HooksTypeOK ==
  /\ sent \in Seq(Domains)
  /\ next \in Nat \ {0}
  /\ hook \in [at : Steps, batch : SUBSET Domains]

HooksInit ==
  /\ sent = <<>>
  /\ next = 1
  /\ hook = [at |-> "waiting", batch |-> {}]

\* job_finished
Send(d) == sent' = Append(sent, d)

\* The channel keeps the last events; a receiver that is behind is moved on.
Oldest  == IF Len(sent) > Capacity THEN Len(sent) - Capacity + 1 ELSE 1
Lagging == next < Oldest
Empty   == next > Len(sent)

Take == /\ hook' = [at |-> "collecting", batch |-> hook.batch \cup {sent[next]}]
        /\ next' = next + 1

\* next_batch, recv: missed events are reported, the next one is taken.
Lag ==
  /\ hook.at = "waiting" /\ Lagging
  /\ next' = Oldest
  /\ UNCHANGED <<sent, hook>>

First ==
  /\ hook.at = "waiting" /\ ~Empty /\ ~Lagging
  /\ Take
  /\ UNCHANGED sent

\* next_batch, try_recv: as many as there are.  Missed events end the batch.
More ==
  /\ hook.at = "collecting" /\ ~Empty /\ ~Lagging
  /\ Take
  /\ UNCHANGED sent

NoMore ==
  /\ hook.at = "collecting" /\ (Empty \/ Lagging)
  /\ hook' = [hook EXCEPT !.at = "handling"]
  /\ next' = IF Lagging THEN Oldest ELSE next
  /\ UNCHANGED sent

\* Mutant: a receiver that missed events is taken for a closed channel.
ReceiveUntilLag == First \/ More \/ NoMore

Receive == Lag \/ First \/ More \/ NoMore

\* The handler is done, or failed: the hook waits for the next batch.
Handled == hook' = [at |-> "waiting", batch |-> {}]

\* Every event was taken and handled.
CaughtUp == hook.at = "waiting" /\ Empty

=============================================================================
