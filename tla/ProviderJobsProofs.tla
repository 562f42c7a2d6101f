-------------------------- MODULE ProviderJobsProofs --------------------------
(***************************************************************************)
(* Theorems about ProviderJobs, for any number of requests: jobs of a      *)
(* provider exclude each other and the summary refresh, the status shown   *)
(* is true, and the scheduler does not sleep on a new source.              *)
(***************************************************************************)
EXTENDS ProviderJobs, TLAPS

\* The lock is held by whoever is at a step that needs it, and by nobody else.
LockOK ==
  /\ \A t \in Jobs : lock = t <=> task[t].at \in Locked
  /\ lock = Refresh <=> refresh = "holding"

\* A round is not begun while the task of the last one is under way.
RoundOK == loop # "waiting" => At(Scheduled, "idle")

\* What is written was loaded.
CopyOK == \A t \in Jobs : task[t].at \in DOMAIN WriteStep \cup DOMAIN NextStep
                            => task[t].copy # None

\* As NothingSleptOn, in every state in which a round has begun.
SourceNoticed == loop # "round" /\ source # "absent" /\ ~known => wake

IInv == TypeOK /\ LockOK /\ RoundOK /\ CopyOK /\ StatusTrue

-----------------------------------------------------------------------------

LEMMA StepTables ==
  /\ DOMAIN WriteStep = {"clear_save", "advance_save", "counts_save"}
  /\ DOMAIN NextStep = {"clear_write", "advance_write", "counts_write"}
  /\ WriteStep["clear_save"] = "clear_write"
  /\ WriteStep["advance_save"] = "advance_write"
  /\ WriteStep["counts_save"] = "counts_write"
  /\ NextStep["clear_write"] = "spawned"
  /\ NextStep["advance_write"] = "finished"
  /\ NextStep["counts_write"] = "ending"
BY DEF WriteStep, NextStep

LEMMA HoldersDiffer ==
  /\ Scheduled \in Jobs
  /\ Refresh \notin Jobs /\ Free \notin Jobs /\ Free # Refresh
BY HoldersAssumption DEF Jobs

\* A step of one task that keeps the lock, within or without it.
LEMMA Unlocked ==
  ASSUME IInv, NEW t \in Jobs, NEW next \in Task,
         task' = [task EXCEPT ![t] = next],
         task[t].at \notin Locked, next.at \notin Locked,
         next.at \in DOMAIN WriteStep \cup DOMAIN NextStep => next.copy # None,
         t = Scheduled => loop = "waiting",
         saved' \in SyncState \cup {None, Torn},
         UNCHANGED <<source, loop, known, wake, lock, job, deletion, refresh>>
  PROVE  IInv'
<1>1. TypeOK'
  BY DEF IInv, TypeOK
<1>2. /\ t \in DOMAIN task /\ task'[t] = next
      /\ \A u \in Jobs \ {t} : task'[u] = task[u]
  BY DEF IInv, TypeOK
<1>3. LockOK'
  BY <1>2 DEF IInv, LockOK
<1>4. RoundOK'
  BY <1>2, HoldersDiffer DEF IInv, RoundOK, At
<1>5. CopyOK'
  BY <1>2 DEF IInv, CopyOK
<1>6. StatusTrue'
  BY <1>2 DEF IInv, StatusTrue, Locked
<1> QED  BY <1>1, <1>3, <1>4, <1>5, <1>6 DEF IInv

\* A step of the job that holds the lock and keeps it.
LEMMA Holding ==
  ASSUME IInv, NEW t \in Jobs, NEW next \in Task, NEW status,
         task' = [task EXCEPT ![t] = next],
         task[t].at \in Locked, next.at \in Locked,
         next.at \in DOMAIN WriteStep \cup DOMAIN NextStep => next.copy # None,
         job' = status,
         status \in {"none", "running", "completed", "failed"},
         next.at \in Pipeline => status \in {"running", "none"},
         status = "running" => next.at \in Pipeline,
         saved' \in SyncState \cup {None, Torn},
         UNCHANGED <<source, loop, known, wake, lock, deletion, refresh>>
  PROVE  IInv'
<1>1. TypeOK'
  BY DEF IInv, TypeOK
<1>2. /\ t \in DOMAIN task /\ task'[t] = next
      /\ \A u \in Jobs \ {t} : task'[u] = task[u]
  BY DEF IInv, TypeOK
<1>3. LockOK'
  BY <1>2 DEF IInv, LockOK
<1>4. RoundOK'
  <2>1. task[t].at # "idle"
    BY DEF Locked, Pipeline
  <2> QED  BY <1>2, <2>1, HoldersDiffer DEF IInv, RoundOK, At
<1>5. CopyOK'
  BY <1>2 DEF IInv, CopyOK
<1>6. lock = t /\ \A u \in Jobs \ {t} : task[u].at \notin Pipeline
  BY DEF IInv, LockOK, Locked
<1>7. StatusTrue'
  BY <1>2, <1>6 DEF IInv, StatusTrue
<1> QED  BY <1>1, <1>3, <1>4, <1>5, <1>7 DEF IInv

LEMMA TaskTyped ==
  ASSUME IInv, NEW t \in Jobs
  PROVE  /\ task[t] \in Task
         /\ t = Scheduled /\ task[t].at # "idle" => loop = "waiting"
BY DEF IInv, TypeOK, RoundOK, At

LEMMA LoadedTyped == IInv /\ Readable => Loaded \in SyncState
BY DEF IInv, TypeOK, Readable, Loaded, SyncState

-----------------------------------------------------------------------------
(* The invariant holds initially and is kept by every action *)

LEMMA InitIInv == Init => IInv
<1> SUFFICES ASSUME Init PROVE IInv
  OBVIOUS
<1>1. TypeOK
  BY HoldersDiffer DEF Init, TypeOK, NoTasks, Idle, Task, Steps, Restored
<1>2. LockOK
  BY HoldersDiffer DEF Init, LockOK, NoTasks, Idle, Locked, Pipeline
<1>3. RoundOK /\ CopyOK
  BY HoldersDiffer, StepTables DEF Init, RoundOK, CopyOK, NoTasks, Idle, At
<1>4. StatusTrue
  BY DEF Init, StatusTrue, NoTasks, Idle, Pipeline, Restored
<1> QED  BY <1>1, <1>2, <1>3, <1>4 DEF IInv

\* The values start-up gives are those of Init, but for sync.json.
LEMMA RestartIInv == IInv /\ Restart => IInv'
<1> SUFFICES ASSUME IInv, Restart PROVE IInv'
  OBVIOUS
<1>1. TypeOK'
  BY HoldersDiffer DEF IInv, Restart, TypeOK, NoTasks, Idle, Task, Steps, Restored
<1>2. LockOK'
  BY HoldersDiffer DEF Restart, LockOK, NoTasks, Idle, Locked, Pipeline
<1>3. RoundOK' /\ CopyOK'
  BY HoldersDiffer, StepTables DEF Restart, RoundOK, CopyOK, NoTasks, Idle, At
<1>4. StatusTrue'
  BY DEF Restart, StatusTrue, NoTasks, Idle, Pipeline, Restored
<1> QED  BY <1>1, <1>2, <1>3, <1>4 DEF IInv

LEMMA LoopIInv == IInv /\ (Reload \/ LoopStep) => IInv'
<1> SUFFICES ASSUME IInv, Reload \/ LoopStep PROVE IInv'
  OBVIOUS
<1>1. CASE Round
  <2>1. task[Scheduled].at = "idle"
    BY <1>1 DEF Round, IInv, RoundOK, At
  <2>2. CASE source = "enabled"
    <3> DEFINE next == [Idle EXCEPT !.at = "spawned"]
    <3>1. task' = [task EXCEPT ![Scheduled] = next]
      BY <1>1, <2>2 DEF Round
    <3>2. next \in Task /\ next.at = "spawned"
      BY DEF Idle, Task, Steps
    <3>3. /\ Scheduled \in DOMAIN task /\ task'[Scheduled] = next
          /\ \A u \in Jobs \ {Scheduled} : task'[u] = task[u]
      BY <3>1, HoldersDiffer DEF IInv, TypeOK
    <3>4. TypeOK'
      BY <1>1, <3>1, <3>2, HoldersDiffer DEF Round, IInv, TypeOK
    <3>5. LockOK'
      BY <1>1, <2>1, <3>2, <3>3 DEF Round, IInv, LockOK, Locked, Pipeline
    <3>6. RoundOK' /\ CopyOK'
      BY <1>1, <3>2, <3>3, StepTables DEF Round, IInv, RoundOK, CopyOK
    <3>7. StatusTrue'
      BY <1>1, <2>1, <3>2, <3>3 DEF Round, IInv, StatusTrue, Pipeline
    <3> QED  BY <3>4, <3>5, <3>6, <3>7 DEF IInv
  <2>3. CASE source # "enabled"
    BY <1>1, <2>3 DEF Round, IInv, TypeOK, LockOK, RoundOK, CopyOK, StatusTrue, At
  <2> QED  BY <2>2, <2>3
<1>2. CASE Reload \/ RoundEnds \/ Notified \/ IntervalElapsed
  BY <1>2 DEF Reload, RoundEnds, Notified, IntervalElapsed, IInv, TypeOK, LockOK,
              RoundOK, CopyOK, StatusTrue, At
<1> QED  BY <1>1, <1>2 DEF LoopStep

LEMMA RequestIInv ==
  ASSUME IInv, NEW t \in Jobs, Trigger(t) \/ RequestRevalidation(t)
  PROVE  IInv'
<1>1. t # Scheduled /\ task[t].at = "idle"
  BY HoldersAssumption DEF Trigger, RequestRevalidation, At
<1>2. PICK next \in Task : /\ task' = [task EXCEPT ![t] = next]
                           /\ next.at \in {"clear", "spawned"}
  <2>1. CASE Trigger(t)
    <3>1. PICK full \in BOOLEAN :
            task' = [task EXCEPT ![t] =
                       [Idle EXCEPT !.at = IF full THEN "clear" ELSE "spawned"]]
      BY <2>1 DEF Trigger
    <3> DEFINE new == [Idle EXCEPT !.at = IF full THEN "clear" ELSE "spawned"]
    <3>2. new \in Task /\ new.at \in {"clear", "spawned"}
      BY DEF Idle, Task, Steps
    <3> QED  BY <3>1, <3>2
  <2>2. CASE RequestRevalidation(t)
    <3> DEFINE new == [Idle EXCEPT !.at = "spawned", !.kind = "revalidate"]
    <3>1. new \in Task /\ new.at \in {"clear", "spawned"}
      BY DEF Idle, Task, Steps
    <3> QED  BY <2>2, <3>1 DEF RequestRevalidation
  <2> QED  BY <2>1, <2>2
<1>3. /\ task[t].at \notin Locked /\ next.at \notin Locked
      /\ next.at \notin DOMAIN WriteStep \cup DOMAIN NextStep
  BY <1>1, <1>2, StepTables DEF Locked, Pipeline
<1>4. saved' \in SyncState \cup {None, Torn}
  BY DEF Trigger, RequestRevalidation, IInv, TypeOK
<1>5. UNCHANGED <<source, loop, known, wake, lock, job, deletion, refresh>>
  BY DEF Trigger, RequestRevalidation, scheduler
<1> QED  BY <1>1, <1>2, <1>3, <1>4, <1>5, Unlocked

LEMMA DeletionIInv == IInv /\ (DeleteBegins \/ DeletionStep) => IInv'
<1> SUFFICES ASSUME IInv, DeleteBegins \/ DeletionStep PROVE IInv'
  OBVIOUS
<1>1. /\ UNCHANGED <<loop, known, wake, task, lock, refresh>>
      /\ source' \in {source, "absent"}
      /\ job' \in {job, "none"}
      /\ saved' \in {saved, None}
      /\ deletion' \in {"idle", "state", "source", "job"}
  BY DEF DeleteBegins, DeletionStep, DeleteState, DeleteFails, ForgetSource,
         ForgetJob, scheduler
<1>2. TypeOK'
  BY <1>1 DEF IInv, TypeOK, Presence
<1>3. LockOK' /\ RoundOK' /\ CopyOK'
  BY <1>1 DEF IInv, LockOK, RoundOK, CopyOK, At
<1>4. StatusTrue'
  BY <1>1 DEF IInv, StatusTrue
<1> QED  BY <1>2, <1>3, <1>4 DEF IInv

LEMMA RefreshIInv == IInv /\ RefreshStep => IInv'
<1> SUFFICES ASSUME IInv, RefreshStep PROVE IInv'
  OBVIOUS
<1>1. /\ lock' \in {lock, Refresh, Free} /\ (lock' # lock => lock \notin Jobs)
      /\ lock' = Refresh <=> refresh' = "holding"
  BY HoldersDiffer DEF RefreshStep, RefreshLocks, RefreshEnds, IInv, LockOK
<1>2. UNCHANGED <<source, loop, known, wake, task, job, saved, deletion>>
  BY DEF RefreshStep, RefreshLocks, RefreshEnds, scheduler
<1>3. TypeOK'
  BY <1>1, <1>2 DEF RefreshStep, RefreshLocks, RefreshEnds, IInv, TypeOK
<1>4. LockOK' /\ StatusTrue'
  BY <1>1, <1>2, HoldersDiffer DEF IInv, LockOK, StatusTrue, Locked
<1> QED  BY <1>2, <1>3, <1>4 DEF IInv, RoundOK, CopyOK, At

-----------------------------------------------------------------------------
(* The steps of a job task *)

\* Steps without the lock that stay without it: the handler of a full sync.
LEMMA ClearIInv ==
  ASSUME IInv, NEW t \in Jobs, ClearLoad(t) \/ ClearFails(t)
  PROVE  IInv'
<1>1. task[t].at \in {"clear", "clear_save", "clear_write"}
  BY DEF ClearLoad, ClearFails, At
<1>2. task[t] \in Task /\ (t = Scheduled => loop = "waiting")
  BY <1>1, TaskTyped
<1>3. PICK next \in Task :
        /\ task' = [task EXCEPT ![t] = next]
        /\ next.at = "idle" \/ (next.at = "clear_save" /\ next.copy # None)
  <2>1. CASE ClearLoad(t)
    <3> DEFINE copy == [Loaded EXCEPT !.since = FALSE]
               new  == [task[t] EXCEPT !.at = "clear_save", !.copy = copy]
    <3>1. Loaded \in SyncState
      BY <2>1, LoadedTyped DEF ClearLoad
    <3>2. copy \in SyncState /\ copy # None
      BY <3>1, FilesAssumption DEF SyncState
    <3>3. new \in Task /\ new.at = "clear_save" /\ new.copy # None
      BY <1>2, <3>2 DEF Task, Steps
    <3>4. task' = [task EXCEPT ![t] = new]
      BY <2>1 DEF ClearLoad
    <3> QED  BY <3>3, <3>4
  <2>2. CASE ClearFails(t)
    <3>1. Idle \in Task /\ Idle.at = "idle"
      BY DEF Idle, Task, Steps
    <3> QED  BY <2>2, <3>1 DEF ClearFails
  <2> QED  BY <2>1, <2>2
<1>4. task[t].at \notin Locked /\ next.at \notin Locked
  BY <1>1, <1>3 DEF Locked, Pipeline
<1>5. next.at \in DOMAIN WriteStep \cup DOMAIN NextStep => next.copy # None
  BY <1>3, StepTables
<1>6. saved' \in SyncState \cup {None, Torn}
  BY DEF ClearLoad, ClearFails, IInv, TypeOK
<1>7. UNCHANGED <<source, loop, known, wake, lock, job, deletion, refresh>>
  BY DEF ClearLoad, ClearFails, scheduler
<1> QED  BY <1>2, <1>3, <1>4, <1>5, <1>6, <1>7, Unlocked

LEMMA TruncateIInv ==
  ASSUME IInv, NEW t \in Jobs, Truncate(t)
  PROVE  IInv'
<1> DEFINE next == [task[t] EXCEPT !.at = WriteStep[task[t].at]]
<1>1. task[t].at \in {"clear_save", "advance_save", "counts_save"}
  BY StepTables DEF Truncate
<1>2. task[t] \in Task /\ (t = Scheduled => loop = "waiting")
  BY <1>1, TaskTyped
<1>3. /\ task' = [task EXCEPT ![t] = next]
      /\ next \in Task
      /\ next.at = WriteStep[task[t].at]
      /\ next.copy # None
  <2>1. task[t].copy # None
    BY <1>1, StepTables DEF IInv, CopyOK
  <2>2. WriteStep[task[t].at] \in Steps
    BY <1>1, StepTables DEF Steps
  <2> QED  BY <1>2, <2>1, <2>2 DEF Truncate, Go, Task
<1>4. /\ saved' \in SyncState \cup {None, Torn}
      /\ UNCHANGED <<source, loop, known, wake, lock, job, deletion, refresh>>
  BY DEF Truncate, scheduler
<1> HIDE DEF next
<1>5. CASE task[t].at = "clear_save"
  <2>1. task[t].at \notin Locked /\ next.at \notin Locked
    BY <1>3, <1>5, StepTables DEF Locked, Pipeline
  <2> QED  BY <1>2, <1>3, <1>4, <2>1, Unlocked
<1>6. CASE task[t].at \in {"advance_save", "counts_save"}
  <2>1. /\ task[t].at \in Locked /\ next.at \in Locked
        /\ next.at \in Pipeline <=> task[t].at \in Pipeline
    BY <1>3, <1>6, StepTables DEF Locked, Pipeline
  <2>2. job = "running" => task[t].at \in Pipeline
    BY <2>1 DEF IInv, StatusTrue, LockOK
  <2>3. task[t].at \in Pipeline => job \in {"running", "none"}
    BY DEF IInv, StatusTrue
  <2>4. job \in {"none", "running", "completed", "failed"}
    BY DEF IInv, TypeOK
  <2> QED  BY <1>3, <1>4, <2>1, <2>2, <2>3, <2>4, Holding
<1> QED  BY <1>1, <1>5, <1>6

LEMMA WriteIInv ==
  ASSUME IInv, NEW t \in Jobs, Write(t)
  PROVE  IInv'
<1> DEFINE next == [task[t] EXCEPT !.at = NextStep[task[t].at], !.copy = None]
<1>1. task[t].at \in {"clear_write", "advance_write", "counts_write"}
  BY StepTables DEF Write
<1>2. task[t] \in Task /\ (t = Scheduled => loop = "waiting")
  BY <1>1, TaskTyped
<1>3. /\ task' = [task EXCEPT ![t] = next]
      /\ next \in Task
      /\ next.at = NextStep[task[t].at]
      /\ next.at \notin DOMAIN WriteStep \cup DOMAIN NextStep
  <2>1. /\ NextStep[task[t].at] \in Steps
        /\ NextStep[task[t].at] \notin DOMAIN WriteStep \cup DOMAIN NextStep
    BY <1>1, StepTables DEF Steps
  <2> QED  BY <1>2, <2>1 DEF Write, Task
<1>4. saved' \in SyncState \cup {None, Torn}
  <2>1. task[t].copy \in SyncState
    BY <1>1, <1>2, StepTables DEF IInv, CopyOK, Task
  <2>2. saved' \in {task[t].copy, None, Torn, saved}
    BY DEF Write, Outcomes
  <2> QED  BY <2>1, <2>2 DEF IInv, TypeOK
<1>5. UNCHANGED <<source, loop, known, wake, lock, job, deletion, refresh>>
  BY DEF Write, scheduler
<1> HIDE DEF next
<1>6. CASE task[t].at = "clear_write"
  <2>1. task[t].at \notin Locked /\ next.at \notin Locked
    BY <1>3, <1>6, StepTables DEF Locked, Pipeline
  <2> QED  BY <1>2, <1>3, <1>4, <1>5, <2>1, Unlocked
<1>7. CASE task[t].at \in {"advance_write", "counts_write"}
  <2>1. /\ task[t].at \in Locked /\ next.at \in Locked
        /\ next.at \in Pipeline <=> task[t].at \in Pipeline
    BY <1>3, <1>7, StepTables DEF Locked, Pipeline
  <2>2. job = "running" => task[t].at \in Pipeline
    BY <2>1 DEF IInv, StatusTrue, LockOK
  <2>3. task[t].at \in Pipeline => job \in {"running", "none"}
    BY DEF IInv, StatusTrue
  <2>4. job \in {"none", "running", "completed", "failed"}
    BY DEF IInv, TypeOK
  <2> QED  BY <1>3, <1>4, <1>5, <2>1, <2>2, <2>3, <2>4, Holding
<1> QED  BY <1>1, <1>6, <1>7

LEMMA TryLockIInv ==
  ASSUME IInv, NEW t \in Jobs, TryLock(t)
  PROVE  IInv'
<1>1. task[t].at = "spawned"
  BY DEF TryLock, At
<1>2. task[t] \in Task /\ (t = Scheduled => loop = "waiting")
  BY <1>1, TaskTyped
<1>3. UNCHANGED <<source, loop, known, wake, job, saved, deletion, refresh>>
  BY DEF TryLock, scheduler
<1>4. CASE lock = Free
  <2> DEFINE next == [task[t] EXCEPT !.at = "locked"]
  <2>1. /\ task' = [task EXCEPT ![t] = next] /\ lock' = t
        /\ next \in Task /\ next.at = "locked"
    BY <1>2, <1>4 DEF TryLock, Go, Task, Steps
  <2> HIDE DEF next
  <2>2. /\ t \in DOMAIN task /\ task'[t] = next
        /\ \A u \in Jobs \ {t} : task'[u] = task[u]
    BY <2>1 DEF IInv, TypeOK
  <2>3. TypeOK'
    BY <1>3, <2>1 DEF IInv, TypeOK
  <2>4. \A u \in Jobs : task[u].at \notin Locked
    BY <1>4, HoldersDiffer DEF IInv, LockOK
  <2>5. LockOK'
    BY <1>3, <1>4, <2>1, <2>2, <2>4, HoldersDiffer DEF IInv, LockOK, Locked
  <2>6. RoundOK' /\ CopyOK'
    BY <1>1, <1>2, <1>3, <2>1, <2>2, HoldersDiffer, StepTables
    DEF IInv, RoundOK, CopyOK, At
  <2>7. job # "running"
    BY <2>4 DEF IInv, StatusTrue, Locked
  <2>8. StatusTrue'
    BY <1>3, <2>1, <2>2, <2>4, <2>7 DEF IInv, StatusTrue, Locked, Pipeline
  <2> QED  BY <2>3, <2>5, <2>6, <2>8 DEF IInv
<1>5. CASE lock # Free
  <2> DEFINE next == [task[t] EXCEPT !.at = "idle"]
  <2>1. /\ task' = [task EXCEPT ![t] = next] /\ lock' = lock
        /\ next \in Task /\ next.at = "idle"
    BY <1>2, <1>5 DEF TryLock, Go, Task, Steps
  <2> HIDE DEF next
  <2>2. /\ task[t].at \notin Locked /\ next.at \notin Locked
        /\ next.at \notin DOMAIN WriteStep \cup DOMAIN NextStep
    BY <1>1, <2>1, StepTables DEF Locked, Pipeline
  <2>3. saved' \in SyncState \cup {None, Torn}
    BY <1>3 DEF IInv, TypeOK
  <2> QED  BY <1>2, <1>3, <2>1, <2>2, <2>3, Unlocked
<1> QED  BY <1>4, <1>5

\* Steps that move the holder of the lock on; the status moves with it.
LEMMA ProgressIInv ==
  ASSUME IInv, NEW t \in Jobs,
         \/ ShowRunning(t) \/ BeginWalk(t) \/ Advance(t) \/ Revalidated(t)
         \/ Fail(t) \/ Complete(t) \/ LoadForCounts(t) \/ CountsFail(t)
  PROVE  IInv'
<1>1. task[t].at \in Locked
  BY DEF ShowRunning, BeginWalk, Advance, Revalidated, Fail, Complete,
         LoadForCounts, CountsFail, At, Locked, Pipeline
<1>2. task[t] \in Task
  BY TaskTyped
<1>3. /\ saved' \in SyncState \cup {None, Torn}
      /\ UNCHANGED <<source, loop, known, wake, lock, deletion, refresh>>
  BY DEF ShowRunning, BeginWalk, Advance, Revalidated, Fail, Complete,
         LoadForCounts, CountsFail, scheduler, IInv, TypeOK
<1>4. /\ job = "running" => task[t].at \in Pipeline
      /\ task[t].at \in Pipeline => job \in {"running", "none"}
      /\ job \in {"none", "running", "completed", "failed"}
  BY <1>1 DEF IInv, StatusTrue, LockOK, TypeOK
<1>5. CASE ShowRunning(t)
  <2> DEFINE next == [task[t] EXCEPT !.at = IF task[t].kind = "sync"
                                              THEN "begin" ELSE "revalidate"]
  <2>1. /\ task' = [task EXCEPT ![t] = next] /\ job' = "running"
        /\ next \in Task /\ next.at \in {"begin", "revalidate"}
    BY <1>2, <1>5 DEF ShowRunning, Go, Task, Steps
  <2> HIDE DEF next
  <2>2. /\ next.at \in Locked /\ next.at \in Pipeline
        /\ next.at \notin DOMAIN WriteStep \cup DOMAIN NextStep
    BY <2>1, StepTables DEF Locked, Pipeline
  <2> QED  BY <1>1, <1>3, <2>1, <2>2, Holding
<1>6. CASE BeginWalk(t) \/ Revalidated(t)
  <2> DEFINE next == [task[t] EXCEPT !.at = IF BeginWalk(t) THEN "walk" ELSE "finished"]
  <2>1. /\ task' = [task EXCEPT ![t] = next] /\ job' = job
        /\ next \in Task /\ next.at \in {"walk", "finished"}
        /\ task[t].at \in Pipeline
    BY <1>2, <1>6 DEF BeginWalk, Revalidated, Go, At, Task, Steps, Pipeline
  <2> HIDE DEF next
  <2>2. /\ next.at \in Locked /\ next.at \in Pipeline
        /\ next.at \notin DOMAIN WriteStep \cup DOMAIN NextStep
    BY <2>1, StepTables DEF Locked, Pipeline
  <2> QED  BY <1>1, <1>3, <1>4, <2>1, <2>2, Holding
<1>7. CASE Advance(t)
  <2> DEFINE copy == [since |-> TRUE, synced |-> TRUE]
             next == [task[t] EXCEPT !.at = "advance_save", !.copy = copy]
  <2>0. copy \in SyncState
    BY DEF SyncState
  <2>1. copy \in SyncState /\ copy # None
    BY <2>0, FilesAssumption
  <2>2. /\ task' = [task EXCEPT ![t] = next] /\ job' = job
        /\ next \in Task /\ next.at = "advance_save" /\ next.copy # None
        /\ task[t].at \in Pipeline
    BY <1>2, <1>7, <2>1 DEF Advance, At, Task, Steps, Pipeline
  <2> HIDE DEF next
  <2>3. next.at \in Locked /\ next.at \in Pipeline
    BY <2>2 DEF Locked, Pipeline
  <2> QED  BY <1>1, <1>3, <1>4, <2>2, <2>3, Holding
<1>8. CASE Fail(t) \/ Complete(t)
  <2>1. PICK next \in Task, status \in {"completed", "failed"} :
          /\ task' = [task EXCEPT ![t] = next] /\ job' = status
          /\ next.at \in {"ending", "counts"}
    <3>1. CASE Fail(t)
      <4> DEFINE new == [task[t] EXCEPT !.at = "ending", !.copy = None]
      <4>1. new \in Task /\ new.at = "ending"
        BY <1>2 DEF Task, Steps
      <4> QED  BY <3>1, <4>1 DEF Fail
    <3>2. CASE Complete(t)
      <4> DEFINE new == [task[t] EXCEPT !.at = "counts"]
      <4>1. new \in Task /\ new.at = "counts"
        BY <1>2 DEF Task, Steps
      <4> QED  BY <3>2, <4>1 DEF Complete, Go
    <3> QED  BY <1>8, <3>1, <3>2
  <2>2. /\ next.at \in Locked /\ next.at \notin Pipeline
        /\ next.at \notin DOMAIN WriteStep \cup DOMAIN NextStep
    BY <2>1, StepTables DEF Locked, Pipeline
  <2> QED  BY <1>1, <1>3, <2>1, <2>2, Holding
<1>9. CASE LoadForCounts(t)
  <2> DEFINE next == [task[t] EXCEPT !.at = "counts_save", !.copy = Loaded]
  <2>1. Loaded \in SyncState /\ Loaded # None
    BY <1>9, LoadedTyped, FilesAssumption DEF LoadForCounts
  <2>2. /\ task' = [task EXCEPT ![t] = next] /\ job' = job
        /\ next \in Task /\ next.at = "counts_save" /\ next.copy # None
        /\ task[t].at \notin Pipeline
    BY <1>2, <1>9, <2>1 DEF LoadForCounts, At, Task, Steps, Pipeline
  <2> HIDE DEF next
  <2>3. next.at \in Locked /\ next.at \notin Pipeline
    BY <2>2 DEF Locked, Pipeline
  <2> QED  BY <1>1, <1>3, <1>4, <2>2, <2>3, Holding
<1>10. CASE CountsFail(t)
  <2> DEFINE next == [task[t] EXCEPT !.at = "ending", !.copy = None]
  <2>1. /\ task' = [task EXCEPT ![t] = next] /\ job' = job
        /\ next \in Task /\ next.at = "ending"
        /\ task[t].at \notin Pipeline
    BY <1>2, <1>10 DEF CountsFail, Task, Steps, Pipeline
  <2> HIDE DEF next
  <2>2. /\ next.at \in Locked /\ next.at \notin Pipeline
        /\ next.at \notin DOMAIN WriteStep \cup DOMAIN NextStep
    BY <2>1, StepTables DEF Locked, Pipeline
  <2> QED  BY <1>1, <1>3, <1>4, <2>1, <2>2, Holding
<1> QED  BY <1>5, <1>6, <1>7, <1>8, <1>9, <1>10

LEMMA EndIInv ==
  ASSUME IInv, NEW t \in Jobs, End(t)
  PROVE  IInv'
<1>1. task[t].at = "ending" /\ lock = t
  BY DEF End, At, IInv, LockOK, Locked
<1>2. /\ Idle \in Task /\ Idle.at = "idle"
      /\ task' = [task EXCEPT ![t] = Idle]
  BY DEF End, Idle, Task, Steps
<1>3. /\ t \in DOMAIN task /\ task'[t] = Idle
      /\ \A u \in Jobs \ {t} : task'[u] = task[u]
  BY <1>2 DEF IInv, TypeOK
<1>4. /\ lock' \in {Refresh, Free}
      /\ lock' = Refresh <=> refresh' = "holding"
      /\ refresh' \in {refresh, "holding"}
  BY <1>1, HoldersDiffer DEF End, IInv, LockOK
<1>5. UNCHANGED <<source, loop, known, wake, job, saved, deletion>>
  BY DEF End, scheduler
<1>6. TypeOK'
  BY <1>2, <1>4, <1>5 DEF IInv, TypeOK
<1>7. LockOK'
  BY <1>1, <1>2, <1>3, <1>4, HoldersDiffer DEF IInv, LockOK, Locked, Pipeline
<1>8. RoundOK' /\ CopyOK'
  BY <1>2, <1>3, <1>5, HoldersDiffer, StepTables DEF IInv, RoundOK, CopyOK, At
<1>9. job # "running" /\ \A u \in Jobs : task'[u].at \notin Pipeline
  BY <1>1, <1>2, <1>3 DEF IInv, StatusTrue, LockOK, Locked, Pipeline
<1> QED  BY <1>5, <1>6, <1>7, <1>8, <1>9 DEF IInv, StatusTrue

-----------------------------------------------------------------------------

LEMMA NextIInv == IInv /\ [Next]_vars => IInv'
<1> SUFFICES ASSUME IInv, [Next]_vars PROVE IInv'
  OBVIOUS
<1>1. CASE Reload \/ LoopStep
  BY <1>1, LoopIInv
<1>2. ASSUME NEW t \in Jobs, Trigger(t) \/ RequestRevalidation(t)
      PROVE  IInv'
  BY <1>2, RequestIInv
<1>3. ASSUME NEW t \in Jobs, JobStep(t)
      PROVE  IInv'
  BY <1>3, ClearIInv, TruncateIInv, WriteIInv, TryLockIInv, ProgressIInv, EndIInv
  DEF JobStep
<1>4. CASE RefreshStep
  BY <1>4, RefreshIInv
<1>5. CASE DeleteBegins \/ DeletionStep
  BY <1>5, DeletionIInv
<1>6. CASE Restart
  BY <1>6, RestartIInv
<1>7. CASE UNCHANGED vars
  BY <1>7 DEF vars, IInv, TypeOK, LockOK, RoundOK, CopyOK, StatusTrue, At
<1> QED  BY <1>1, <1>2, <1>3, <1>4, <1>5, <1>6, <1>7 DEF Next

\* The inductive invariant: who is where, who holds the lock, what is shown.
THEOREM Invariance == Spec => []IInv
<1>1. Init => IInv
  BY InitIInv
<1>2. IInv /\ [Next]_vars => IInv'
  BY NextIInv
<1> QED  BY <1>1, <1>2, PTL DEF Spec

\* The types of all variables: the steps of the tasks, and a state that was
\* loaded before it is saved (run_job, trigger).
THEOREM TypeCorrect == Spec => []TypeOK
<1>1. IInv => TypeOK  BY DEF IInv
<1> QED  BY <1>1, Invariance, PTL

\* The status the API shows is true, for any number of concurrent requests
\* (run_job, update_job, delete).
THEOREM StatusAlwaysTrue == Spec => []StatusTrue
<1>1. IInv => StatusTrue
  BY DEF IInv
<1> QED  BY <1>1, Invariance, PTL

\* A provider has at most one job at work, and none while its summary is
\* refreshed (pipeline_locks: run_job, refresh_summaries).
THEOREM AtMostOneJob ==
  Spec => [](\A t, u \in Jobs : /\ task[t].at \in Locked
                                /\ task[u].at \in Locked \/ refresh = "holding"
                                => t = u /\ refresh # "holding")
<1>1. IInv => \A t, u \in Jobs : /\ task[t].at \in Locked
                                 /\ task[u].at \in Locked \/ refresh = "holding"
                                 => t = u /\ refresh # "holding"
  BY HoldersDiffer DEF IInv, LockOK
<1> QED  BY <1>1, Invariance, PTL

\* No source that was added is slept on (reload_sources, scheduler::run).
THEOREM NothingEverSleptOn == Spec => []NothingSleptOn
<1>1. Init => SourceNoticed
  BY DEF Init, SourceNoticed
<1>2. IInv /\ SourceNoticed /\ [Next]_vars => SourceNoticed'
  <2> SUFFICES ASSUME IInv, SourceNoticed, [Next]_vars PROVE SourceNoticed'
    OBVIOUS
  <2>1. CASE Reload
    BY <2>1 DEF Reload, SourceNoticed, IInv, TypeOK
  <2>2. CASE LoopStep
    BY <2>2 DEF LoopStep, Round, RoundEnds, Notified, IntervalElapsed, SourceNoticed,
                IInv, TypeOK
  <2>3. CASE DeleteBegins \/ DeletionStep
    BY <2>3 DEF DeleteBegins, DeletionStep, DeleteState, DeleteFails, ForgetSource,
                ForgetJob, scheduler, SourceNoticed
  <2>4. CASE Restart
    BY <2>4 DEF Restart, SourceNoticed
  <2>5. CASE \/ RefreshStep \/ UNCHANGED vars
             \/ \E t \in Jobs : Trigger(t) \/ RequestRevalidation(t) \/ JobStep(t)
    <3>1. UNCHANGED <<source, loop, known, wake>>
      BY <2>5 DEF RefreshStep, RefreshLocks, RefreshEnds, vars, Trigger,
        RequestRevalidation, JobStep, ClearLoad, ClearFails, Truncate, Write, TryLock,
        ShowRunning, BeginWalk, Advance, Revalidated, Fail, Complete, LoadForCounts,
        CountsFail, End, scheduler
    <3> QED  BY <3>1 DEF SourceNoticed
  <2> QED  BY <2>1, <2>2, <2>3, <2>4, <2>5 DEF Next
<1>3. SourceNoticed => NothingSleptOn
  BY DEF SourceNoticed, NothingSleptOn
<1> QED  BY <1>1, <1>2, <1>3, Invariance, PTL DEF Spec

=============================================================================
