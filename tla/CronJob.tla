------------------------------ MODULE CronJob ------------------------------
(***************************************************************************)
(* A ReclaimSpaceCronJob or an EncryptionKeyRotationCronJob and the jobs   *)
(* it creates, one for each time of its schedule.  The controller keeps no *)
(* record of what it has scheduled: the last time is read off the jobs     *)
(* that exist, through the informer, and old jobs are deleted.             *)
(*                                                                         *)
(* A job is named after its time.  Between creation and removal it does    *)
(* what JobLifecycle says, which VolumeJob implements.                     *)
(***************************************************************************)
EXTENDS Integers, FiniteSets, FiniteSetsExt

CONSTANTS Due,          \* the times of the schedule
          Horizon,      \* the clock stops here
          MaxMissed,    \* 100 in the code
          CronJobs,     \* specifications a cron job may have at first
          Faults,
          MaxFaults     \* so many of them happen

CronFaults == {"api", "crash", "invalid", "edit", "remove", "delete"}

VARIABLES spec,      \* kind and spec of the cron job; it exists unless deleted
          status,    \* its stored status
          synced,    \* the informer's copy of the cron job is the stored one
          phase,     \* of the job of each time, as in JobLifecycle
          started,   \* status.startTime of the job of each time, 0 if there is none
          cache,     \* what the informer's copy shows of each job
          queued,    \* a reconcile is due
          timer,     \* the next wake-up, 0 if there is none
          pc,        \* next step of Reconcile
          loc,       \* its local variables
          now,
          ran,       \* how many jobs each time has got, counted up to two
          odd,       \* irregularities so far
          faults     \* number of faults so far

stored == <<spec, status, synced>>
jobs == <<phase, started, ran, odd>>
vars == <<stored, jobs, cache, queued, timer, pc, loc, now, faults>>

\* A job was there and was not listed; a job was removed; a job never started.
Irregularities == {"blind", "removed", "unstarted"}

Kinds == {"ReclaimSpace", "KeyRotation"}

Job == INSTANCE JobLifecycle WITH Jobs <- Due

Unfinished == {"waiting", "running"}

\* Of a job without result, the cron job does not look at more.
Views == {"gone", "active"} \cup Job!Results
View(p) == IF p \in Unfinished THEN "active" ELSE p

ConcurrencyPolicies == {"Forbid", "Replace"}

Specs == [kind : Kinds, exists : BOOLEAN, suspend : BOOLEAN,
          policy : ConcurrencyPolicies,
          deadline : 0..Horizon,             \* to start a job; Horizon: none
          limit : [Job!Results -> 0..60]]    \* of the history

ASSUME CronAssumption ==
  /\ Horizon \in Nat /\ Due \subseteq 1..Horizon /\ Due # {}
  /\ MaxMissed \in Nat
  /\ CronJobs \subseteq Specs
  /\ Faults \subseteq CronFaults /\ MaxFaults \in Nat

Stati == [last : Due \cup {0}, active : Due \cup {0}]

\* What Reconcile holds between its steps.
Locals == [suspend : BOOLEAN, policy : ConcurrencyPolicies,
           jobs : [Due -> Views],            \* the list of jobs
           missed : Due \cup {0},
           nextRun : Due \cup {0}]

NoLocals == [suspend |-> FALSE, policy |-> "Forbid", jobs |-> [t \in Due |-> "gone"],
             missed |-> 0, nextRun |-> 0]

\* Start times are only compared, so they are counted: a job starts later than
\* those that are there.  No two jobs start in the same second, which is what the
\* field tells.
Starting(t) == [started EXCEPT ![t] = 1 + Max({started[u] : u \in Due})]

Without(times) == [t \in Due |-> IF t \in times THEN 0 ELSE started[t]]

\* One more fault happens.
Fault(kind) ==
  /\ kind \in Faults
  /\ faults < MaxFaults
  /\ faults' = faults + 1

Latest(times) == IF times = {} THEN 0 ELSE Max(times)
Earliest(times) == IF times = {} THEN 0 ELSE Min(times)

-----------------------------------------------------------------------------
(* The API server, the informers, the users, the jobs and the clock.       *)

\* The informer gets to know of the cron job, or of the job of a time: either
\* queues the cron job, there is no event filter.
SyncCron ==
  /\ ~synced
  /\ synced' = TRUE
  /\ queued' = TRUE
  /\ UNCHANGED <<spec, status, jobs, cache, timer, pc, loc, now, faults>>

SyncJob(t) ==
  /\ cache[t] # View(phase[t])
  /\ cache' = [cache EXCEPT ![t] = View(phase[t])]
  /\ queued' = TRUE
  /\ UNCHANGED <<stored, jobs, timer, pc, loc, now, faults>>

EditCron ==
  /\ Fault("edit")
  /\ spec.exists
  /\ \/ spec' = [spec EXCEPT !.suspend = ~@]
     \/ \E policy \in ConcurrencyPolicies \ {spec.policy} :
          spec' = [spec EXCEPT !.policy = policy]
  /\ synced' = FALSE
  /\ UNCHANGED <<status, jobs, cache, queued, timer, pc, loc, now>>

DeleteCron ==
  /\ Fault("delete")
  /\ spec.exists
  /\ spec' = [spec EXCEPT !.exists = FALSE]
  /\ synced' = FALSE
  /\ UNCHANGED <<status, jobs, cache, queued, timer, pc, loc, now>>

\* The job's controller stores a start time with the first attempt, unless the
\* spec is invalid.
BeginJob(t) ==
  /\ Job!Begin(t)
  /\ started' = Starting(t)
  /\ queued' = TRUE
  /\ UNCHANGED <<stored, cache, timer, pc, loc, now, faults, ran, odd>>

CompleteJob(t, result) ==
  /\ Job!Complete(t, result)
  /\ \/ /\ started' = IF started[t] = 0 THEN Starting(t) ELSE started
        /\ UNCHANGED <<odd, faults>>
     \/ /\ Fault("invalid") /\ phase[t] = "waiting" /\ result = "Failed"
        /\ odd' = odd \cup {"unstarted"}
        /\ UNCHANGED started
  /\ UNCHANGED <<stored, cache, queued, timer, pc, loc, now, ran>>

\* A user removes a job, or the garbage collector those of a deleted cron job.
RemoveJob(t) ==
  /\ Fault("remove") \/ (~spec.exists /\ UNCHANGED faults)
  /\ Job!Remove(t)
  /\ started' = Without({t})
  /\ odd' = odd \cup {"removed"}
  /\ UNCHANGED <<stored, cache, queued, timer, pc, loc, now, ran>>

Tick ==
  /\ now < Horizon
  /\ now' = now + 1
  /\ UNCHANGED <<stored, jobs, cache, queued, timer, pc, loc, faults>>

\* RequeueAfter is over.
WakeUp ==
  /\ timer # 0 /\ timer <= now
  /\ timer' = 0
  /\ queued' = TRUE
  /\ UNCHANGED <<stored, jobs, cache, pc, loc, now, faults>>

-----------------------------------------------------------------------------
(* Reconcile.                                                              *)

Goto(step) == pc' = step

Done == Goto("idle") /\ loc' = NoLocals

\* With an error: the cron job is queued again.
Fail == Done /\ queued' = TRUE /\ UNCHANGED timer

\* Without error and without delay.
Return == Done /\ UNCHANGED <<queued, timer>>

\* Variant: the next time is not waited for.
RequeueAt_never(t) == Return

\* With scheduledResult: the queue keeps the earlier of two delays.
RequeueAt(t) ==
  /\ Done
  /\ timer' = Earliest({timer, t} \ {0})
  /\ UNCHANGED queued

\* The jobs listed, by result; the one that is active, if any; and the last time.
parseJobList(list) ==
  [active |-> {t \in Due : list[t] = "active"},
   mostRecentTime |-> Latest({t \in Due : list[t] # "gone"})]

\* The cron job is read, its jobs are listed and the status is stored: with a
\* copy that is not current, that fails and nothing that was read matters.  What
\* happens between list and write cannot be told from a list that is older.
\* Storing the same status again causes no event.
UpdateStatus ==
  LET info == parseJobList(cache) IN
  /\ queued
  /\ \/ /\ ~spec.exists /\ synced
        /\ queued' = FALSE
        /\ UNCHANGED <<pc, loc, status, synced, odd>>
     \/ ~synced /\ UNCHANGED <<queued, pc, loc, status, synced, odd>>
     \/ \E active \in IF info.active = {} THEN {0} ELSE info.active :
          /\ spec.exists /\ synced
          /\ queued' = FALSE
          /\ status' = [last |-> info.mostRecentTime, active |-> active]
          /\ synced' = (status' = status)
          /\ loc' = [NoLocals EXCEPT !.suspend = spec.suspend, !.policy = spec.policy,
                                     !.jobs = cache]
          /\ odd' = IF \E t \in Due : phase[t] # "gone" /\ cache[t] = "gone"
                    THEN odd \cup {"blind"} ELSE odd
          /\ Goto("prune1")
  /\ UNCHANGED <<spec, phase, started, ran, cache, timer, now, faults>>

\* Variant: the jobs are sorted the other way round.
OldJobs_descending(listed, limit) ==
  {old \in SUBSET listed :
     /\ Cardinality(old) = Max({0, Cardinality(listed) - limit})
     /\ \A t \in old, u \in listed \ old : started[t] >= started[u]}

\* All but limit of the jobs, in the order of their start times; those without
\* one come first.
OldJobs(listed, limit) ==
  {old \in SUBSET listed :
     /\ Cardinality(old) = Max({0, Cardinality(listed) - limit})
     /\ \A t \in old, u \in listed \ old : started[t] <= started[u]}

\* Old jobs with the result are deleted.  That it fails is only logged.
deleteOldJobs(result, next) ==
  /\ \E old \in OldJobs({t \in Due : loc.jobs[t] = result}, spec.limit[result]) :
     \E failed \in SUBSET old :
       /\ IF failed = {} THEN UNCHANGED faults ELSE Fault("api")
       /\ phase' = [t \in Due |-> IF t \in old \ failed THEN "gone" ELSE phase[t]]
       /\ started' = Without(old \ failed)
  /\ Goto(next)
  /\ UNCHANGED <<stored, cache, queued, timer, loc, now, ran, odd>>

\* The times that have been missed since the last job, the creation of the cron
\* job or the deadline, and the next time.
getNextSchedule(last) ==
  LET earliest == Max({last, now - spec.deadline})
  IN [missed |-> {t \in Due : earliest < t /\ t <= now},
      nextRun |-> Earliest({t \in Due : t > now})]

\* A suspended cron job is left alone; so is one that has missed too much.
Schedule ==
  LET next == getNextSchedule(parseJobList(loc.jobs).mostRecentTime)
      tooMany == Cardinality(next.missed) > MaxMissed
  IN
  /\ \/ (loc.suspend \/ tooMany) /\ Return
     \/ ~loc.suspend /\ ~tooMany /\ next.missed = {} /\ RequeueAt(next.nextRun)
     \/ /\ ~loc.suspend /\ ~tooMany /\ next.missed # {}
        /\ loc' = [loc EXCEPT !.missed = Max(next.missed), !.nextRun = next.nextRun]
        /\ Goto("start")
        /\ UNCHANGED <<queued, timer>>
  /\ UNCHANGED <<stored, jobs, cache, now, faults>>

\* Variant: only a job that is not the last is taken for active.
Active_previous ==
  parseJobList(loc.jobs).active \ {parseJobList(loc.jobs).mostRecentTime}

\* The jobs listed without result.
Active == parseJobList(loc.jobs).active

\* Policy Replace deletes the active job and then, as it was active, does not
\* create another; when there is none, Delete gets a nil pointer.
Replace ==
  \/ \E t \in Active :
       /\ phase' = [phase EXCEPT ![t] = "gone"]
       /\ started' = Without({t})
       /\ odd' = odd \cup {"removed"}
       /\ RequeueAt(loc.nextRun)
       /\ UNCHANGED ran
  \/ Active = {} /\ Fail /\ UNCHANGED jobs

\* The name of the job is that of its time, and may be taken.
Create ==
  \/ /\ phase[loc.missed] = "gone"
     /\ phase' = [phase EXCEPT ![loc.missed] = "waiting"]
     /\ ran' = [ran EXCEPT ![loc.missed] = Min({2, @ + 1})]
     /\ RequeueAt(loc.nextRun)
     /\ UNCHANGED <<started, odd>>
  \/ phase[loc.missed] # "gone" /\ Fail /\ UNCHANGED jobs

\* The job is not started too late, nor beside an active one.
Start ==
  LET tooLate == loc.missed + spec.deadline < now
      blocked == loc.policy = "Forbid" /\ Active # {}
  IN
  /\ \/ (tooLate \/ blocked) /\ RequeueAt(loc.nextRun) /\ UNCHANGED jobs
     \/ ~tooLate /\ loc.policy = "Replace" /\ Replace
     \/ ~tooLate /\ loc.policy = "Forbid" /\ ~blocked /\ Create
  /\ UNCHANGED <<stored, cache, now, faults>>

Work(kind, step) == spec.kind = kind /\ pc = step

-----------------------------------------------------------------------------
(* The ReclaimSpaceCronJob controller deletes successful jobs first.       *)

ListReclaim == Work("ReclaimSpace", "idle") /\ UpdateStatus

PruneReclaim ==
  \/ Work("ReclaimSpace", "prune1") /\ deleteOldJobs("Succeeded", "prune2")
  \/ Work("ReclaimSpace", "prune2") /\ deleteOldJobs("Failed", "schedule")

ReconcileReclaim ==
  \/ ListReclaim
  \/ PruneReclaim
  \/ Work("ReclaimSpace", "schedule") /\ Schedule
  \/ Work("ReclaimSpace", "start") /\ Start

-----------------------------------------------------------------------------
(* The EncryptionKeyRotationCronJob controller deletes failed jobs first.  *)

ListRotation == Work("KeyRotation", "idle") /\ UpdateStatus

PruneRotation ==
  \/ Work("KeyRotation", "prune1") /\ deleteOldJobs("Failed", "prune2")
  \/ Work("KeyRotation", "prune2") /\ deleteOldJobs("Succeeded", "schedule")

ScheduleRotation == Work("KeyRotation", "schedule") /\ Schedule

StartRotation == Work("KeyRotation", "start") /\ Start

ReconcileRotation ==
  ListRotation \/ PruneRotation \/ ScheduleRotation \/ StartRotation

-----------------------------------------------------------------------------
\* A write or a listing fails.
ApiError ==
  /\ Fault("api")
  /\ pc = "start"
  /\ Fail
  /\ UNCHANGED <<stored, jobs, cache, now>>

\* The manager restarts.
Crash ==
  /\ Fault("crash")
  /\ pc' = "idle"
  /\ loc' = NoLocals
  /\ timer' = 0
  /\ cache' = [t \in Due |-> View(phase[t])]
  /\ synced' = TRUE
  /\ queued' = spec.exists
  /\ UNCHANGED <<spec, status, jobs, now>>

Init ==
  /\ spec \in CronJobs
  /\ status = [last |-> 0, active |-> 0]
  /\ synced = FALSE
  /\ phase = [t \in Due |-> "gone"]
  /\ started = [t \in Due |-> 0]
  /\ cache = [t \in Due |-> "gone"]
  /\ queued = FALSE
  /\ timer = 0
  /\ pc = "idle"
  /\ loc = NoLocals
  /\ now = 0
  /\ ran = [t \in Due |-> 0]
  /\ odd = {}
  /\ faults = 0

System ==
  \/ SyncCron
  \/ \E t \in Due : SyncJob(t) \/ BeginJob(t)
  \/ \E t \in Due, result \in Job!Results : CompleteJob(t, result)
  \/ Tick \/ WakeUp
  \/ ReconcileReclaim \/ ReconcileRotation

Next ==
  \/ System
  \/ EditCron \/ DeleteCron \/ ApiError \/ Crash
  \/ \E t \in Due : RemoveJob(t)

Spec == Init /\ [][Next]_vars

\* Workers take queued keys, informers deliver, time goes by, and jobs end, as
\* VolumeJob!Terminates says.
Fairness ==
  /\ WF_vars(ReconcileReclaim) /\ WF_vars(ReconcileRotation)
  /\ WF_vars(SyncCron) /\ WF_vars(WakeUp) /\ WF_vars(Tick)
  /\ \A t \in Due :
       /\ WF_vars(SyncJob(t))
       /\ WF_vars(\E result \in Job!Results : CompleteJob(t, result))

FairSpec == Spec /\ Fairness

-----------------------------------------------------------------------------
(* Properties.                                                             *)

\* Objects, copies and local variables are what the types allow, and a job is
\* only started for a time of the schedule.
TypeOK ==
  /\ spec \in Specs
  /\ status \in Stati
  /\ synced \in BOOLEAN /\ queued \in BOOLEAN
  /\ phase \in [Due -> Job!Phases]
  /\ started \in [Due -> Nat]
  /\ cache \in [Due -> Views]
  /\ timer \in Due \cup {0}
  /\ pc \in {"idle", "prune1", "prune2", "schedule", "start"}
  /\ loc \in Locals
  /\ now \in 0..Horizon
  /\ ran \in [Due -> 0..2]
  /\ odd \subseteq Irregularities
  /\ faults \in 0..MaxFaults
  /\ pc = "start" => loc.missed # 0

\* No two jobs are unfinished at a time, as long as the informer shows a job to
\* the reconcile that follows its creation; the controller does not make sure.
NoOverlap ==
  "blind" \in odd \/ Cardinality({t \in Due : phase[t] \in Unfinished}) <= 1

\* Every time of the schedule gets at most one job, although the last time is
\* read off jobs that are being deleted, through copies that lag behind.  For
\* that, history must keep a job of either result.
OncePerTime == odd = {} => \A t \in Due : ran[t] <= 1

\* More than MaxMissed times have gone by since the latest job: the controller
\* gives up scheduling.
GivenUp ==
  Cardinality({t \in Due : t > Latest({u \in Due : phase[u] # "gone"}) /\ t <= now}) > MaxMissed

LatestTimeRuns(policy) ==
  spec.deadline = Horizon =>
    <>(ran[Max(Due)] > 0 \/ spec.suspend \/ spec.policy # policy \/ ~spec.exists \/ GivenUp)

\* The latest time of the schedule gets a job, even if it came while another job
\* was active or while the manager was down: under the policy Forbid, without a
\* deadline for starting, and unless the controller has given up.
LatestTimeRunsForbid == LatestTimeRuns("Forbid")

\* The same under the policy Replace, as documented.
LatestTimeRunsReplace == LatestTimeRuns("Replace")
=============================================================================
