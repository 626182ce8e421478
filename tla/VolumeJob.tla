----------------------------- MODULE VolumeJob -----------------------------
(***************************************************************************)
(* The one-off operations on a volume: ReclaimSpaceJobs, which free space  *)
(* on the node where the volume is attached and then on the controller,    *)
(* and EncryptionKeyRotationJobs, which rotate a key on that node.  The    *)
(* controllers of both kinds call the driver through the sidecars, count   *)
(* the attempts in the status of the job and give up after BackoffLimit of *)
(* them, or when the job is older than its deadline.                       *)
(*                                                                         *)
(* All jobs are about one claim.  A write of a status that changed since   *)
(* it was read is a conflict; cur and cacheCur stand for the comparison of *)
(* resource versions.                                                      *)
(***************************************************************************)
EXTENDS Naturals, FiniteSets

CONSTANTS Jobs,
          Limits,                \* values of spec.backOffLimit
          defaultBackoffLimit,   \* 6 in the code
          RetryDeadline,         \* spec.retryDeadlineSeconds, in ticks
          MaxTime,               \* the clock stops here, after the deadline
          MaxRetries,            \* more retries than this take longer than MaxTime
          Faults

JobFaults == {"rpc", "api", "crash", "edit", "delete", "target"}

ASSUME JobAssumption ==
  /\ Limits \subseteq Nat /\ 0 \in Limits
  /\ defaultBackoffLimit \in Nat /\ RetryDeadline \in Nat /\ MaxRetries \in Nat
  /\ MaxTime \in Nat /\ MaxTime > RetryDeadline
  /\ Faults \subseteq JobFaults

VARIABLES kind,       \* the kind of each job, which never changes
          job,        \* the stored jobs
          lowered,    \* the user has lowered the limit of the job
          cache,      \* the informer's copies
          cacheCur,   \* the copy is the stored job
          event,      \* an event that passes the predicate is on its way
          queue,      \* jobs due for a reconcile
          pc,         \* next step of a job's reconcile
          inst,       \* its instance of the job
          cur,        \* the instance is the stored job
          target,     \* what can be found out about the claim
          pending,    \* services that this attempt still has to hear from
          now         \* time since the jobs were created

stored == <<job, event, cacheCur>>
locals == <<inst, cur, pending>>
vars == <<kind, job, lowered, cache, cacheCur, event, queue, pc, inst, cur,
          target, pending, now>>

Kinds == {"ReclaimSpace", "KeyRotation"}
Results == {"Succeeded", "Failed"}

JobObjects ==
  [exists : BOOLEAN, deleting : BOOLEAN,
   claim : BOOLEAN,                        \* spec.target names a claim
   limit : Limits,
   start : BOOLEAN,                        \* status.startTime is set
   retries : 0..(MaxRetries + 1),
   result : Results \cup {""}]

\* A claim without volume, a volume that is not attached, an attached one.
Targets == {"none", "detached", "attached"}

NoJob == [exists |-> FALSE, deleting |-> FALSE, claim |-> FALSE, limit |-> 0,
          start |-> FALSE, retries |-> 0, result |-> ""]

\* The limit that is used: zero stands for the default.
Limit(o) == IF o.limit = 0 THEN defaultBackoffLimit ELSE o.limit

-----------------------------------------------------------------------------
(* The API server, the informer, the users and the cluster.                *)

\* Job j becomes o.  queues: a change of the generation, or a removal, which
\* passes the GenerationChangedPredicate.
Store(j, o, queues) ==
  /\ job' = [job EXCEPT ![j] = o]
  /\ cacheCur' = [cacheCur EXCEPT ![j] = FALSE]
  /\ event' = [event EXCEPT ![j] = queues \/ event[j]]

Sync(j) ==
  /\ ~cacheCur[j]
  /\ cache' = [cache EXCEPT ![j] = job[j]]
  /\ cacheCur' = [cacheCur EXCEPT ![j] = TRUE]
  /\ event' = [event EXCEPT ![j] = FALSE]
  /\ queue' = IF event[j] THEN queue \cup {j} ELSE queue
  /\ UNCHANGED <<job, lowered, pc, locals, target, now, kind>>

\* Only the target of a job is immutable.
EditLimit(j) ==
  /\ "edit" \in Faults
  /\ job[j].exists
  /\ \E limit \in Limits \ {job[j].limit} :
       LET o == [job[j] EXCEPT !.limit = limit] IN
       /\ Store(j, o, TRUE)
       /\ lowered' = [lowered EXCEPT ![j] = lowered[j] \/ Limit(o) < Limit(job[j])]
  /\ cur' = [cur EXCEPT ![j] = FALSE]
  /\ UNCHANGED <<cache, queue, pc, inst, pending, target, now, kind>>

\* In the foreground the job is only marked, and goes later.
DeleteJob(j) ==
  /\ "delete" \in Faults
  /\ job[j].exists
  /\ \/ Store(j, NoJob, TRUE)
     \/ ~job[j].deleting /\ Store(j, [job[j] EXCEPT !.deleting = TRUE], TRUE)
  /\ cur' = [cur EXCEPT ![j] = FALSE]
  /\ UNCHANGED <<lowered, cache, queue, pc, inst, pending, target, now, kind>>

\* The claim is bound or released, its volume attached or detached.
Retarget ==
  /\ "target" \in Faults
  /\ target' \in Targets \ {target}
  /\ UNCHANGED <<stored, lowered, cache, queue, pc, locals, now, kind>>

Tick ==
  /\ now < MaxTime
  /\ now' = now + 1
  /\ UNCHANGED <<stored, lowered, cache, queue, pc, locals, target, kind>>

-----------------------------------------------------------------------------
(* The sidecars and the driver.                                            *)

\* The driver does what it is asked for, or does not know how, or fails; an
\* answer that comes too late or not at all is an error as well.
DriverAnswers ==
  {"OK", "Unimplemented"} \cup IF "rpc" \in Faults THEN {"Error"} ELSE {}

\* A service of the sidecar fails when it cannot read the volume, its access
\* mode or its secret, and otherwise forwards the answer of the driver.
Forward == DriverAnswers \cup IF "api" \in Faults THEN {"Error"} ELSE {}

NodeReclaimSpace == Forward
ControllerReclaimSpace == Forward
EncryptionKeyRotate == Forward

-----------------------------------------------------------------------------
(* Steps that the two controllers share.                                   *)

Goto(j, step) == pc' = [pc EXCEPT ![j] = step]

\* Reconcile returns; requeue: with an error.
Return(j, requeue) ==
  /\ Goto(j, "idle")
  /\ inst' = [inst EXCEPT ![j] = NoJob]
  /\ cur' = [cur EXCEPT ![j] = FALSE]
  /\ queue' = IF requeue THEN queue \cup {j} ELSE queue

\* Nothing is left to do for a job that is gone, going or done.
Ignored(o) == ~o.exists \/ o.deleting \/ o.result # ""

\* The first attempt stores its start, the others are counted.
Attempt(o) == IF o.start THEN [o EXCEPT !.retries = @ + 1] ELSE [o EXCEPT !.start = TRUE]

\* Variant: the age of the job is not looked at.
Expired_never == FALSE

Expired == now > RetryDeadline

\* Variant: the attempt after the limit is the last one.
GiveUp_late(o) ==
  IF o.result = "" /\ o.retries > Limit(o) THEN [o EXCEPT !.result = "Failed"] ELSE o

\* The attempt that reaches the limit without a result is the last one.
GiveUp(o) ==
  IF o.result = "" /\ o.retries = Limit(o) THEN [o EXCEPT !.result = "Failed"] ELSE o

\* Reconcile up to the first call: the job is read and checked, the attempt
\* counted, the age of the job compared with the deadline.
ReconcileStart(j) ==
  LET o == cache[j]
      failed == ~o.claim \/ Expired
      attempt == IF o.claim THEN Attempt(o) ELSE o
  IN
  /\ j \in queue
  /\ queue' = queue \ {j}
  /\ \/ Ignored(o) /\ UNCHANGED <<pc, inst, cur>>
     \/ /\ ~Ignored(o)
        /\ o.retries < MaxRetries \/ failed
        /\ inst' = [inst EXCEPT ![j] =
                      IF failed THEN [attempt EXCEPT !.result = "Failed"] ELSE attempt]
        /\ cur' = [cur EXCEPT ![j] = cacheCur[j]]
        /\ Goto(j, IF failed THEN "status" ELSE "target")
  /\ UNCHANGED <<stored, lowered, cache, pending, target, now, kind>>

\* The attempt has failed, with an error.
Fail(j) == Goto(j, "status") /\ UNCHANGED <<inst, pending>>

\* The attempt is to call services, beginning with the step.
Plan(j, services, step) ==
  /\ pending' = [pending EXCEPT ![j] = services]
  /\ Goto(j, step)
  /\ UNCHANGED inst

\* A service answers: Unimplemented is as good as done.  Then comes the next
\* step; after the last one, "status", the operation has succeeded.
Call(j, service, answers, next) ==
  \E code \in answers :
    \/ /\ code \in {"OK", "Unimplemented"}
       /\ pending' = [pending EXCEPT ![j] = @ \ {service}]
       /\ inst' = IF next = "status" THEN [inst EXCEPT ![j].result = "Succeeded"] ELSE inst
       /\ Goto(j, next)
    \/ code = "Error" /\ Fail(j)

\* No leader, no connection to the node, or none with the capability.
NoClient(j) == "rpc" \in Faults /\ Fail(j)

Work(j, k, step) == kind[j] = k /\ pc[j] = step

\* Variant: a conflict is not noticed.
UpdateStatus_patches(j) ==
  /\ IF job[j].exists
       THEN Store(j, [job[j] EXCEPT !.start = inst[j].start, !.retries = inst[j].retries,
                                    !.result = GiveUp(inst[j]).result], FALSE)
       ELSE UNCHANGED stored
  /\ Return(j, GiveUp(inst[j]).result = "")
  /\ UNCHANGED <<lowered, cache, pending, target, now, kind>>

\* The end of Reconcile: the status is stored, or conflicts with a change of
\* the job.  A job without result is tried again.
UpdateStatus(j) ==
  /\ \/ /\ cur[j]
        /\ Store(j, GiveUp(inst[j]), FALSE)
        /\ Return(j, GiveUp(inst[j]).result = "")
     \/ ~cur[j] /\ Return(j, TRUE) /\ UNCHANGED stored
  /\ UNCHANGED <<lowered, cache, pending, target, now, kind>>

Unstored == <<stored, lowered, cache, queue, cur, target, now, kind>>

-----------------------------------------------------------------------------
(* The ReclaimSpaceJob controller.                                         *)

ReconcileReclaim(j) == Work(j, "ReclaimSpace", "idle") /\ ReconcileStart(j)

ReclaimTarget(j) ==
  /\ Work(j, "ReclaimSpace", "target")
  /\ \/ target = "none" /\ Fail(j)
     \/ target = "detached" /\ Plan(j, {"controller"}, "controller")
     \/ target = "attached" /\ Plan(j, {"node", "controller"}, "node")
  /\ UNCHANGED Unstored

\* Variant: an error of the node does not end the attempt.
nodeReclaimSpace_goesOn(j) ==
  /\ Work(j, "ReclaimSpace", "node")
  /\ \/ Call(j, "node", NodeReclaimSpace, "controller")
     \/ Goto(j, "controller") /\ UNCHANGED <<inst, pending>>
  /\ UNCHANGED Unstored

nodeReclaimSpace(j) ==
  /\ Work(j, "ReclaimSpace", "node")
  /\ Call(j, "node", NodeReclaimSpace, "controller") \/ NoClient(j)
  /\ UNCHANGED Unstored

controllerReclaimSpace(j) ==
  /\ Work(j, "ReclaimSpace", "controller")
  /\ Call(j, "controller", ControllerReclaimSpace, "status") \/ NoClient(j)
  /\ UNCHANGED Unstored

ReclaimStatus(j) == Work(j, "ReclaimSpace", "status") /\ UpdateStatus(j)

-----------------------------------------------------------------------------
(* The EncryptionKeyRotationJob controller.                                *)

ReconcileRotation(j) == Work(j, "KeyRotation", "idle") /\ ReconcileStart(j)

\* Without a node there is nobody to ask.
RotationTarget(j) ==
  /\ Work(j, "KeyRotation", "target")
  /\ \/ target # "attached" /\ Fail(j)
     \/ target = "attached" /\ Plan(j, {"node"}, "node")
  /\ UNCHANGED Unstored

rotateEncryptionKey(j) ==
  /\ Work(j, "KeyRotation", "node")
  /\ Call(j, "node", EncryptionKeyRotate, "status") \/ NoClient(j)
  /\ UNCHANGED Unstored

RotationStatus(j) == Work(j, "KeyRotation", "status") /\ UpdateStatus(j)

-----------------------------------------------------------------------------
\* A call of the API server fails: the claim is not read, or the status of the
\* attempt is lost.
ApiError(j) ==
  /\ "api" \in Faults
  /\ \/ pc[j] = "target" /\ Fail(j) /\ UNCHANGED <<cur, queue>>
     \/ pc[j] = "status" /\ Return(j, TRUE) /\ UNCHANGED pending
  /\ UNCHANGED <<stored, lowered, cache, target, now, kind>>

\* The manager restarts: every job is queued.
Crash ==
  /\ "crash" \in Faults
  /\ cache' = job
  /\ cacheCur' = [j \in Jobs |-> TRUE]
  /\ event' = [j \in Jobs |-> FALSE]
  /\ queue' = {j \in Jobs : job[j].exists}
  /\ pc' = [j \in Jobs |-> "idle"]
  /\ inst' = [j \in Jobs |-> NoJob]
  /\ cur' = [j \in Jobs |-> FALSE]
  /\ UNCHANGED <<job, lowered, target, pending, now, kind>>

-----------------------------------------------------------------------------
\* Jobs that have just been created, some of them without naming a claim.
NewJobs ==
  {o \in JobObjects : o.exists /\ ~o.deleting /\ ~o.start /\ o.retries = 0 /\ o.result = ""}

Init ==
  /\ kind \in [Jobs -> Kinds]
  /\ job \in [Jobs -> NewJobs]
  /\ lowered = [j \in Jobs |-> FALSE]
  /\ cache = job
  /\ cacheCur = [j \in Jobs |-> TRUE]
  /\ event = [j \in Jobs |-> FALSE]
  /\ queue = Jobs
  /\ pc = [j \in Jobs |-> "idle"]
  /\ inst = [j \in Jobs |-> NoJob]
  /\ cur = [j \in Jobs |-> FALSE]
  /\ target \in Targets
  /\ pending = [j \in Jobs |-> {}]
  /\ now = 0

Reconcile(j) ==
  \/ ReconcileReclaim(j) \/ ReclaimTarget(j) \/ nodeReclaimSpace(j)
  \/ controllerReclaimSpace(j) \/ ReclaimStatus(j)
  \/ ReconcileRotation(j) \/ RotationTarget(j) \/ rotateEncryptionKey(j)
  \/ RotationStatus(j)

Next ==
  \/ \E j \in Jobs :
       Sync(j) \/ EditLimit(j) \/ DeleteJob(j) \/ Reconcile(j) \/ ApiError(j)
  \/ Retarget \/ Tick \/ Crash

Spec == Init /\ [][Next]_vars

\* From some time on nobody edits or deletes jobs, and API server and manager
\* work; the driver need not.
FaultsCease == <>[][\/ \E j \in Jobs : Sync(j) \/ Reconcile(j)
                    \/ Retarget \/ Tick]_vars

\* Workers take queued keys, informers deliver, time goes by.
Fairness ==
  /\ \A j \in Jobs : WF_vars(Sync(j)) /\ WF_vars(Reconcile(j))
  /\ WF_vars(Tick)

FairSpec == Spec /\ Fairness /\ FaultsCease

-----------------------------------------------------------------------------
(* Properties.                                                             *)

Services == {"node", "controller"}

\* Jobs, instances and steps are what the types and Reconcile allow, and a
\* reconcile under way is about a job that was there.
TypeOK ==
  /\ kind \in [Jobs -> Kinds]
  /\ job \in [Jobs -> JobObjects]
  /\ lowered \in [Jobs -> BOOLEAN]
  /\ cache \in [Jobs -> JobObjects]
  /\ cacheCur \in [Jobs -> BOOLEAN]
  /\ event \in [Jobs -> BOOLEAN]
  /\ queue \subseteq Jobs
  /\ pc \in [Jobs -> {"idle", "target", "status"} \cup Services]
  /\ inst \in [Jobs -> JobObjects]
  /\ cur \in [Jobs -> BOOLEAN]
  /\ target \in Targets
  /\ pending \in [Jobs -> SUBSET Services]
  /\ now \in 0..MaxTime
  /\ \A j \in Jobs : pc[j] # "idle" => inst[j].exists

\* A job is not retried more often than its limit allows, however its attempts
\* end, are lost or repeated.  Only lowering the limit of a job that is being
\* retried gets it past the comparison in Reconcile, which is for equality.
RetriesWithinLimit ==
  \A j \in Jobs : job[j].retries > Limit(job[j]) => lowered[j]

\* The status that holds a result is final: reconciles that still work with an
\* older copy of the job may repeat the operation, but cannot report it.
ResultIsFinal ==
  [][\A j \in Jobs : job[j].result # "" /\ job'[j].exists =>
       /\ job'[j].result = job[j].result
       /\ job'[j].retries = job[j].retries]_vars

\* A job is reported as succeeded only by an attempt in which every service that
\* has to take part has done so or does not implement the operation.
SucceedsOnlyWhenDone ==
  [][\A j \in Jobs : job'[j].result = "Succeeded" /\ job[j].result = "" => pending[j] = {}]_vars

\* Every job comes to a result, even if the driver never answers and even past
\* its limit: the deadline sees to that.
Terminates ==
  \A j \in Jobs : <>(~job[j].exists \/ job[j].deleting \/ job[j].result # "")

\* What a job tells those who watch it.
phase == [j \in Jobs |->
  IF ~job[j].exists THEN "gone"
  ELSE IF job[j].result # "" THEN job[j].result
  ELSE IF job[j].start THEN "running" ELSE "waiting"]

Lifecycle == INSTANCE JobLifecycle

\* Both controllers implement the life of a job as cron jobs see it.
ImplementsLifecycle == Lifecycle!Spec
=============================================================================
