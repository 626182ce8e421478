------------------------- MODULE VolumeReplication -------------------------
(***************************************************************************)
(* The VolumeReplication (VR) controller for VRs whose data source is one  *)
(* PersistentVolumeClaim:                                                  *)
(* internal/controller/replication.storage/volumereplication_controller.go *)
(* with finalizers.go, pvc.go, status.go and utils.go.                     *)
(*                                                                         *)
(* The API server holds the VR objects and the claim; the controller reads *)
(* them from its informer cache, which lags.  A reconcile of one VR is a   *)
(* sequence of steps, one for each API write or driver call, in the order  *)
(* of Reconcile; reconciles of different VRs interleave, those of one VR   *)
(* never do (controller-runtime's work queue).  An API write succeeds only *)
(* when the copy it is based on is current (resourceVersion).              *)
(***************************************************************************)
EXTENDS Naturals, FiniteSets

CONSTANTS VRs,      \* names of the VolumeReplication objects
          None,     \* no owner annotation on the claim
          MaxGen,   \* bound on the creations and spec changes of one VR
          Faults    \* which of FaultKinds may happen

(***************************************************************************)
(* rpc: a driver call fails; class: the VolumeReplicationClass is missing  *)
(* or invalid; api: an API write fails or its answer is lost; crash: the   *)
(* manager restarts; claim: the user deletes the claim; lag: the claim is  *)
(* read from an informer cache that is behind the API server.              *)
(***************************************************************************)
FaultKinds == {"rpc", "class", "api", "crash", "claim", "lag"}

ASSUME VRAssumption == None \notin VRs /\ MaxGen \in Nat /\ Faults \subseteq FaultKinds

VARIABLES
  vr,         \* [VRs -> VR object]: what the API server stores
  pvc,        \* the claim the VRs name as data source, as stored
  vol,        \* the volume behind the claim, as the storage driver holds it
  cache,      \* [VRs -> VR object]: the informer's copy
  cacheCur,   \* [VRs -> BOOLEAN]: that copy has the latest resourceVersion
  pvcCache, pvcCacheCur,   \* the same for the claim
  queue,      \* keys waiting in the controller's work queue
  pc,         \* [VRs -> step]: where the reconcile of the VR stands
  inst, cur,  \* its in-memory instance, and whether that is the latest
  claim, claimCur,   \* its in-memory claim, and whether that is the latest
  after       \* what it returns once the status is written

stored  == <<vr, pvc, vol>>
informer == <<cache, cacheCur, pvcCache, pvcCacheCur>>
vars    == <<stored, informer, queue, pc, inst, cur, claim, claimCur, after>>

-----------------------------------------------------------------------------
(* Objects.  A condition is abstracted to its Reason, "none" when absent.  *)
(* gen stands for the pair of UID and metadata.generation: it keeps        *)
(* growing over a deletion and a new creation under the same name.         *)

ReplicationStates == {"primary", "secondary", "resync"}
States == {"", "Primary", "Secondary", "Unknown"}

Status ==
  [state       : States,
   observedGen : Nat,
   completed   : {"none", "Promoted", "Demoted",
                  "FailedToPromote", "FailedToDemote", "FailedToResync"},
   degraded    : {"none", "Healthy", "Error", "VolumeDegraded"},
   resyncing   : {"none", "NotResyncing", "ResyncTriggered", "FailedToResync"},
   validated   : {"none", "PrerequisiteMet", "PrerequisiteNotMet"},
   replicating : {"none", "True", "False", "Unknown"}]

NoStatus ==
  [state |-> "", observedGen |-> 0, completed |-> "none", degraded |-> "none",
   resyncing |-> "none", validated |-> "none", replicating |-> "none"]

VRObjects ==
  [exists : BOOLEAN, deleting : BOOLEAN, finalizer : BOOLEAN,
   spec : ReplicationStates, gen : Nat, status : Status]

NoVR ==
  [exists |-> FALSE, deleting |-> FALSE, finalizer |-> FALSE,
   spec |-> "primary", gen |-> 0, status |-> NoStatus]

Claims ==
  [exists : BOOLEAN, deleting : BOOLEAN, finalizer : BOOLEAN, owner : VRs \cup {None}]

BoundClaim == [exists |-> TRUE, deleting |-> FALSE, finalizer |-> FALSE, owner |-> None]

Volumes == [enabled : BOOLEAN, role : {"none", "primary", "secondary"}]

Steps ==
  {"idle", "vrFinalizer", "annotate", "pvcFinalizer", "begin",
   "enable", "promote", "forcePromote", "info", "demote", "resync", "status",
   "disable", "unannotate", "pvcUnfinalize", "vrUnfinalize"}

-----------------------------------------------------------------------------
(* Conditions (status.go) and states (utils.go).                           *)

setPromotedCondition(st) ==
  [st EXCEPT !.completed = "Promoted", !.degraded = "Healthy",
             !.resyncing = "NotResyncing"]

setFailedPromotionCondition(st) ==
  [st EXCEPT !.completed = "FailedToPromote", !.degraded = "Error",
             !.resyncing = "NotResyncing", !.validated = "PrerequisiteMet"]

setFailedValidationCondition(st) ==
  [st EXCEPT !.completed = "FailedToPromote", !.degraded = "Error",
             !.resyncing = "NotResyncing", !.validated = "PrerequisiteNotMet"]

setNotDegradedCondition(st) ==
  [st EXCEPT !.degraded = "Healthy", !.resyncing = "NotResyncing"]

setDemotedCondition(st) ==
  [st EXCEPT !.completed = "Demoted", !.degraded = "VolumeDegraded",
             !.resyncing = "NotResyncing"]

setFailedDemotionCondition(st) ==
  [st EXCEPT !.completed = "FailedToDemote", !.degraded = "Error",
             !.resyncing = "NotResyncing"]

setResyncCondition(st) ==
  [st EXCEPT !.completed = "Demoted", !.degraded = "VolumeDegraded",
             !.resyncing = "ResyncTriggered"]

setFailedResyncCondition(st) ==
  [st EXCEPT !.completed = "FailedToResync", !.degraded = "Error",
             !.resyncing = "FailedToResync"]

setFailureCondition(st, spec) ==
  CASE spec = "primary"   -> setFailedPromotionCondition(st)
    [] spec = "secondary" -> setFailedDemotionCondition(st)
    [] spec = "resync"    -> setFailedResyncCondition(st)

setReplicationCondition(st, reported) == [st EXCEPT !.replicating = reported]

removeReplicatingCondition(st) == [st EXCEPT !.replicating = "none"]

GetReplicationState(spec) == IF spec = "primary" THEN "Primary" ELSE "Secondary"

GetCurrentReplicationState(state) == IF state = "" THEN "Unknown" ELSE state

-----------------------------------------------------------------------------
(* The API server and the informers.                                       *)

\* A write of v's VR, by the user or by v's reconcile; mine: by the latter.
StoreVR(v, o, mine) ==
  /\ vr' = [vr EXCEPT ![v] = o]
  /\ cacheCur' = [cacheCur EXCEPT ![v] = FALSE]
  /\ cur' = [cur EXCEPT ![v] = mine]

\* A write of the claim by v's reconcile, or by the user when v = None.
StoreClaim(v, c) ==
  /\ pvc' = c
  /\ claimCur' = [w \in VRs |-> w = v]
  /\ IF "lag" \in Faults
       THEN pvcCacheCur' = FALSE /\ UNCHANGED pvcCache
       ELSE pvcCache' = c /\ UNCHANGED pvcCacheCur

\* The watch delivers the latest version of v; GenerationChangedPredicate
\* lets creations, deletions and generation changes through to the queue.
SyncVR(v) ==
  /\ ~cacheCur[v]
  /\ cache' = [cache EXCEPT ![v] = vr[v]]
  /\ cacheCur' = [cacheCur EXCEPT ![v] = TRUE]
  /\ queue' = IF cache[v].gen # vr[v].gen \/ cache[v].exists # vr[v].exists
                THEN queue \cup {v} ELSE queue
  /\ UNCHANGED <<stored, pvcCache, pvcCacheCur, pc, inst, cur, claim, claimCur, after>>

\* The claim is not watched for events, only cached.
SyncClaim ==
  /\ ~pvcCacheCur
  /\ pvcCache' = pvc
  /\ pvcCacheCur' = TRUE
  /\ UNCHANGED <<stored, cache, cacheCur, queue, pc, inst, cur, claim, claimCur, after>>

-----------------------------------------------------------------------------
(* The user.                                                               *)

reconciler == <<cache, queue, pc, inst, claim, after>>

CreateVR(v, s) ==
  /\ ~vr[v].exists
  /\ vr[v].gen < MaxGen
  /\ StoreVR(v, [NoVR EXCEPT !.exists = TRUE, !.spec = s, !.gen = vr[v].gen + 1], FALSE)
  /\ UNCHANGED <<pvc, vol, pvcCache, pvcCacheCur, claimCur, reconciler>>

EditSpec(v, s) ==
  /\ vr[v].exists
  /\ vr[v].spec # s
  /\ vr[v].gen < MaxGen
  /\ StoreVR(v, [vr[v] EXCEPT !.spec = s, !.gen = vr[v].gen + 1], FALSE)
  /\ UNCHANGED <<pvc, vol, pvcCache, pvcCacheCur, claimCur, reconciler>>

\* With a finalizer the object stays, marked; without one it is gone.
DeleteVR(v) ==
  /\ vr[v].exists
  /\ ~vr[v].deleting
  /\ StoreVR(v, IF vr[v].finalizer
                  THEN [vr[v] EXCEPT !.deleting = TRUE, !.gen = vr[v].gen + 1]
                  ELSE [NoVR EXCEPT !.gen = vr[v].gen], FALSE)
  /\ UNCHANGED <<pvc, vol, pvcCache, pvcCacheCur, claimCur, reconciler>>

DeleteClaim ==
  /\ "claim" \in Faults
  /\ pvc.exists
  /\ ~pvc.deleting
  /\ StoreClaim(None, [pvc EXCEPT !.deleting = TRUE])
  /\ UNCHANGED <<vr, vol, cacheCur, cur, reconciler>>

\* The API server drops the claim once no finalizer is left on it.
ClaimGone ==
  /\ pvc.exists
  /\ pvc.deleting
  /\ ~pvc.finalizer
  /\ StoreClaim(None, [pvc EXCEPT !.exists = FALSE])
  /\ UNCHANGED <<vr, vol, cacheCur, cur, reconciler>>

-----------------------------------------------------------------------------
(* The reconcile of v, step by step.                                       *)

Goto(v, step) == pc' = [pc EXCEPT ![v] = step]

\* Reconcile returns; an error or a RequeueAfter puts the key back.
Return(v, requeue) ==
  /\ pc' = [pc EXCEPT ![v] = "idle"]
  /\ inst' = [inst EXCEPT ![v] = NoVR]
  /\ cur' = [cur EXCEPT ![v] = FALSE]
  /\ claim' = [claim EXCEPT ![v] = BoundClaim]
  /\ claimCur' = [claimCur EXCEPT ![v] = FALSE]
  /\ after' = [after EXCEPT ![v] = FALSE]
  /\ queue' = IF requeue THEN queue \cup {v} ELSE queue

\* Variant: the error is logged and not returned.
Fail_returnsNil(v) == Return(v, FALSE) /\ UNCHANGED <<stored, informer>>

Fail(v) == Return(v, TRUE) /\ UNCHANGED <<stored, informer>>

\* On to updateReplicationStatus with state and the conditions of st;
\* requeue: what Reconcile returns if that write succeeds.
Finish(v, st, state, requeue) ==
  /\ Goto(v, "status")
  /\ inst' = [inst EXCEPT ![v].status =
                [st EXCEPT !.state = state, !.observedGen = inst[v].gen]]
  /\ after' = [after EXCEPT ![v] = requeue]

Ready(v) == pc[v] = "idle" /\ v \in queue

ReconcileNotFound(v) ==
  /\ Ready(v)
  /\ ~cache[v].exists
  /\ queue' = queue \ {v}
  /\ UNCHANGED <<stored, informer, pc, inst, cur, claim, claimCur, after>>

\* getPVCDataSource accepts the claim.
ClaimUsable(c) == c.exists /\ (c.deleting => c.finalizer)

\* The class is missing or invalid, or the claim cannot be used: the
\* failure is recorded with the current state and the error returned.
ReconcileInvalid(v) ==
  /\ Ready(v)
  /\ cache[v].exists
  /\ "class" \in Faults \/ ~ClaimUsable(pvcCache)
  /\ Goto(v, "status")
  /\ inst' = [inst EXCEPT ![v] =
       [cache[v] EXCEPT !.status =
         [setFailureCondition(cache[v].status, cache[v].spec) EXCEPT
            !.state = GetCurrentReplicationState(cache[v].status.state),
            !.observedGen = cache[v].gen]]]
  /\ cur' = [cur EXCEPT ![v] = cacheCur[v]]
  /\ after' = [after EXCEPT ![v] = TRUE]
  /\ queue' = queue \ {v}
  /\ UNCHANGED <<stored, informer, claim, claimCur>>

\* Variant: replication is disabled only if it is recorded as Primary.
FirstStep_disablesPrimary(i) ==
  IF ~i.deleting THEN "vrFinalizer"
  ELSE IF i.status.state = "Primary" THEN "disable" ELSE "unannotate"

\* Variant: only a VR that is to be primary protects itself and its claim.
FirstStep_protectsPrimary(i) ==
  IF i.deleting THEN "disable" ELSE IF i.spec = "primary" THEN "vrFinalizer" ELSE "begin"

FirstStep(i) == IF i.deleting THEN "disable" ELSE "vrFinalizer"

\* Everything is found.  (When no leading connection of the driver is known,
\* getReplicationClient fails and the key is queued again: nothing changes.)
ReconcileStart(v) ==
  /\ Ready(v)
  /\ cache[v].exists
  /\ ClaimUsable(pvcCache)
  /\ cache[v].deleting => cache[v].finalizer
  /\ Goto(v, FirstStep(cache[v]))
  /\ inst' = [inst EXCEPT ![v] = cache[v]]
  /\ cur' = [cur EXCEPT ![v] = cacheCur[v]]
  /\ claim' = [claim EXCEPT ![v] = pvcCache]
  /\ claimCur' = [claimCur EXCEPT ![v] = pvcCacheCur]
  /\ queue' = queue \ {v}
  /\ UNCHANGED <<stored, informer, after>>

locals == <<inst, cur, claim, claimCur, after>>

Skip(v, step) == Goto(v, step) /\ UNCHANGED <<stored, informer, queue, locals>>

addFinalizerToVR(v) ==
  /\ pc[v] = "vrFinalizer"
  /\ \/ inst[v].finalizer /\ Skip(v, "annotate")
     \/ /\ ~inst[v].finalizer
        /\ cur[v]
        /\ StoreVR(v, [vr[v] EXCEPT !.finalizer = TRUE], TRUE)
        /\ inst' = [inst EXCEPT ![v].finalizer = TRUE]
        /\ Goto(v, "annotate")
        /\ UNCHANGED <<pvc, vol, cache, pvcCache, pvcCacheCur, queue, claim, claimCur, after>>
     \/ /\ ~inst[v].finalizer
        /\ ~cur[v]
        /\ Fail(v)

\* A write of the in-memory claim, then the next step; a conflict fails.
UpdateClaim(v, c, step) ==
  \/ /\ claimCur[v]
     /\ StoreClaim(v, c)
     /\ claim' = [claim EXCEPT ![v] = c]
     /\ Goto(v, step)
     /\ UNCHANGED <<vr, vol, cache, cacheCur, queue, inst, cur, after>>
  \/ /\ ~claimCur[v]
     /\ Fail(v)

\* A claim owned by another VR ends the reconcile with an error.
annotatePVCWithOwner(v) ==
  /\ pc[v] = "annotate"
  /\ \/ /\ claim[v].owner = None
        /\ UpdateClaim(v, [claim[v] EXCEPT !.owner = v], "pvcFinalizer")
     \/ claim[v].owner = v /\ Skip(v, "pvcFinalizer")
     \/ claim[v].owner \notin {None, v} /\ Fail(v)

addFinalizerToPVC(v) ==
  /\ pc[v] = "pvcFinalizer"
  /\ \/ claim[v].finalizer /\ Skip(v, "begin")
     \/ /\ ~claim[v].finalizer
        /\ UpdateClaim(v, [claim[v] EXCEPT !.finalizer = TRUE], "begin")

\* Variant: a VR recorded as Secondary is not demoted again.
DriverCall_demotesOnce(i) ==
  CASE i.spec = "primary" -> IF i.status.state = "Primary" THEN "info" ELSE "enable"
    [] i.spec = "secondary" -> IF i.status.state = "Secondary" THEN "resync" ELSE "demote"
    [] i.spec = "resync" -> "resync"

\* Variant: replication is enabled in the first reconcile only.
DriverCall_enablesOnce(i) ==
  CASE i.spec = "primary" -> IF i.status.state = "Primary" THEN "info"
                             ELSE IF i.status.state = "" THEN "enable" ELSE "promote"
    [] i.spec = "secondary" -> "demote"
    [] i.spec = "resync" -> "resync"

\* The desired state, and for primary the recorded one, choose the first call.
DriverCall(i) ==
  CASE i.spec = "primary" -> IF i.status.state = "Primary" THEN "info" ELSE "enable"
    [] i.spec = "secondary" -> "demote"
    [] i.spec = "resync" -> "resync"

\* LastStartTime is written with a plain Update: the status subresource makes
\* it a write of nothing, but it fails unless the instance is current.
UpdateLastStartTime(v) ==
  /\ pc[v] = "begin"
  /\ \/ /\ cur[v]
        /\ Goto(v, DriverCall(inst[v]))
        /\ inst' = [inst EXCEPT ![v].status =
                      IF DriverCall(inst[v]) = "info" THEN setPromotedCondition(@) ELSE @]
        /\ UNCHANGED <<stored, informer, queue, cur, claim, claimCur, after>>
     \/ ~cur[v] /\ Fail(v)

(* Driver calls.  executed: the driver carried the call out, whether or    *)
(* not the controller received the answer.                                 *)

Outcomes == {"ok"} \cup (IF "rpc" \in Faults THEN {"error", "lost"} ELSE {})

Call(outcome, v2) == vol' = IF outcome \in {"ok", "lost"} THEN v2 ELSE vol

callUnchanged == <<vr, pvc, informer, queue, cur, claim, claimCur>>

\* Variant: the error is recorded and not returned.
FinishFailed_returnsNil(v, st) ==
  Finish(v, st, GetCurrentReplicationState(inst[v].status.state), FALSE)

FinishFailed(v, st) == Finish(v, st, GetCurrentReplicationState(inst[v].status.state), TRUE)

enableReplication(v, outcome) ==
  /\ pc[v] = "enable"
  /\ Call(outcome, [vol EXCEPT !.enabled = TRUE])
  /\ \/ /\ outcome = "ok"
        /\ Goto(v, "promote")
        /\ UNCHANGED <<inst, after>>
     \/ /\ outcome # "ok"
        /\ FinishFailed(v, setFailedPromotionCondition(inst[v].status))
     \/ /\ outcome = "error"      \* FailedPrecondition
        /\ FinishFailed(v, setFailedValidationCondition(inst[v].status))
  /\ UNCHANGED callUnchanged

\* markVolumeAsPrimary: a FailedPrecondition answer is followed by a forced
\* promotion, every other error ends the promotion.
markVolumeAsPrimary(v, outcome) ==
  /\ pc[v] \in {"promote", "forcePromote"}
  /\ Call(outcome, [vol EXCEPT !.role = "primary"])
  /\ \/ /\ outcome = "ok"
        /\ inst' = [inst EXCEPT ![v].status = setPromotedCondition(inst[v].status)]
        /\ Goto(v, "info")
        /\ UNCHANGED after
     \/ /\ outcome = "error"      \* FailedPrecondition
        /\ pc[v] = "promote"
        /\ Goto(v, "forcePromote")
        /\ UNCHANGED <<inst, after>>
     \/ /\ outcome # "ok"
        /\ FinishFailed(v, setFailedPromotionCondition(inst[v].status))
  /\ UNCHANGED callUnchanged

InfoAnswers == {"True", "False", "Unknown", "NotFound", "Unimplemented"}

\* An error other than NotFound and Unimplemented is recorded as Unknown.
getVolumeReplicationInfo(v, answer) ==
  /\ pc[v] = "info"
  /\ Finish(v, IF answer \in {"True", "False", "Unknown"}
                 THEN setReplicationCondition(inst[v].status, answer)
                 ELSE inst[v].status,
            GetReplicationState(inst[v].spec), answer # "Unimplemented")
  /\ UNCHANGED <<vol, callUnchanged>>

\* Variant: the first demotion does not come back for the resync.
FinishFirstDemotion_noRequeue(v) ==
  Finish(v, setDemotedCondition(inst[v].status), GetReplicationState(inst[v].spec), FALSE)

FinishFirstDemotion(v) ==
  Finish(v, setDemotedCondition(inst[v].status), GetReplicationState(inst[v].spec), TRUE)

\* The first demotion records the state and comes back later; once the state
\* is Secondary every demotion is followed by a resync.
markVolumeAsSecondary(v, outcome) ==
  /\ pc[v] = "demote"
  /\ Call(outcome, [vol EXCEPT !.role = "secondary"])
  /\ \/ /\ outcome = "ok"
        /\ inst[v].status.state # "Secondary"
        /\ FinishFirstDemotion(v)
     \/ /\ outcome = "ok"
        /\ inst[v].status.state = "Secondary"
        /\ inst' = [inst EXCEPT ![v].status = setDemotedCondition(inst[v].status)]
        /\ Goto(v, "resync")
        /\ UNCHANGED after
     \/ /\ outcome # "ok"
        /\ FinishFailed(v, setFailedDemotionCondition(inst[v].status))
  /\ UNCHANGED callUnchanged

\* ready: the driver's answer that the volume is in sync.
resyncVolume(v, outcome, ready) ==
  /\ pc[v] = "resync"
  /\ \/ /\ outcome = "ok"
        /\ ready
        /\ LET st == setNotDegradedCondition(setResyncCondition(inst[v].status))
           IN  Finish(v, IF inst[v].spec = "secondary"
                           THEN removeReplicatingCondition(st) ELSE st,
                      GetReplicationState(inst[v].spec), FALSE)
     \/ /\ outcome = "ok"
        /\ ~ready
        /\ FinishFailed(v, removeReplicatingCondition(setResyncCondition(inst[v].status)))
     \/ /\ outcome # "ok"
        /\ FinishFailed(v, setFailedResyncCondition(inst[v].status))
  /\ UNCHANGED <<vol, callUnchanged>>

\* Status().Update; an error is returned or the key comes back anyway.
updateReplicationStatus(v) ==
  /\ pc[v] = "status"
  /\ \/ /\ cur[v]
        /\ vr' = [vr EXCEPT ![v].status = inst[v].status]
        /\ cacheCur' = [cacheCur EXCEPT ![v] = FALSE]
        /\ Return(v, after[v])
        /\ UNCHANGED <<pvc, vol, cache, pvcCache, pvcCacheCur>>
     \/ ~cur[v] /\ Fail(v)

\* NotFound counts as success: a volume the driver does not know is not
\* replicated.
disableVolumeReplication(v, outcome) ==
  /\ pc[v] = "disable"
  /\ Call(outcome, [enabled |-> FALSE, role |-> "none"])
  /\ \/ /\ outcome = "ok"
        /\ Goto(v, "unannotate")
        /\ UNCHANGED <<queue, locals>>
     \/ outcome # "ok" /\ Return(v, TRUE)
  /\ UNCHANGED <<vr, pvc, informer>>

\* Variant: only a claim that carries the finalizer has its owner removed.
removeOwnerFromPVCAnnotation_onlyFinalized(v) ==
  /\ pc[v] = "unannotate"
  /\ \/ ~claim[v].finalizer /\ Skip(v, "pvcUnfinalize")
     \/ /\ claim[v].finalizer
        /\ UpdateClaim(v, [claim[v] EXCEPT !.owner = None], "pvcUnfinalize")

\* The annotation is removed whichever VR it names.
removeOwnerFromPVCAnnotation(v) ==
  /\ pc[v] = "unannotate"
  /\ \/ claim[v].owner = None /\ Skip(v, "pvcUnfinalize")
     \/ /\ claim[v].owner # None
        /\ UpdateClaim(v, [claim[v] EXCEPT !.owner = None], "pvcUnfinalize")

\* Variant: the finalizer stays.
removeFinalizerFromPVC_skipped(v) == pc[v] = "pvcUnfinalize" /\ Skip(v, "vrUnfinalize")

removeFinalizerFromPVC(v) ==
  /\ pc[v] = "pvcUnfinalize"
  /\ \/ ~claim[v].finalizer /\ Skip(v, "vrUnfinalize")
     \/ /\ claim[v].finalizer
        /\ UpdateClaim(v, [claim[v] EXCEPT !.finalizer = FALSE], "vrUnfinalize")

\* The last finalizer of a marked object: the API server drops the VR.
removeFinalizerFromVR(v) ==
  /\ pc[v] = "vrUnfinalize"
  /\ \/ /\ cur[v]
        /\ vr' = [vr EXCEPT ![v] = [NoVR EXCEPT !.gen = vr[v].gen]]
        /\ cacheCur' = [cacheCur EXCEPT ![v] = FALSE]
        /\ Return(v, FALSE)
        /\ UNCHANGED <<pvc, vol, cache, pvcCache, pvcCacheCur>>
     \/ ~cur[v] /\ Fail(v)

-----------------------------------------------------------------------------
(* Failures.                                                               *)

ApiSteps ==
  {"vrFinalizer", "annotate", "pvcFinalizer", "begin", "status",
   "unannotate", "pvcUnfinalize", "vrUnfinalize"}

\* An API write fails before it is applied; when the answer to an applied
\* write is lost, the reconcile fails at its next step.
ApiError(v) ==
  /\ "api" \in Faults
  /\ pc[v] \in ApiSteps
  /\ Fail(v)

\* The manager restarts: reconciles in progress are lost, the informers list
\* everything again and every VR found is queued.
Crash ==
  /\ "crash" \in Faults
  /\ pc' = [v \in VRs |-> "idle"]
  /\ inst' = [v \in VRs |-> NoVR]
  /\ cur' = [v \in VRs |-> FALSE]
  /\ claim' = [v \in VRs |-> BoundClaim]
  /\ claimCur' = [v \in VRs |-> FALSE]
  /\ after' = [v \in VRs |-> FALSE]
  /\ cache' = vr
  /\ cacheCur' = [v \in VRs |-> TRUE]
  /\ pvcCache' = pvc
  /\ pvcCacheCur' = TRUE
  /\ queue' = {v \in VRs : vr[v].exists}
  /\ UNCHANGED stored

-----------------------------------------------------------------------------
Init ==
  /\ vr = [v \in VRs |-> NoVR]
  /\ pvc = BoundClaim
  /\ vol = [enabled |-> FALSE, role |-> "none"]
  /\ cache = vr
  /\ cacheCur = [v \in VRs |-> TRUE]
  /\ pvcCache = pvc
  /\ pvcCacheCur = TRUE
  /\ queue = {}
  /\ pc = [v \in VRs |-> "idle"]
  /\ inst = [v \in VRs |-> NoVR]
  /\ cur = [v \in VRs |-> FALSE]
  /\ claim = [v \in VRs |-> BoundClaim]
  /\ claimCur = [v \in VRs |-> FALSE]
  /\ after = [v \in VRs |-> FALSE]

User(v) ==
  \/ \E s \in ReplicationStates : CreateVR(v, s) \/ EditSpec(v, s)
  \/ DeleteVR(v)

\* outcomes: how driver calls may end; sync: what resyncs may report.
Reconcile(v, outcomes, sync) ==
  \/ ReconcileNotFound(v)
  \/ ReconcileStart(v)
  \/ addFinalizerToVR(v)
  \/ annotatePVCWithOwner(v)
  \/ addFinalizerToPVC(v)
  \/ UpdateLastStartTime(v)
  \/ \E outcome \in outcomes :
        \/ enableReplication(v, outcome)
        \/ markVolumeAsPrimary(v, outcome)
        \/ markVolumeAsSecondary(v, outcome)
        \/ \E ready \in sync : resyncVolume(v, outcome, ready)
        \/ disableVolumeReplication(v, outcome)
  \/ \E answer \in InfoAnswers : getVolumeReplicationInfo(v, answer)
  \/ updateReplicationStatus(v)
  \/ removeOwnerFromPVCAnnotation(v)
  \/ removeFinalizerFromPVC(v)
  \/ removeFinalizerFromVR(v)

Environment == (\E v \in VRs : User(v)) \/ DeleteClaim \/ ClaimGone \/ SyncClaim

Next ==
  \/ Environment
  \/ \E v \in VRs : \/ SyncVR(v)
                     \/ ReconcileInvalid(v)
                     \/ Reconcile(v, Outcomes, BOOLEAN)
                     \/ ApiError(v)
  \/ Crash

Spec == Init /\ [][Next]_vars

\* A step of a reconcile that does not fail for a reason outside it.
Progress(v) ==
  \/ Reconcile(v, {"ok"}, {TRUE})
  \/ ReconcileInvalid(v) /\ ~ClaimUsable(pvcCache)

\* The faults of the driver, the API server and the manager cease some time,
\* and resyncs finish: the work queue retries whatever they broke.
FaultsCease ==
  <>[][Environment \/ \E v \in VRs : SyncVR(v) \/ Progress(v)]_vars

\* The informers deliver, the API server collects, a worker takes a queued key.
Fairness ==
  /\ WF_vars(SyncClaim)
  /\ WF_vars(ClaimGone)
  /\ \A v \in VRs : WF_vars(SyncVR(v)) /\ WF_vars(Progress(v))

FairSpec == Spec /\ Fairness /\ FaultsCease

-----------------------------------------------------------------------------
(* Properties.                                                             *)

\* The VRs that carry the controller's finalizer hold the volume.
Holders == {v \in VRs : vr[v].exists /\ vr[v].finalizer}

Lifecycle ==
  INSTANCE ReplicationLifecycle
    WITH holders <- Holders, enabled <- vol.enabled, role <- vol.role

\* The controller implements the life cycle: it never enables, promotes or
\* demotes a volume that no VR holds, and the last holder leaves only after
\* the driver has disabled replication.
ImplementsLifecycle == Lifecycle!Spec

\* Objects, copies, queue and steps are what the API types and Reconcile allow;
\* in particular every condition keeps to the reasons of volumereplication_types.go.
TypeOK ==
  /\ vr \in [VRs -> VRObjects]
  /\ pvc \in Claims
  /\ vol \in Volumes
  /\ cache \in [VRs -> VRObjects]
  /\ cacheCur \in [VRs -> BOOLEAN]
  /\ pvcCache \in Claims
  /\ pvcCacheCur \in BOOLEAN
  /\ queue \subseteq VRs
  /\ pc \in [VRs -> Steps]
  /\ inst \in [VRs -> VRObjects]
  /\ cur \in [VRs -> BOOLEAN]
  /\ claim \in [VRs -> Claims]
  /\ claimCur \in [VRs -> BOOLEAN]
  /\ after \in [VRs -> BOOLEAN]

\* A volume is replicated only while some VR that will disable replication on
\* its deletion still exists.
NoOrphanReplication ==
  vol.enabled => \E v \in VRs : vr[v].exists /\ vr[v].finalizer

\* The claim carries the replication finalizer only while some VR that will
\* take it off again still exists: no claim is left that cannot be deleted.
NoLeakedProtection ==
  pvc.finalizer => \E v \in VRs : vr[v].exists /\ vr[v].finalizer

\* The owner annotation of the claim never names a VR that is gone.
OwnerExists ==
  \A v \in VRs : pvc.owner = v => vr[v].exists /\ vr[v].finalizer

\* A replicated volume's claim cannot disappear, and says who replicates it.
ProtectedWhileEnabled ==
  vol.enabled => pvc.exists /\ pvc.finalizer /\ pvc.owner # None

\* No event of v is on its way to the controller and none is queued.
Settled(v) ==
  /\ vr[v].exists
  /\ pc[v] = "idle"
  /\ v \notin queue
  /\ cache[v].gen = vr[v].gen
  /\ cache[v].exists

\* The controller never comes to rest on unfinished work: whatever raced with
\* the last reconcile, a VR at rest is not waiting for deletion and its status
\* answers its present spec.
RestsOnlyWhenDone ==
  \A v \in VRs : Settled(v) =>
    /\ ~vr[v].deleting
    /\ vr[v].status.observedGen = vr[v].gen
    /\ vr[v].status.state = GetReplicationState(vr[v].spec)

\* A VR at rest as secondary has been demoted and resynced.
RestingSecondaryIsInSync ==
  \A v \in VRs : Settled(v) /\ vr[v].spec = "secondary" =>
    /\ vol.role = "secondary"
    /\ vr[v].status.completed = "Demoted"
    /\ vr[v].status.degraded = "Healthy"
    /\ vr[v].status.replicating = "none"

\* The Demoted condition for the present generation of a secondary VR: the
\* driver holds the volume as secondary.
DemotedIsSecondary ==
  \A v \in VRs :
    /\ vr[v].exists /\ ~vr[v].deleting /\ vr[v].spec = "secondary"
    /\ vr[v].status.observedGen = vr[v].gen
    /\ vr[v].status.completed = "Demoted"
    => vol.role = "secondary"

\* The same of the Promoted condition.
PromotedIsPrimary ==
  \A v \in VRs :
    /\ vr[v].exists /\ ~vr[v].deleting /\ vr[v].spec = "primary"
    /\ vr[v].status.observedGen = vr[v].gen
    /\ vr[v].status.completed = "Promoted"
    => vol.role = "primary"

\* The Replicating condition, which only a primary is given, is gone once a VR
\* rests as secondary.
NotReplicatingWhenSecondary ==
  \A v \in VRs : Settled(v) /\ vr[v].status.state = "Secondary" =>
    vr[v].status.replicating = "none"

\* No volume is promoted whose replication is not enabled.
PromotesOnlyEnabled ==
  [][vol.role # "primary" /\ vol'.role = "primary" => vol.enabled]_vars

\* A VR that exists and is not being deleted keeps the claim it owns.
OwnerKept ==
  [][\A v \in VRs : pvc.owner = v /\ vr[v].exists /\ ~vr[v].deleting => pvc'.owner = v]_vars

\* A VR marked for deletion is disabled, released and removed in the end.
DeletionCompletes == \A v \in VRs : vr[v].deleting ~> ~vr[v].deleting

\* Once the user leaves a VR alone its status comes to answer its spec and
\* stays so, through every later requeue.
StatusConverges ==
  \A v \in VRs :
    <>[](vr[v].exists /\ ~vr[v].deleting =>
          /\ vr[v].status.observedGen = vr[v].gen
          /\ vr[v].status.state = GetReplicationState(vr[v].spec))
=============================================================================
