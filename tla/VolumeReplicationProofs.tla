---------------------- MODULE VolumeReplicationProofs ----------------------
(***************************************************************************)
(* Theorems about VolumeReplication for any set of VRs, any bound MaxGen   *)
(* and any set of faults; where a result needs that one VR names the claim *)
(* (OneVR) or that the claim's informer does not lag (NoLag), its theorem  *)
(* assumes it.                                                             *)
(***************************************************************************)
EXTENDS VolumeReplication, TLAPS

-----------------------------------------------------------------------------
(* Type correctness.                                                       *)

\* Every condition setter of status.go keeps the status well formed.
LEMMA StatusSetters ==
  ASSUME NEW st \in Status
  PROVE  /\ setPromotedCondition(st) \in Status
         /\ setFailedPromotionCondition(st) \in Status
         /\ setFailedValidationCondition(st) \in Status
         /\ setNotDegradedCondition(st) \in Status
         /\ setDemotedCondition(st) \in Status
         /\ setFailedDemotionCondition(st) \in Status
         /\ setResyncCondition(st) \in Status
         /\ setFailedResyncCondition(st) \in Status
         /\ removeReplicatingCondition(st) \in Status
         /\ \A a \in {"True", "False", "Unknown"} : setReplicationCondition(st, a) \in Status
         /\ \A s \in ReplicationStates : setFailureCondition(st, s) \in Status
         /\ GetCurrentReplicationState(st.state) \in States
         /\ \A s \in States, g \in Nat : [st EXCEPT !.state = s, !.observedGen = g] \in Status
  <1>1. setPromotedCondition(st) \in Status
    BY Zenon DEF Status, setPromotedCondition
  <1>2. setFailedPromotionCondition(st) \in Status
    BY Zenon DEF Status, setFailedPromotionCondition
  <1>3. setFailedValidationCondition(st) \in Status
    BY Zenon DEF Status, setFailedValidationCondition
  <1>4. setNotDegradedCondition(st) \in Status
    BY Zenon DEF Status, setNotDegradedCondition
  <1>5. setDemotedCondition(st) \in Status
    BY Zenon DEF Status, setDemotedCondition
  <1>6. setFailedDemotionCondition(st) \in Status
    BY Zenon DEF Status, setFailedDemotionCondition
  <1>7. setResyncCondition(st) \in Status
    BY Zenon DEF Status, setResyncCondition
  <1>8. setFailedResyncCondition(st) \in Status
    BY Zenon DEF Status, setFailedResyncCondition
  <1>9. removeReplicatingCondition(st) \in Status
    BY Zenon DEF Status, removeReplicatingCondition
  <1>10. \A a \in {"True", "False", "Unknown"} : setReplicationCondition(st, a) \in Status
    BY Zenon DEF Status, setReplicationCondition
  <1>11. \A s \in ReplicationStates : setFailureCondition(st, s) \in Status
    BY Zenon, <1>2, <1>6, <1>8 DEF ReplicationStates, setFailureCondition
  <1>12. GetCurrentReplicationState(st.state) \in States
    BY Zenon DEF Status, States, GetCurrentReplicationState
  <1>13. \A s \in States, g \in Nat : [st EXCEPT !.state = s, !.observedGen = g] \in Status
    BY Zenon DEF Status
  <1>14. QED
    BY Zenon, <1>1, <1>2, <1>3, <1>4, <1>5, <1>6, <1>7, <1>8, <1>9, <1>10, <1>11, <1>12, <1>13

\* The objects the initial state and a returning reconcile are made of.
LEMMA Constants == NoStatus \in Status /\ NoVR \in VRObjects /\ BoundClaim \in Claims
  <1>1. NoStatus \in Status
    BY Zenon DEF NoStatus, Status, States
  <1>2. NoVR \in VRObjects
    BY Zenon, <1>1 DEF VRObjects, NoVR, ReplicationStates
  <1>3. BoundClaim \in Claims
    BY Zenon DEF Claims, BoundClaim
  <1>4. QED
    BY Zenon, <1>1, <1>2, <1>3

\* The updates of a VR that the actions make keep it well formed.
LEMMA VRUpdates ==
  ASSUME NEW o \in VRObjects
  PROVE  /\ o.status \in Status /\ o.spec \in ReplicationStates /\ o.gen \in Nat
         /\ [o EXCEPT !.finalizer = TRUE] \in VRObjects
         /\ \A st \in Status : [o EXCEPT !.status = st] \in VRObjects
         /\ \A s \in ReplicationStates : [o EXCEPT !.spec = s, !.gen = o.gen + 1] \in VRObjects
         /\ [o EXCEPT !.deleting = TRUE, !.gen = o.gen + 1] \in VRObjects
         /\ [NoVR EXCEPT !.gen = o.gen] \in VRObjects
         /\ \A s \in ReplicationStates :
              [NoVR EXCEPT !.exists = TRUE, !.spec = s, !.gen = o.gen + 1] \in VRObjects
  <1>2. /\ o.status \in Status /\ o.spec \in ReplicationStates /\ o.gen \in Nat
        /\ o.gen + 1 \in Nat
    BY DEF VRObjects
  <1>3. [o EXCEPT !.finalizer = TRUE] \in VRObjects
    BY Zenon DEF VRObjects
  <1>4. \A st \in Status : [o EXCEPT !.status = st] \in VRObjects
    BY Zenon DEF VRObjects
  <1>5. \A s \in ReplicationStates : [o EXCEPT !.spec = s, !.gen = o.gen + 1] \in VRObjects
    BY Zenon, <1>2 DEF VRObjects
  <1>6. [o EXCEPT !.deleting = TRUE, !.gen = o.gen + 1] \in VRObjects
    BY Zenon, <1>2 DEF VRObjects
  <1>7. NoVR \in VRObjects
    BY Zenon, Constants
  <1>8. [NoVR EXCEPT !.gen = o.gen] \in VRObjects
    BY Zenon, <1>2, <1>7 DEF VRObjects
  <1>9. \A s \in ReplicationStates :
          [NoVR EXCEPT !.exists = TRUE, !.spec = s, !.gen = o.gen + 1] \in VRObjects
    BY Zenon, <1>2, <1>7 DEF VRObjects
  <1>10. QED
    BY Zenon, <1>2, <1>3, <1>4, <1>5, <1>6, <1>7, <1>8, <1>9

\* The updates of the claim (pvc.go, finalizers.go) keep it well formed.
LEMMA ClaimUpdates ==
  ASSUME NEW c \in Claims
  PROVE  /\ \A b \in BOOLEAN : [c EXCEPT !.finalizer = b] \in Claims
         /\ \A w \in VRs \cup {None} : [c EXCEPT !.owner = w] \in Claims
         /\ [c EXCEPT !.deleting = TRUE] \in Claims
         /\ [c EXCEPT !.exists = FALSE] \in Claims
  BY Zenon DEF Claims

\* The effects of the driver calls keep the volume well formed.
LEMMA VolumeUpdates ==
  ASSUME NEW x \in Volumes
  PROVE  /\ [x EXCEPT !.enabled = TRUE] \in Volumes
         /\ \A r \in {"primary", "secondary"} : [x EXCEPT !.role = r] \in Volumes
         /\ [enabled |-> FALSE, role |-> "none"] \in Volumes
  BY Zenon DEF Volumes

-----------------------------------------------------------------------------
\* Every variable keeps its type.
THEOREM TypeCorrect == Spec => []TypeOK
  <1>1. Init => TypeOK
    BY Constants DEF Init, TypeOK, Volumes, Steps
  <1>2. TypeOK /\ [Next]_vars => TypeOK'
    <2>. SUFFICES ASSUME TypeOK, [Next]_vars PROVE TypeOK'
      BY Zenon
    <2>0. /\ \A w \in VRs : vr[w] \in VRObjects /\ cache[w] \in VRObjects /\ inst[w] \in VRObjects
          /\ \A w \in VRs : claim[w] \in Claims /\ after[w] \in BOOLEAN
          /\ NoVR \in VRObjects /\ BoundClaim \in Claims
      BY Zenon, Constants DEF TypeOK
    <2>1. ASSUME NEW v \in VRs, User(v) PROVE TypeOK'
      <3>0. vr[v] \in VRObjects
        BY Zenon, <2>0
      <3>1. \E o \in VRObjects : vr' = [vr EXCEPT ![v] = o]
        <4>1. ASSUME NEW s \in ReplicationStates, CreateVR(v, s)
              PROVE  \E o \in VRObjects : vr' = [vr EXCEPT ![v] = o]
          <5>1. [NoVR EXCEPT !.exists = TRUE, !.spec = s, !.gen = vr[v].gen + 1] \in VRObjects
            BY Zenon, <3>0, VRUpdates
          <5>2. QED
            BY Zenon, <4>1, <5>1 DEF CreateVR, StoreVR
        <4>2. ASSUME NEW s \in ReplicationStates, EditSpec(v, s)
              PROVE  \E o \in VRObjects : vr' = [vr EXCEPT ![v] = o]
          <5>1. [vr[v] EXCEPT !.spec = s, !.gen = vr[v].gen + 1] \in VRObjects
            BY Zenon, <3>0, VRUpdates
          <5>2. QED
            BY Zenon, <4>2, <5>1 DEF EditSpec, StoreVR
        <4>3. CASE DeleteVR(v)
          <5>1. /\ [vr[v] EXCEPT !.deleting = TRUE, !.gen = vr[v].gen + 1] \in VRObjects
                /\ [NoVR EXCEPT !.gen = vr[v].gen] \in VRObjects
            BY Zenon, <3>0, VRUpdates
          <5>2. QED
            BY Zenon, <4>3, <5>1 DEF DeleteVR, StoreVR
        <4>4. QED
          BY Zenon, <2>1, <4>1, <4>2, <4>3 DEF User
      <3>2. vr' \in [VRs -> VRObjects]
        BY Zenon, <3>1 DEF TypeOK
      <3>3. /\ cacheCur' = [cacheCur EXCEPT ![v] = FALSE]
            /\ cur' = [cur EXCEPT ![v] = FALSE]
            /\ UNCHANGED <<pvc, vol, pvcCache, pvcCacheCur, claimCur, reconciler>>
        BY Zenon, <2>1 DEF User, CreateVR, EditSpec, DeleteVR, StoreVR
      <3>4. QED
        BY Zenon, <3>2, <3>3 DEF TypeOK, reconciler
    <2>2. CASE DeleteClaim \/ ClaimGone \/ SyncClaim
      BY Zenon, <2>2, ClaimUpdates
      DEF TypeOK, DeleteClaim, ClaimGone, SyncClaim, StoreClaim, reconciler, stored
    <2>3. CASE Crash
      BY Zenon, <2>0, <2>3 DEF TypeOK, Crash, stored, Steps
    <2>4. ASSUME NEW v \in VRs, SyncVR(v) PROVE TypeOK'
      BY Zenon, <2>0, <2>4 DEF TypeOK, SyncVR, stored
    <2>5. ASSUME NEW v \in VRs, ReconcileInvalid(v) PROVE TypeOK'
      <3>1. setFailureCondition(cache[v].status, cache[v].spec) \in Status
        BY Zenon, <2>0, VRUpdates, StatusSetters
      <3>2. GetCurrentReplicationState(cache[v].status.state) \in States /\ cache[v].gen \in Nat
        BY Zenon, <2>0, VRUpdates, StatusSetters
      <3>3. inst' \in [VRs -> VRObjects]
        BY Zenon, <2>0, <2>5, <3>1, <3>2, VRUpdates, StatusSetters DEF TypeOK, ReconcileInvalid
      <3>4. QED
        BY Zenon, <3>3, <2>5 DEF TypeOK, ReconcileInvalid, Goto, stored, informer, Steps
    <2>6. ASSUME NEW v \in VRs, ReconcileNotFound(v) \/ ReconcileStart(v) PROVE TypeOK'
      BY <2>0, <2>6
      DEF TypeOK, ReconcileNotFound, ReconcileStart, FirstStep, Goto, stored, informer, Steps
    <2>7. ASSUME NEW v \in VRs, NEW b \in BOOLEAN, Return(v, b)
          PROVE /\ pc' \in [VRs -> Steps] /\ inst' \in [VRs -> VRObjects]
                /\ cur' \in [VRs -> BOOLEAN] /\ claim' \in [VRs -> Claims]
                /\ claimCur' \in [VRs -> BOOLEAN] /\ after' \in [VRs -> BOOLEAN]
                /\ queue' \subseteq VRs
      BY Zenon, <2>0, <2>7 DEF TypeOK, Return, Steps
    <2>8. ASSUME NEW v \in VRs, Fail(v) PROVE TypeOK'
      BY Zenon, <2>7, <2>8 DEF TypeOK, Fail, stored, informer
    <2>9. ASSUME NEW v \in VRs, NEW c \in Claims, NEW step \in Steps, UpdateClaim(v, c, step)
           PROVE TypeOK'
      <3>1. CASE Fail(v)
        BY Zenon, <2>8, <3>1
      <3>2. CASE ~Fail(v)
        <4>1. StoreClaim(v, c) /\ claim' = [claim EXCEPT ![v] = c] /\ pc' = [pc EXCEPT ![v] = step]
              /\ UNCHANGED <<vr, vol, cache, cacheCur, queue, inst, cur, after>>
          BY Zenon, <2>9, <3>2 DEF UpdateClaim, Goto
        <4>2. /\ pvc' \in Claims /\ pvcCache' \in Claims /\ pvcCacheCur' \in BOOLEAN
              /\ claimCur' \in [VRs -> BOOLEAN]
          BY Zenon, <4>1, <2>9 DEF TypeOK, StoreClaim
        <4>3. QED
          BY Zenon, <4>1, <4>2, <2>9 DEF TypeOK
      <3>3. QED
        BY Zenon, <3>1, <3>2
    <2>10. ASSUME NEW v \in VRs, NEW step \in Steps, Skip(v, step) PROVE TypeOK'
      BY Zenon, <2>10 DEF TypeOK, Skip, Goto, stored, informer, locals
    <2>11. ASSUME NEW v \in VRs, addFinalizerToVR(v) PROVE TypeOK'
      <3>1. CASE Fail(v)
        BY Zenon, <2>8, <3>1
      <3>2. CASE Skip(v, "annotate")
        BY Zenon, <2>10, <3>2 DEF Steps
      <3>3. CASE ~Fail(v) /\ ~Skip(v, "annotate")
        <4>1. /\ [vr[v] EXCEPT !.finalizer = TRUE] \in VRObjects
              /\ [inst[v] EXCEPT !.finalizer = TRUE] \in VRObjects
          BY Zenon, <2>0, VRUpdates
        <4>2. /\ vr' = [vr EXCEPT ![v] = [vr[v] EXCEPT !.finalizer = TRUE]]
              /\ inst' = [inst EXCEPT ![v] = [inst[v] EXCEPT !.finalizer = TRUE]]
              /\ cacheCur' = [cacheCur EXCEPT ![v] = FALSE]
              /\ cur' = [cur EXCEPT ![v] = TRUE]
              /\ pc' = [pc EXCEPT ![v] = "annotate"]
              /\ UNCHANGED <<pvc, vol, cache, pvcCache, pvcCacheCur, queue, claim, claimCur, after>>
          BY Zenon, <2>11, <3>3 DEF addFinalizerToVR, StoreVR, Goto
        <4>3. QED
          BY Zenon, <4>1, <4>2 DEF TypeOK, Steps
      <3>4. QED
        BY Zenon, <3>1, <3>2, <3>3
    <2>12. ASSUME NEW v \in VRs, annotatePVCWithOwner(v) \/ removeOwnerFromPVCAnnotation(v)
           PROVE TypeOK'
      <3>1. \A w \in VRs \cup {None} : [claim[v] EXCEPT !.owner = w] \in Claims
        BY Zenon, <2>0, ClaimUpdates
      <3>2. QED
        BY Zenon, <3>1, <2>8, <2>9, <2>10, <2>12
        DEF annotatePVCWithOwner, removeOwnerFromPVCAnnotation, Steps
    <2>13. ASSUME NEW v \in VRs, addFinalizerToPVC(v) \/ removeFinalizerFromPVC(v)
           PROVE TypeOK'
      <3>1. \A b \in BOOLEAN : [claim[v] EXCEPT !.finalizer = b] \in Claims
        BY Zenon, <2>0, ClaimUpdates
      <3>2. QED
        BY Zenon, <3>1, <2>9, <2>10, <2>13 DEF addFinalizerToPVC, removeFinalizerFromPVC, Steps
    <2>14. ASSUME NEW v \in VRs, UpdateLastStartTime(v) PROVE TypeOK'
      <3>1. CASE Fail(v)
        BY <2>8, <3>1
      <3>2. CASE ~Fail(v)
        <4>1. DriverCall(inst[v]) \in Steps
          BY Zenon, <2>0, VRUpdates DEF DriverCall, Steps, ReplicationStates
        <4>. DEFINE st == IF DriverCall(inst[v]) = "info"
                          THEN setPromotedCondition(inst[v].status) ELSE inst[v].status
        <4>0. st \in Status
          BY Zenon, <2>0, VRUpdates, StatusSetters
        <4>a. [inst[v] EXCEPT !.status = st] \in VRObjects
          BY Zenon, <2>0, <4>0, VRUpdates
        <4>2. inst' \in [VRs -> VRObjects]
          BY Zenon, <2>14, <3>2, <4>a DEF TypeOK, UpdateLastStartTime
        <4>3. QED
          BY <4>1, <4>2, <2>14, <3>2 DEF TypeOK, UpdateLastStartTime, Goto, stored, informer
      <3>3. QED
        BY Zenon, <3>1, <3>2
    <2>15. ASSUME NEW v \in VRs, NEW st \in Status, NEW state \in States, NEW b \in BOOLEAN,
                  Finish(v, st, state, b)
           PROVE /\ pc' \in [VRs -> Steps] /\ inst' \in [VRs -> VRObjects]
                 /\ after' \in [VRs -> BOOLEAN]
      <3>1. [st EXCEPT !.state = state, !.observedGen = inst[v].gen] \in Status
        BY Zenon, <2>0, VRUpdates, StatusSetters
      <3>2. QED
        BY Zenon, <3>1, <2>0, <2>15, VRUpdates DEF TypeOK, Finish, Goto, Steps
    <2>16. ASSUME NEW v \in VRs, NEW st \in Status, FinishFailed(v, st)
           PROVE /\ pc' \in [VRs -> Steps] /\ inst' \in [VRs -> VRObjects]
                 /\ after' \in [VRs -> BOOLEAN]
      <3>1. GetCurrentReplicationState(inst[v].status.state) \in States
        BY Zenon, <2>0, VRUpdates, StatusSetters
      <3>2. QED
        BY Zenon, <3>1, <2>15, <2>16 DEF FinishFailed
    <2>17. ASSUME NEW v \in VRs, NEW outcome, enableReplication(v, outcome) PROVE TypeOK'
      <3>1. vol' \in Volumes
        BY Zenon, <2>17, VolumeUpdates DEF TypeOK, enableReplication, Call
      <3>2. /\ setFailedPromotionCondition(inst[v].status) \in Status
            /\ setFailedValidationCondition(inst[v].status) \in Status
        BY Zenon, <2>0, VRUpdates, StatusSetters
      <3>3. /\ pc' \in [VRs -> Steps] /\ inst' \in [VRs -> VRObjects]
            /\ after' \in [VRs -> BOOLEAN]
        BY Zenon, <3>2, <2>16, <2>17 DEF TypeOK, enableReplication, Goto, Steps
      <3>4. QED
        BY Zenon, <3>1, <3>3, <2>17 DEF TypeOK, enableReplication, callUnchanged, informer
    <2>18. ASSUME NEW v \in VRs, NEW outcome, markVolumeAsPrimary(v, outcome) PROVE TypeOK'
      <3>1. vol' \in Volumes
        BY Zenon, <2>18, VolumeUpdates DEF TypeOK, markVolumeAsPrimary, Call
      <3>2. /\ setFailedPromotionCondition(inst[v].status) \in Status
            /\ [inst[v] EXCEPT !.status = setPromotedCondition(inst[v].status)] \in VRObjects
        BY Zenon, <2>0, VRUpdates, StatusSetters
      <3>3. /\ pc' \in [VRs -> Steps] /\ inst' \in [VRs -> VRObjects]
            /\ after' \in [VRs -> BOOLEAN]
        BY <3>2, <2>16, <2>18 DEF TypeOK, markVolumeAsPrimary, Goto, Steps
      <3>4. QED
        BY Zenon, <3>1, <3>3, <2>18 DEF TypeOK, markVolumeAsPrimary, callUnchanged, informer
    <2>19. ASSUME NEW v \in VRs, NEW answer \in InfoAnswers, getVolumeReplicationInfo(v, answer)
           PROVE TypeOK'
      <3>1. /\ inst[v].status \in Status
            /\ \A a \in {"True", "False", "Unknown"} :
                 setReplicationCondition(inst[v].status, a) \in Status
        BY Zenon, <2>0, VRUpdates, StatusSetters
      <3>2. GetReplicationState(inst[v].spec) \in States
        BY Zenon DEF GetReplicationState, States
      <3>3. /\ pc' \in [VRs -> Steps] /\ inst' \in [VRs -> VRObjects]
            /\ after' \in [VRs -> BOOLEAN]
        BY Zenon, <3>1, <3>2, <2>15, <2>19 DEF getVolumeReplicationInfo
      <3>4. QED
        BY Zenon, <3>3, <2>19 DEF TypeOK, getVolumeReplicationInfo, callUnchanged, informer
    <2>20. ASSUME NEW v \in VRs, NEW outcome, markVolumeAsSecondary(v, outcome) PROVE TypeOK'
      <3>1. vol' \in Volumes
        BY Zenon, <2>20, VolumeUpdates DEF TypeOK, markVolumeAsSecondary, Call
      <3>2. /\ setFailedDemotionCondition(inst[v].status) \in Status
            /\ setDemotedCondition(inst[v].status) \in Status
            /\ [inst[v] EXCEPT !.status = setDemotedCondition(inst[v].status)] \in VRObjects
        BY Zenon, <2>0, VRUpdates, StatusSetters
      <3>3. GetReplicationState(inst[v].spec) \in States
        BY Zenon DEF GetReplicationState, States
      <3>4. /\ pc' \in [VRs -> Steps] /\ inst' \in [VRs -> VRObjects]
            /\ after' \in [VRs -> BOOLEAN]
        <4>1. CASE FinishFirstDemotion(v)
          BY Zenon, <4>1, <3>2, <3>3, <2>15 DEF FinishFirstDemotion
        <4>2. CASE FinishFailed(v, setFailedDemotionCondition(inst[v].status))
          BY Zenon, <4>2, <3>2, <2>16
        <4>3. CASE /\ Goto(v, "resync")
                   /\ inst' = [inst EXCEPT ![v] =
                                [inst[v] EXCEPT !.status = setDemotedCondition(inst[v].status)]]
                   /\ UNCHANGED after
          BY Zenon, <4>3, <3>2 DEF TypeOK, Goto, Steps
        <4>4. QED
          BY Zenon, <4>1, <4>2, <4>3, <2>20 DEF markVolumeAsSecondary
      <3>5. QED
        BY Zenon, <3>1, <3>4, <2>20 DEF TypeOK, markVolumeAsSecondary, callUnchanged, informer
    <2>21. ASSUME NEW v \in VRs, NEW outcome, NEW ready, resyncVolume(v, outcome, ready)
           PROVE TypeOK'
      <3>1. /\ setFailedResyncCondition(inst[v].status) \in Status
            /\ setResyncCondition(inst[v].status) \in Status
        BY Zenon, <2>0, VRUpdates, StatusSetters
      <3>2. /\ setNotDegradedCondition(setResyncCondition(inst[v].status)) \in Status
            /\ removeReplicatingCondition(setResyncCondition(inst[v].status)) \in Status
        BY Zenon, <3>1, StatusSetters
      <3>3. removeReplicatingCondition(setNotDegradedCondition(setResyncCondition(inst[v].status)))
              \in Status
        BY Zenon, <3>2, StatusSetters
      <3>4. GetReplicationState(inst[v].spec) \in States
        BY DEF GetReplicationState, States
      <3>5. /\ pc' \in [VRs -> Steps] /\ inst' \in [VRs -> VRObjects]
            /\ after' \in [VRs -> BOOLEAN]
        BY Zenon, <3>1, <3>2, <3>3, <3>4, <2>15, <2>16, <2>21 DEF resyncVolume
      <3>6. QED
        BY Zenon, <3>5, <2>21 DEF TypeOK, resyncVolume, callUnchanged, informer
    <2>22. ASSUME NEW v \in VRs, updateReplicationStatus(v) PROVE TypeOK'
      <3>1. CASE Fail(v)
        BY <2>8, <3>1
      <3>2. CASE ~Fail(v)
        <4>0. [vr[v] EXCEPT !.status = inst[v].status] \in VRObjects
          BY Zenon, <2>0, VRUpdates
        <4>1. vr' \in [VRs -> VRObjects]
          BY Zenon, <4>0, <2>22, <3>2 DEF TypeOK, updateReplicationStatus
        <4>2. QED
          BY Zenon, <4>1, <2>7, <2>22, <3>2 DEF TypeOK, updateReplicationStatus
      <3>3. QED
        BY <3>1, <3>2
    <2>23. ASSUME NEW v \in VRs, NEW outcome, disableVolumeReplication(v, outcome) PROVE TypeOK'
      <3>1. vol' \in Volumes
        BY Zenon, <2>23, VolumeUpdates DEF TypeOK, disableVolumeReplication, Call
      <3>2. QED
        BY Zenon, <3>1, <2>7, <2>23
        DEF TypeOK, disableVolumeReplication, Goto, informer, locals, Steps
    <2>24. ASSUME NEW v \in VRs, removeFinalizerFromVR(v) PROVE TypeOK'
      <3>1. CASE Fail(v)
        BY <2>8, <3>1
      <3>2. CASE ~Fail(v)
        <4>0. [NoVR EXCEPT !.gen = vr[v].gen] \in VRObjects
          BY Zenon, <2>0, VRUpdates
        <4>1. vr' \in [VRs -> VRObjects]
          BY Zenon, <4>0, <2>24, <3>2 DEF TypeOK, removeFinalizerFromVR
        <4>2. QED
          BY Zenon, <4>1, <2>7, <2>24, <3>2 DEF TypeOK, removeFinalizerFromVR
      <3>3. QED
        BY <3>1, <3>2
    <2>25. CASE UNCHANGED vars
      BY Zenon, <2>25 DEF TypeOK, vars, stored, informer
    <2>26. ASSUME NEW v \in VRs, ApiError(v) PROVE TypeOK'
      BY Zenon, <2>8, <2>26 DEF ApiError
    <2>27. ASSUME NEW v \in VRs, Reconcile(v, Outcomes, BOOLEAN) PROVE TypeOK'
      BY Zenon, <2>6, <2>11, <2>12, <2>13, <2>14, <2>17, <2>18, <2>19, <2>20, <2>21, <2>22, <2>23,
         <2>24, <2>27
      DEF Reconcile
    <2>28. QED
      BY Zenon, <2>1, <2>2, <2>3, <2>4, <2>5, <2>25, <2>26, <2>27 DEF Next, Environment
  <1>3. QED
    BY <1>1, <1>2, PTL DEF Spec

-----------------------------------------------------------------------------
(* The inductive invariant.                                                *)

\* The steps of a reconcile after addFinalizerToVR, up to the status.
AddSteps ==
  {"annotate", "pvcFinalizer", "begin", "enable", "promote", "forcePromote",
   "info", "demote", "resync"}

\* The steps of the deletion branch.
DelSteps == {"disable", "unannotate", "pvcUnfinalize", "vrUnfinalize"}

Holds(v) == vr[v].exists /\ vr[v].finalizer

\* A lagging cache may show an older VR, but a VR it shows as finalized and
\* not deleted cannot have gone: only a reconcile that read the deletion from
\* this cache removes the finalizer.
CacheInv ==
  \A v \in VRs :
    /\ cacheCur[v] => cache[v] = vr[v]
    /\ cache[v].exists /\ cache[v].finalizer /\ ~cache[v].deleting => Holds(v)

\* An instance that is still the latest agrees with the stored VR on deletion:
\* the write of a reconcile that started before a deletion conflicts.
CurInv == \A v \in VRs : cur[v] => vr[v].exists /\ vr[v].deleting = inst[v].deleting

\* Past addFinalizerToVR the VR holds its finalizer, however stale the copy.
AddInv ==
  \A v \in VRs :
    /\ pc[v] \in AddSteps => Holds(v)
    /\ pc[v] = "vrFinalizer" /\ inst[v].finalizer => Holds(v)

\* A reconcile in the deletion branch read the deletion from the cache.
DelInv ==
  \A v \in VRs : pc[v] \in DelSteps => inst[v].deleting /\ (cur[v] => cache[v].deleting)

\* Someone holds a replicated volume who has not yet passed its Disable call.
EnabledInv == vol.enabled => \E v \in VRs : Holds(v) /\ pc[v] \notin DelSteps \ {"disable"}

\* The inductive invariant behind NoOrphanReplication and the refinement.
HoldInv == CacheInv /\ CurInv /\ AddInv /\ DelInv /\ EnabledInv

\* A write of the status leaves the metadata of the VR alone.
LEMMA StatusUpdate ==
  ASSUME NEW o \in VRObjects, NEW st
  PROVE  /\ [o EXCEPT !.status = st].exists = o.exists
         /\ [o EXCEPT !.status = st].deleting = o.deleting
         /\ [o EXCEPT !.status = st].finalizer = o.finalizer
  BY Zenon DEF VRObjects

\* A driver call, a write of the claim or the check of LastStartTime: the
\* reconcile goes on, or to the status, with the same VR.
Onward(v) ==
  /\ UNCHANGED <<vr, cache, cacheCur, cur>>
  /\ \A w \in VRs : inst'[w].deleting = inst[w].deleting /\ inst'[w].finalizer = inst[w].finalizer
  /\ \/ \E step \in AddSteps \cup {"status"} : pc[v] \in AddSteps /\ pc' = [pc EXCEPT ![v] = step]
     \/ \E step \in DelSteps : pc[v] \in DelSteps /\ pc' = [pc EXCEPT ![v] = step]

\* The part of HoldInv that does not speak of the volume.
MetaInv == CacheInv /\ CurInv /\ AddInv /\ DelInv

\* Such a step keeps what the invariant says of VRs and their copies.
LEMMA OnwardKeeps ==
  ASSUME TypeOK, MetaInv, NEW v \in VRs, Onward(v)
  PROVE  MetaInv'
  <1>1. CacheInv' /\ CurInv'
    BY Zenon DEF MetaInv, CacheInv, CurInv, Onward, Holds
  <1>2. AddInv'
    BY DEF TypeOK, MetaInv, AddInv, Onward, Holds, AddSteps, DelSteps
  <1>3. DelInv'
    BY Zenon DEF TypeOK, MetaInv, DelInv, Onward, AddSteps, DelSteps
  <1>4. QED
    BY Zenon, <1>1, <1>2, <1>3 DEF MetaInv

\* So does the return from a reconcile, with or without an error.
LEMMA ReturnKeeps ==
  ASSUME TypeOK, MetaInv, NEW v \in VRs, NEW b \in BOOLEAN, Return(v, b),
         UNCHANGED <<vr, cache, cacheCur>>
  PROVE  MetaInv'
  <1>1. CacheInv' /\ CurInv'
    BY Zenon DEF TypeOK, MetaInv, CacheInv, CurInv, Return, Holds
  <1>2. AddInv' /\ DelInv'
    BY Zenon DEF TypeOK, MetaInv, AddInv, DelInv, Return, Holds, AddSteps, DelSteps
  <1>3. QED
    BY Zenon, <1>1, <1>2 DEF MetaInv

\* Going to updateReplicationStatus is such a step.
LEMMA FinishOnward ==
  ASSUME TypeOK, NEW v \in VRs, pc[v] \in AddSteps, NEW st, NEW state, NEW b,
         Finish(v, st, state, b), UNCHANGED <<vr, cache, cacheCur, cur>>
  PROVE  Onward(v)
  <1>. DEFINE new == [st EXCEPT !.state = state, !.observedGen = inst[v].gen]
  <1>1. inst' = [inst EXCEPT ![v] = [inst[v] EXCEPT !.status = new]]
    BY Zenon DEF Finish
  <1>2. \A w \in VRs : inst[w] \in VRObjects
    BY Zenon DEF TypeOK
  <1>3. \A w \in VRs : inst'[w].deleting = inst[w].deleting /\ inst'[w].finalizer = inst[w].finalizer
    <2>1. /\ [inst[v] EXCEPT !.status = new].deleting = inst[v].deleting
          /\ [inst[v] EXCEPT !.status = new].finalizer = inst[v].finalizer
      BY Zenon, <1>2, StatusUpdate
    <2>. HIDE DEF new
    <2>2. QED
      BY Zenon, <1>1, <2>1 DEF TypeOK
  <1>4. QED
    BY Zenon, <1>3 DEF Onward, Finish, Goto

\* Setting conditions on the way to the next call is such a step.
LEMMA StatusChange ==
  ASSUME TypeOK, NEW v \in VRs, NEW st, inst' = [inst EXCEPT ![v].status = st],
         NEW step \in AddSteps, pc[v] \in AddSteps, Goto(v, step),
         UNCHANGED <<vr, cache, cacheCur, cur>>
  PROVE  Onward(v)
  <1>1. \A w \in VRs : inst[w] \in VRObjects
    BY Zenon DEF TypeOK
  <1>2. /\ [inst[v] EXCEPT !.status = st].deleting = inst[v].deleting
        /\ [inst[v] EXCEPT !.status = st].finalizer = inst[v].finalizer
    BY Zenon, <1>1, StatusUpdate
  <1>3. \A w \in VRs : inst'[w].deleting = inst[w].deleting /\ inst'[w].finalizer = inst[w].finalizer
    BY Zenon, <1>2 DEF TypeOK
  <1>4. QED
    BY Zenon, <1>3 DEF Onward, Goto

\* Every driver call of the branch that does not delete is such a step.
LEMMA CallsOnward ==
  ASSUME TypeOK, NEW v \in VRs, NEW outcome, NEW ready, NEW answer \in InfoAnswers,
         \/ enableReplication(v, outcome)
         \/ markVolumeAsPrimary(v, outcome)
         \/ getVolumeReplicationInfo(v, answer)
         \/ markVolumeAsSecondary(v, outcome)
         \/ resyncVolume(v, outcome, ready)
  PROVE  Onward(v)
  <1>1. CASE enableReplication(v, outcome)
    <2>1. pc[v] \in AddSteps /\ UNCHANGED <<vr, cache, cacheCur, cur>>
      BY Zenon, <1>1 DEF enableReplication, callUnchanged, informer, AddSteps
    <2>2. CASE outcome = "ok"
      BY Zenon, <1>1, <2>1, <2>2 DEF enableReplication, Onward, Goto, AddSteps
    <2>3. CASE outcome # "ok"
      BY Zenon, <1>1, <2>1, <2>3, FinishOnward DEF enableReplication, FinishFailed
    <2>4. QED
      BY Zenon, <2>2, <2>3
  <1>2. CASE markVolumeAsPrimary(v, outcome)
    <2>1. pc[v] \in AddSteps /\ UNCHANGED <<vr, cache, cacheCur, cur>>
      BY Zenon, <1>2 DEF markVolumeAsPrimary, callUnchanged, informer, AddSteps
    <2>2. CASE inst' = inst /\ Goto(v, "forcePromote")
      BY Zenon, <2>1, <2>2 DEF Onward, Goto, AddSteps
    <2>3. CASE /\ inst' = [inst EXCEPT ![v].status = setPromotedCondition(inst[v].status)]
               /\ Goto(v, "info")
      BY Zenon, <2>1, <2>3, StatusChange DEF AddSteps
    <2>4. CASE FinishFailed(v, setFailedPromotionCondition(inst[v].status))
      BY Zenon, <2>1, <2>4, FinishOnward DEF FinishFailed
    <2>5. QED
      BY Zenon, <1>2, <2>2, <2>3, <2>4 DEF markVolumeAsPrimary
  <1>3. CASE getVolumeReplicationInfo(v, answer)
    <2>1. pc[v] \in AddSteps /\ UNCHANGED <<vr, cache, cacheCur, cur>>
      BY Zenon, <1>3 DEF getVolumeReplicationInfo, callUnchanged, informer, AddSteps
    <2>2. QED
      BY Zenon, <1>3, <2>1, FinishOnward DEF getVolumeReplicationInfo
  <1>4. CASE markVolumeAsSecondary(v, outcome)
    <2>1. pc[v] \in AddSteps /\ UNCHANGED <<vr, cache, cacheCur, cur>>
      BY Zenon, <1>4 DEF markVolumeAsSecondary, callUnchanged, informer, AddSteps
    <2>2. CASE /\ inst' = [inst EXCEPT ![v].status = setDemotedCondition(inst[v].status)]
               /\ Goto(v, "resync")
      BY Zenon, <2>1, <2>2, StatusChange DEF AddSteps
    <2>3. CASE \/ FinishFirstDemotion(v)
               \/ FinishFailed(v, setFailedDemotionCondition(inst[v].status))
      BY Zenon, <2>1, <2>3, FinishOnward DEF FinishFailed, FinishFirstDemotion
    <2>4. QED
      BY Zenon, <1>4, <2>2, <2>3 DEF markVolumeAsSecondary
  <1>5. CASE resyncVolume(v, outcome, ready)
    <2>1. pc[v] \in AddSteps /\ UNCHANGED <<vr, cache, cacheCur, cur>>
      BY Zenon, <1>5 DEF resyncVolume, callUnchanged, informer, AddSteps
    <2>2. QED
      BY Zenon, <1>5, <2>1, FinishOnward DEF resyncVolume, FinishFailed
  <1>6. QED
    BY Zenon, <1>1, <1>2, <1>3, <1>4, <1>5

\* Every write of the claim, and of LastStartTime, is such a step or fails.
LEMMA WritesOnward ==
  ASSUME TypeOK, NEW v \in VRs,
         \/ annotatePVCWithOwner(v)
         \/ addFinalizerToPVC(v)
         \/ UpdateLastStartTime(v)
         \/ removeOwnerFromPVCAnnotation(v)
         \/ removeFinalizerFromPVC(v)
  PROVE  (Onward(v) /\ vol' = vol) \/ Fail(v)
  <1>1. ASSUME NEW c, NEW step \in AddSteps, pc[v] \in AddSteps,
               UpdateClaim(v, c, step) \/ Skip(v, step)
        PROVE  (Onward(v) /\ vol' = vol) \/ Fail(v)
    BY Zenon, <1>1 DEF UpdateClaim, Skip, Onward, Goto, stored, informer, locals
  <1>2. ASSUME NEW c, NEW step \in DelSteps, pc[v] \in DelSteps,
               UpdateClaim(v, c, step) \/ Skip(v, step)
        PROVE  (Onward(v) /\ vol' = vol) \/ Fail(v)
    BY Zenon, <1>2 DEF UpdateClaim, Skip, Onward, Goto, stored, informer, locals
  <1>3. CASE annotatePVCWithOwner(v)
    BY Zenon, <1>1, <1>3 DEF annotatePVCWithOwner, AddSteps
  <1>4. CASE addFinalizerToPVC(v)
    BY Zenon, <1>1, <1>4 DEF addFinalizerToPVC, AddSteps
  <1>5. CASE UpdateLastStartTime(v)
    <2>1. CASE cur[v]
      <3>1. DriverCall(inst[v]) \in AddSteps
        <4>1. inst[v].spec \in ReplicationStates
          BY Zenon, VRUpdates DEF TypeOK
        <4>2. QED
          BY Zenon, <4>1 DEF DriverCall, AddSteps, ReplicationStates
      <3>2. pc[v] \in AddSteps /\ UNCHANGED <<vr, cache, cacheCur, cur, vol>>
        BY Zenon, <1>5, <2>1 DEF UpdateLastStartTime, stored, informer, AddSteps
      <3>3. QED
        BY Zenon, <1>5, <2>1, <3>1, <3>2, StatusChange DEF UpdateLastStartTime
    <2>2. CASE ~cur[v]
      BY Zenon, <1>5, <2>2 DEF UpdateLastStartTime
    <2>3. QED
      BY Zenon, <2>1, <2>2
  <1>6. CASE removeOwnerFromPVCAnnotation(v)
    BY Zenon, <1>2, <1>6 DEF removeOwnerFromPVCAnnotation, DelSteps
  <1>7. CASE removeFinalizerFromPVC(v)
    BY Zenon, <1>2, <1>7 DEF removeFinalizerFromPVC, DelSteps
  <1>8. QED
    BY Zenon, <1>3, <1>4, <1>5, <1>6, <1>7

\* A step of the user stores another version of one VR; it neither gives nor
\* takes the finalizer.
Stores(v, o) ==
  /\ vr' = [vr EXCEPT ![v] = o]
  /\ Holds(v) <=> o.exists /\ o.finalizer
  /\ cacheCur' = [cacheCur EXCEPT ![v] = FALSE]
  /\ cur' = [cur EXCEPT ![v] = FALSE]
  /\ UNCHANGED <<vol, cache, pc, inst>>

\* Creating, editing and deleting a VR are such steps.
LEMMA UserStores ==
  ASSUME TypeOK, NEW v \in VRs, User(v)
  PROVE  \E o \in VRObjects : Stores(v, o)
  <1>1. vr[v] \in VRObjects /\ NoVR \in VRObjects
    BY Zenon, Constants DEF TypeOK
  <1>2. ASSUME NEW s \in ReplicationStates, CreateVR(v, s)
        PROVE  \E o \in VRObjects : Stores(v, o)
    <2>. DEFINE o == [NoVR EXCEPT !.exists = TRUE, !.spec = s, !.gen = vr[v].gen + 1]
    <2>1. o \in VRObjects
      BY Zenon, <1>1, VRUpdates
    <2>2. Stores(v, o)
      BY Zenon, <1>2 DEF CreateVR, StoreVR, Stores, Holds, NoVR, reconciler
    <2>3. QED
      BY Zenon, <2>1, <2>2
  <1>3. ASSUME NEW s \in ReplicationStates, EditSpec(v, s)
        PROVE  \E o \in VRObjects : Stores(v, o)
    <2>. DEFINE o == [vr[v] EXCEPT !.spec = s, !.gen = vr[v].gen + 1]
    <2>1. o \in VRObjects
      BY Zenon, <1>1, VRUpdates
    <2>2. o.exists = vr[v].exists /\ o.finalizer = vr[v].finalizer
      BY Zenon, <1>1 DEF VRObjects
    <2>3. Stores(v, o)
      BY Zenon, <1>3, <2>2 DEF EditSpec, StoreVR, Stores, Holds, reconciler
    <2>4. QED
      BY Zenon, <2>1, <2>3
  <1>4. CASE DeleteVR(v) /\ vr[v].finalizer
    <2>. DEFINE o == [vr[v] EXCEPT !.deleting = TRUE, !.gen = vr[v].gen + 1]
    <2>1. o \in VRObjects
      BY Zenon, <1>1, VRUpdates
    <2>2. o.exists = vr[v].exists /\ o.finalizer = vr[v].finalizer
      BY Zenon, <1>1 DEF VRObjects
    <2>3. Stores(v, o)
      BY Zenon, <1>4, <2>2 DEF DeleteVR, StoreVR, Stores, Holds, reconciler
    <2>4. QED
      BY Zenon, <2>1, <2>3
  <1>5. CASE DeleteVR(v) /\ ~vr[v].finalizer
    <2>. DEFINE o == [NoVR EXCEPT !.gen = vr[v].gen]
    <2>1. o \in VRObjects
      BY Zenon, <1>1, VRUpdates
    <2>2. Stores(v, o)
      BY Zenon, <1>5 DEF DeleteVR, StoreVR, Stores, Holds, NoVR, reconciler
    <2>3. QED
      BY Zenon, <2>1, <2>2
  <1>6. QED
    BY Zenon, <1>2, <1>3, <1>4, <1>5 DEF User

\* Whatever the user does to a VR while it is reconciled, the invariant stays
\* and no holder is lost.
LEMMA StoresKeeps ==
  ASSUME TypeOK, MetaInv, NEW v \in VRs, NEW o \in VRObjects, Stores(v, o)
  PROVE  MetaInv' /\ \A w \in VRs : Holds(w) => Holds(w)'
  <1>1. \A w \in VRs : Holds(w) => Holds(w)'
    BY Zenon DEF TypeOK, Stores, Holds
  <1>2. CacheInv'
    BY Zenon, <1>1 DEF TypeOK, MetaInv, CacheInv, Stores
  <1>3. CurInv'
    BY Zenon DEF TypeOK, MetaInv, CurInv, Stores
  <1>4. AddInv' /\ DelInv'
    BY Zenon, <1>1 DEF TypeOK, MetaInv, AddInv, DelInv, Stores
  <1>5. QED
    BY Zenon, <1>1, <1>2, <1>3, <1>4 DEF MetaInv

\* The informer's delivery of a VR and the restart of the manager.
LEMMA InformerKeeps ==
  ASSUME TypeOK, MetaInv, (\E v \in VRs : SyncVR(v)) \/ Crash
  PROVE  MetaInv'
  <1>1. ASSUME NEW v \in VRs, SyncVR(v) PROVE MetaInv'
    <2>1. CacheInv'
      BY Zenon, <1>1 DEF TypeOK, MetaInv, CacheInv, SyncVR, stored, Holds
    <2>2. CurInv' /\ AddInv'
      BY Zenon, <1>1 DEF TypeOK, MetaInv, CurInv, AddInv, SyncVR, stored, Holds
    <2>3. DelInv'
      BY Zenon, <1>1 DEF TypeOK, MetaInv, CurInv, DelInv, SyncVR, stored
    <2>4. QED
      BY Zenon, <2>1, <2>2, <2>3 DEF MetaInv
  <1>2. CASE Crash
    <2>1. CacheInv' /\ CurInv'
      BY Zenon, <1>2 DEF TypeOK, CacheInv, CurInv, Crash, stored, Holds
    <2>2. AddInv' /\ DelInv'
      BY Zenon, <1>2 DEF TypeOK, AddInv, DelInv, Crash, AddSteps, DelSteps
    <2>3. QED
      BY Zenon, <2>1, <2>2 DEF MetaInv
  <1>3. QED
    BY Zenon, <1>1, <1>2

\* The first step of a reconcile, with what it reads from the cache.
LEMMA StartKeeps ==
  ASSUME TypeOK, MetaInv, NEW v \in VRs, ReconcileStart(v) \/ ReconcileInvalid(v)
  PROVE  MetaInv'
  <1>0. cache[v] \in VRObjects
    BY Zenon DEF TypeOK
  <1>1. /\ inst'[v].deleting = cache[v].deleting
        /\ inst'[v].finalizer = cache[v].finalizer
        /\ \A w \in VRs \ {v} : inst'[w] = inst[w]
    <2>1. CASE ReconcileStart(v)
      BY Zenon, <2>1 DEF TypeOK, ReconcileStart
    <2>2. CASE ReconcileInvalid(v)
      <3>. DEFINE st == [setFailureCondition(cache[v].status, cache[v].spec) EXCEPT
                           !.state = GetCurrentReplicationState(cache[v].status.state),
                           !.observedGen = cache[v].gen]
      <3>1. inst' = [inst EXCEPT ![v] = [cache[v] EXCEPT !.status = st]]
        BY Zenon, <2>2 DEF ReconcileInvalid
      <3>2. /\ [cache[v] EXCEPT !.status = st].deleting = cache[v].deleting
            /\ [cache[v] EXCEPT !.status = st].finalizer = cache[v].finalizer
        BY Zenon, <1>0, StatusUpdate
      <3>. HIDE DEF st
      <3>3. QED
        BY Zenon, <3>1, <3>2 DEF TypeOK
    <2>3. QED
      BY Zenon, <2>1, <2>2
  <1>2. /\ cur' = [cur EXCEPT ![v] = cacheCur[v]]
        /\ UNCHANGED <<vr, cache, cacheCur>>
        /\ cache[v].exists
    BY Zenon DEF ReconcileStart, ReconcileInvalid, stored, informer
  <1>3. \E step \in {"status", "disable", "vrFinalizer"} :
          /\ pc' = [pc EXCEPT ![v] = step]
          /\ step = "disable" => cache[v].deleting
          /\ step = "vrFinalizer" => ~cache[v].deleting
    BY Zenon DEF ReconcileStart, ReconcileInvalid, FirstStep, Goto
  <1>4. CacheInv'
    BY Zenon, <1>2 DEF MetaInv, CacheInv, Holds
  <1>5. CurInv'
    BY Zenon, <1>1, <1>2 DEF TypeOK, MetaInv, CacheInv, CurInv
  <1>6. AddInv'
    BY <1>1, <1>2, <1>3 DEF TypeOK, MetaInv, CacheInv, AddInv, AddSteps, Holds
  <1>7. DelInv'
    BY Zenon, <1>1, <1>2, <1>3 DEF TypeOK, MetaInv, DelInv, DelSteps
  <1>8. QED
    BY Zenon, <1>4, <1>5, <1>6, <1>7 DEF MetaInv

\* The three steps that write the VR: its finalizer, its status, its removal.
LEMMA WritesVRKeeps ==
  ASSUME TypeOK, MetaInv, NEW v \in VRs,
         addFinalizerToVR(v) \/ updateReplicationStatus(v) \/ removeFinalizerFromVR(v),
         ~Fail(v)
  PROVE  MetaInv'
  <1>0. vr[v] \in VRObjects /\ inst[v] \in VRObjects
    BY Zenon DEF TypeOK
  <1>1. CASE addFinalizerToVR(v)
    <2>1. CASE inst[v].finalizer
      <3>0. Skip(v, "annotate")
        BY Zenon, <1>1, <2>1 DEF addFinalizerToVR
      <3>1. pc[v] = "vrFinalizer" /\ Holds(v)
        BY Zenon, <1>1, <2>1 DEF addFinalizerToVR, MetaInv, AddInv
      <3>2. CacheInv' /\ CurInv'
        BY Zenon, <3>0 DEF MetaInv, CacheInv, CurInv, Skip, stored, informer, locals, Holds
      <3>3. AddInv' /\ DelInv'
        BY Zenon, <3>0, <3>1
        DEF TypeOK, MetaInv, AddInv, DelInv, Skip, Goto, stored, informer, locals,
                          Holds, DelSteps
      <3>4. QED
        BY Zenon, <3>2, <3>3 DEF MetaInv
    <2>2. CASE ~inst[v].finalizer
      <3>1. /\ cur[v]
            /\ vr' = [vr EXCEPT ![v] = [vr[v] EXCEPT !.finalizer = TRUE]]
            /\ inst' = [inst EXCEPT ![v] = [inst[v] EXCEPT !.finalizer = TRUE]]
            /\ cacheCur' = [cacheCur EXCEPT ![v] = FALSE]
            /\ cur' = [cur EXCEPT ![v] = TRUE]
            /\ pc' = [pc EXCEPT ![v] = "annotate"]
            /\ cache' = cache
        BY Zenon, <1>1, <2>2 DEF addFinalizerToVR, StoreVR, Goto
      <3>2. /\ [vr[v] EXCEPT !.finalizer = TRUE].exists = vr[v].exists
            /\ [vr[v] EXCEPT !.finalizer = TRUE].deleting = vr[v].deleting
            /\ [vr[v] EXCEPT !.finalizer = TRUE].finalizer
            /\ [inst[v] EXCEPT !.finalizer = TRUE].deleting = inst[v].deleting
        BY Zenon, <1>0 DEF VRObjects
      <3>3. vr[v].exists /\ vr[v].deleting = inst[v].deleting
        BY Zenon, <3>1 DEF MetaInv, CurInv
      <3>4. Holds(v)' /\ \A w \in VRs : Holds(w) => Holds(w)'
        BY Zenon, <3>1, <3>2, <3>3 DEF TypeOK, Holds
      <3>5. CacheInv'
        BY Zenon, <3>1, <3>4 DEF TypeOK, MetaInv, CacheInv
      <3>6. CurInv'
        BY Zenon, <3>1, <3>2, <3>3 DEF TypeOK, MetaInv, CurInv
      <3>7. AddInv' /\ DelInv'
        BY Zenon, <3>1, <3>4 DEF TypeOK, MetaInv, AddInv, DelInv, DelSteps
      <3>8. QED
        BY Zenon, <3>5, <3>6, <3>7 DEF MetaInv
    <2>3. QED
      BY Zenon, <2>1, <2>2
  <1>2. ASSUME NEW o, vr' = [vr EXCEPT ![v] = o], NEW b, Return(v, b), cache' = cache,
               cacheCur' = [cacheCur EXCEPT ![v] = FALSE],
               \/ o.exists = vr[v].exists /\ o.finalizer = vr[v].finalizer
               \/ cache[v].deleting
        PROVE  MetaInv'
    <2>1. CacheInv' /\ CurInv'
      BY Zenon, <1>2 DEF TypeOK, MetaInv, CacheInv, CurInv, Return, Holds
    <2>2. AddInv' /\ DelInv'
      BY Zenon, <1>2 DEF TypeOK, MetaInv, AddInv, DelInv, Return, Holds, AddSteps, DelSteps
    <2>3. QED
      BY <2>1, <2>2 DEF MetaInv
  <1>3. CASE updateReplicationStatus(v)
    <2>1. /\ [vr[v] EXCEPT !.status = inst[v].status].exists = vr[v].exists
          /\ [vr[v] EXCEPT !.status = inst[v].status].finalizer = vr[v].finalizer
      BY Zenon, <1>0, StatusUpdate
    <2>2. QED
      BY Zenon, <1>2, <1>3, <2>1 DEF updateReplicationStatus
  <1>4. CASE removeFinalizerFromVR(v)
    <2>1. cache[v].deleting
      BY Zenon, <1>4 DEF removeFinalizerFromVR, MetaInv, DelInv, DelSteps
    <2>2. QED
      BY Zenon, <1>2, <1>4, <2>1 DEF removeFinalizerFromVR
  <1>5. QED
    BY Zenon, <1>1, <1>3, <1>4

\* Every step keeps the part of the invariant that is about the VRs and the
\* copies of them, whatever fails, is lost or arrives late.
LEMMA MetaStep == TypeOK /\ MetaInv /\ [Next]_vars => MetaInv'
  <1>. SUFFICES ASSUME TypeOK, MetaInv, [Next]_vars PROVE MetaInv'
    BY Zenon
  <1>1. ASSUME NEW v \in VRs, Fail(v) PROVE MetaInv'
    BY Zenon, <1>1, ReturnKeeps DEF Fail, stored, informer
  <1>2. ASSUME NEW v \in VRs, User(v) PROVE MetaInv'
    BY Zenon, <1>2, UserStores, StoresKeeps
  <1>3. ASSUME UNCHANGED <<vr, cache, cacheCur, pc, inst, cur>> PROVE MetaInv'
    <2>1. CacheInv' /\ CurInv'
      BY Zenon, <1>3 DEF MetaInv, CacheInv, CurInv, Holds
    <2>2. AddInv' /\ DelInv'
      BY Zenon, <1>3 DEF MetaInv, AddInv, DelInv, Holds
    <2>3. QED
      BY Zenon, <2>1, <2>2 DEF MetaInv
  <1>4. CASE DeleteClaim \/ ClaimGone \/ SyncClaim \/ UNCHANGED vars
    BY Zenon, <1>3, <1>4
    DEF DeleteClaim, ClaimGone, SyncClaim, StoreClaim, reconciler, stored, informer, vars
  <1>5. ASSUME NEW v \in VRs, ReconcileNotFound(v) PROVE MetaInv'
    BY Zenon, <1>3, <1>5 DEF ReconcileNotFound, stored, informer
  <1>6. ASSUME NEW v \in VRs, NEW outcome, disableVolumeReplication(v, outcome) PROVE MetaInv'
    <2>1. CASE outcome = "ok"
      BY Zenon, <1>6, <2>1, OnwardKeeps
      DEF disableVolumeReplication, Onward, Goto, informer, locals, DelSteps
    <2>2. CASE outcome # "ok"
      BY Zenon, <1>6, <2>2, ReturnKeeps DEF disableVolumeReplication, informer
    <2>3. QED
      BY Zenon, <2>1, <2>2
  <1>7. ASSUME NEW v \in VRs, Reconcile(v, Outcomes, BOOLEAN) PROVE MetaInv'
    <2>1. CASE ReconcileNotFound(v) \/ ReconcileStart(v)
      BY Zenon, <1>5, <2>1, StartKeeps
    <2>2. CASE addFinalizerToVR(v) \/ updateReplicationStatus(v) \/ removeFinalizerFromVR(v)
      BY Zenon, <1>1, <2>2, WritesVRKeeps
    <2>3. CASE \/ annotatePVCWithOwner(v) \/ addFinalizerToPVC(v) \/ UpdateLastStartTime(v)
               \/ removeOwnerFromPVCAnnotation(v) \/ removeFinalizerFromPVC(v)
      BY Zenon, <1>1, <2>3, WritesOnward, OnwardKeeps
    <2>4. ASSUME NEW outcome \in Outcomes, disableVolumeReplication(v, outcome) PROVE MetaInv'
      BY Zenon, <1>6, <2>4
    <2>5. ASSUME NEW outcome, NEW ready, NEW answer \in InfoAnswers,
                 \/ enableReplication(v, outcome) \/ markVolumeAsPrimary(v, outcome)
                 \/ getVolumeReplicationInfo(v, answer) \/ markVolumeAsSecondary(v, outcome)
                 \/ resyncVolume(v, outcome, ready)
          PROVE  MetaInv'
      BY Zenon, <2>5, CallsOnward, OnwardKeeps
    <2>6. "True" \in InfoAnswers
      BY Zenon DEF InfoAnswers
    <2>7. QED
      BY Zenon, <1>7, <2>1, <2>2, <2>3, <2>4, <2>5, <2>6 DEF Reconcile
  <1>8. QED
    BY Zenon, <1>1, <1>2, <1>4, <1>7, InformerKeeps, StartKeeps DEF Next, Environment, ApiError

\* Reconcile steps keep a holder that has not passed its Disable call while
\* the volume is enabled: the step either leaves the others alone, or enables
\* the volume for a VR that holds it, or disables it.
LEMMA EnabledReconcile ==
  ASSUME TypeOK, MetaInv, EnabledInv, NEW v \in VRs, Reconcile(v, Outcomes, BOOLEAN)
  PROVE  EnabledInv'
  <1>0. vr[v] \in VRObjects
    BY Zenon DEF TypeOK
  <1>1. ASSUME Fail(v) PROVE EnabledInv'
    BY Zenon, <1>1 DEF TypeOK, EnabledInv, Fail, Return, stored, Holds, DelSteps
  <1>2. CASE ReconcileNotFound(v) \/ ReconcileStart(v)
    <2>1. UNCHANGED <<vr, vol>>
      BY Zenon, <1>2 DEF ReconcileNotFound, ReconcileStart, stored
    <2>2. \A w \in VRs : pc'[w] \in DelSteps \ {"disable"} => pc[w] \in DelSteps \ {"disable"}
      BY <1>2 DEF TypeOK, ReconcileNotFound, ReconcileStart, Goto, FirstStep, DelSteps
    <2>3. QED
      BY Zenon, <2>1, <2>2 DEF EnabledInv, Holds
  <1>3. CASE addFinalizerToVR(v)
    <2>1. CASE Fail(v)
      BY Zenon, <1>1, <2>1
    <2>2. CASE ~Fail(v)
      <3>1. /\ [vr[v] EXCEPT !.finalizer = TRUE].exists = vr[v].exists
            /\ [vr[v] EXCEPT !.finalizer = TRUE].finalizer
        BY Zenon, <1>0 DEF VRObjects
      <3>2. \/ vr' = vr
            \/ vr' = [vr EXCEPT ![v] = [vr[v] EXCEPT !.finalizer = TRUE]]
        BY Zenon, <1>3, <2>2 DEF addFinalizerToVR, StoreVR, Skip, stored
      <3>3. \A w \in VRs : Holds(w) => Holds(w)'
        BY Zenon, <3>1, <3>2 DEF TypeOK, Holds
      <3>4. pc' = [pc EXCEPT ![v] = "annotate"] /\ vol' = vol
        BY Zenon, <1>3, <2>2 DEF addFinalizerToVR, Skip, Goto, stored
      <3>5. QED
        BY Zenon, <3>3, <3>4 DEF TypeOK, EnabledInv, DelSteps
    <2>3. QED
      BY Zenon, <2>1, <2>2
  <1>4. CASE \/ annotatePVCWithOwner(v) \/ addFinalizerToPVC(v) \/ UpdateLastStartTime(v)
             \/ removeOwnerFromPVCAnnotation(v) \/ removeFinalizerFromPVC(v)
    <2>1. pc[v] # "disable"
      BY Zenon, <1>4 DEF annotatePVCWithOwner, addFinalizerToPVC, UpdateLastStartTime,
                  removeOwnerFromPVCAnnotation, removeFinalizerFromPVC
    <2>2. ASSUME Onward(v), vol' = vol PROVE EnabledInv'
      <3>1. \A w \in VRs : pc'[w] \in DelSteps \ {"disable"} => pc[w] \in DelSteps \ {"disable"}
        BY Zenon, <2>1, <2>2 DEF TypeOK, Onward, AddSteps, DelSteps
      <3>2. QED
        BY Zenon, <2>2, <3>1 DEF EnabledInv, Onward, Holds
    <2>3. QED
      BY Zenon, <1>1, <1>4, <2>2, WritesOnward
  <1>5. ASSUME NEW outcome, NEW ready, NEW answer \in InfoAnswers,
               \/ enableReplication(v, outcome) \/ markVolumeAsPrimary(v, outcome)
               \/ getVolumeReplicationInfo(v, answer) \/ markVolumeAsSecondary(v, outcome)
               \/ resyncVolume(v, outcome, ready)
        PROVE  EnabledInv'
    <2>1. Onward(v)
      BY Zenon, <1>5, CallsOnward
    <2>2. pc[v] \in AddSteps
      BY Zenon, <1>5 DEF enableReplication, markVolumeAsPrimary, getVolumeReplicationInfo,
                  markVolumeAsSecondary, resyncVolume, AddSteps
    <2>3. Holds(v) /\ vr' = vr
      BY Zenon, <2>1, <2>2 DEF MetaInv, AddInv, Onward
    <2>4. pc'[v] \notin DelSteps \ {"disable"}
      BY Zenon, <2>1, <2>2 DEF TypeOK, Onward, AddSteps, DelSteps
    <2>5. QED
      BY Zenon, <2>3, <2>4 DEF EnabledInv, Holds
  <1>6. ASSUME NEW outcome, disableVolumeReplication(v, outcome) PROVE EnabledInv'
    <2>1. CASE outcome \in {"ok", "lost"}
      BY Zenon, <1>6, <2>1 DEF disableVolumeReplication, Call, EnabledInv
    <2>2. CASE outcome \notin {"ok", "lost"}
      <3>1. UNCHANGED <<vr, vol>> /\ pc' = [pc EXCEPT ![v] = "idle"]
        BY Zenon, <1>6, <2>2 DEF disableVolumeReplication, Call, Return
      <3>2. QED
        BY Zenon, <3>1 DEF TypeOK, EnabledInv, Holds, DelSteps
    <2>3. QED
      BY Zenon, <2>1, <2>2
  <1>7. CASE updateReplicationStatus(v)
    <2>1. CASE Fail(v)
      BY <1>1, <2>1
    <2>2. CASE ~Fail(v)
      <3>1. /\ [vr[v] EXCEPT !.status = inst[v].status].exists = vr[v].exists
            /\ [vr[v] EXCEPT !.status = inst[v].status].finalizer = vr[v].finalizer
        BY Zenon, <1>0, StatusUpdate
      <3>2. /\ vr' = [vr EXCEPT ![v] = [vr[v] EXCEPT !.status = inst[v].status]]
            /\ vol' = vol
            /\ pc' = [pc EXCEPT ![v] = "idle"]
        BY Zenon, <1>7, <2>2 DEF updateReplicationStatus, Return
      <3>3. \A w \in VRs : Holds(w) => Holds(w)'
        BY Zenon, <3>1, <3>2 DEF TypeOK, Holds
      <3>4. QED
        BY Zenon, <3>2, <3>3 DEF TypeOK, EnabledInv, DelSteps
    <2>3. QED
      BY <2>1, <2>2
  <1>8. CASE removeFinalizerFromVR(v)
    <2>1. CASE Fail(v)
      BY <1>1, <2>1
    <2>2. CASE ~Fail(v)
      <3>1. /\ pc[v] = "vrUnfinalize" /\ vol' = vol
            /\ vr' = [vr EXCEPT ![v] = [NoVR EXCEPT !.gen = vr[v].gen]]
            /\ pc' = [pc EXCEPT ![v] = "idle"]
        BY Zenon, <1>8, <2>2 DEF removeFinalizerFromVR, Return
      <3>2. \A w \in VRs : w # v => vr'[w] = vr[w] /\ pc'[w] = pc[w]
        BY Zenon, <3>1 DEF TypeOK
      <3>3. QED
        BY Zenon, <3>1, <3>2 DEF EnabledInv, Holds, DelSteps
    <2>3. QED
      BY <2>1, <2>2
  <1>9. "True" \in InfoAnswers
    BY Zenon DEF InfoAnswers
  <1>10. QED
    BY Zenon, <1>2, <1>3, <1>4, <1>5, <1>6, <1>7, <1>8, <1>9 DEF Reconcile

\* HoldInv is inductive.
LEMMA HoldStep == TypeOK /\ HoldInv /\ [Next]_vars => HoldInv'
  <1>. SUFFICES ASSUME TypeOK, HoldInv, [Next]_vars PROVE HoldInv'
    OBVIOUS
  <1>1. MetaInv /\ EnabledInv
    BY Zenon DEF HoldInv, MetaInv
  <1>2. SUFFICES EnabledInv'
    BY Zenon, <1>1, MetaStep DEF HoldInv, MetaInv
  <1>3. ASSUME NEW v \in VRs, User(v) PROVE EnabledInv'
    <2>1. PICK o \in VRObjects : Stores(v, o)
      BY Zenon, <1>3, UserStores
    <2>2. \A w \in VRs : Holds(w) => Holds(w)'
      BY Zenon, <1>1, <2>1, StoresKeeps
    <2>3. QED
      BY Zenon, <1>1, <2>1, <2>2 DEF Stores, EnabledInv
  <1>4. ASSUME UNCHANGED <<vr, vol>>,
               \A w \in VRs : pc'[w] \in DelSteps \ {"disable"} => pc[w] \in DelSteps \ {"disable"}
        PROVE  EnabledInv'
    BY Zenon, <1>1, <1>4 DEF EnabledInv, Holds
  <1>5. CASE Crash
    <2>1. UNCHANGED <<vr, vol>> /\ \A w \in VRs : pc'[w] = "idle"
      BY Zenon, <1>5 DEF Crash, stored
    <2>2. QED
      BY Zenon, <1>1, <2>1 DEF EnabledInv, Holds, DelSteps
  <1>6. ASSUME NEW v \in VRs, ReconcileInvalid(v) PROVE EnabledInv'
    BY Zenon, <1>4, <1>6 DEF TypeOK, ReconcileInvalid, Goto, stored, DelSteps
  <1>7. ASSUME NEW v \in VRs, ApiError(v) PROVE EnabledInv'
    BY Zenon, <1>4, <1>7 DEF TypeOK, ApiError, Fail, Return, stored, DelSteps
  <1>8. ASSUME NEW v \in VRs, Reconcile(v, Outcomes, BOOLEAN) PROVE EnabledInv'
    BY Zenon, <1>1, <1>8, EnabledReconcile
  <1>9. ASSUME UNCHANGED <<vr, vol, pc>> PROVE EnabledInv'
    BY Zenon, <1>1, <1>9 DEF EnabledInv, Holds
  <1>10. CASE DeleteClaim \/ ClaimGone \/ SyncClaim \/ UNCHANGED vars
    BY Zenon, <1>9, <1>10 DEF DeleteClaim, ClaimGone, SyncClaim, reconciler, stored, vars
  <1>11. ASSUME NEW v \in VRs, SyncVR(v) PROVE EnabledInv'
    BY Zenon, <1>9, <1>11 DEF SyncVR, stored
  <1>12. QED
    BY Zenon, <1>3, <1>5, <1>6, <1>7, <1>8, <1>10, <1>11 DEF Next, Environment

\* HoldInv holds in every reachable state.
LEMMA HoldInvariant == Spec => []HoldInv
  <1>1. Init => HoldInv
    BY
    DEF Init, HoldInv, CacheInv, CurInv, AddInv, DelInv, EnabledInv, AddSteps, DelSteps, NoVR, Holds
  <1>2. QED
    BY <1>1, HoldStep, TypeCorrect, PTL DEF Spec

\* A volume is never left replicated without a VR that will disable it: for
\* any number of VRs on the claim and every fault, a lagging informer, lost
\* driver answers and restarts included (the deletion branch of Reconcile
\* calls Disable before it takes the finalizer off).
THEOREM NoOrphan == Spec => []NoOrphanReplication
  <1>1. HoldInv => NoOrphanReplication
    BY Zenon DEF HoldInv, EnabledInv, NoOrphanReplication, Holds
  <1>2. QED
    BY <1>1, HoldInvariant, PTL

-----------------------------------------------------------------------------
(* The controller implements the life cycle.                               *)

\* A step of the specification is a step of the life cycle or leaves it alone.
LifecycleStep == [Lifecycle!Next]_(Lifecycle!vars)

\* A step that leaves the holders and the volume alone.
LEMMA Stutters ==
  ASSUME \A w \in VRs : Holds(w)' <=> Holds(w), vol' = vol
  PROVE  LifecycleStep
  BY Zenon DEF LifecycleStep, Lifecycle!vars, Holders, Holds

\* The driver calls act for a VR that holds the volume.
LEMMA CallsLifecycle ==
  ASSUME TypeOK, MetaInv, NEW v \in VRs, NEW outcome, NEW ready, NEW answer \in InfoAnswers,
         \/ enableReplication(v, outcome) \/ markVolumeAsPrimary(v, outcome)
         \/ getVolumeReplicationInfo(v, answer) \/ markVolumeAsSecondary(v, outcome)
         \/ resyncVolume(v, outcome, ready)
  PROVE  LifecycleStep
  <1>1. vr' = vr
    BY Zenon DEF enableReplication, markVolumeAsPrimary, getVolumeReplicationInfo,
           markVolumeAsSecondary, resyncVolume, callUnchanged
  <1>2. pc[v] \in AddSteps
    BY Zenon DEF enableReplication, markVolumeAsPrimary, getVolumeReplicationInfo,
           markVolumeAsSecondary, resyncVolume, AddSteps
  <1>3. Holders # {} /\ Holders' = Holders
    BY Zenon, <1>1, <1>2 DEF MetaInv, AddInv, Holds, Holders
  <1>4. CASE vol' = vol
    BY Zenon, <1>1, <1>4, Stutters DEF Holds
  <1>5. CASE vol' = [vol EXCEPT !.enabled = TRUE]
    <2>1. vol'.enabled = TRUE /\ vol'.role = vol.role
      BY Zenon, <1>5 DEF TypeOK, Volumes
    <2>2. QED
      BY Zenon, <1>3, <2>1 DEF LifecycleStep, Lifecycle!Next, Lifecycle!Enable
  <1>6. ASSUME NEW r \in {"primary", "secondary"}, vol' = [vol EXCEPT !.role = r]
        PROVE  LifecycleStep
    <2>1. vol'.role = r /\ vol'.enabled = vol.enabled
      BY Zenon, <1>6 DEF TypeOK, Volumes
    <2>2. QED
      BY Zenon, <1>3, <2>1 DEF LifecycleStep, Lifecycle!Next, Lifecycle!Switch
  <1>7. \/ vol' = vol
        \/ vol' = [vol EXCEPT !.enabled = TRUE]
        \/ \E r \in {"primary", "secondary"} : vol' = [vol EXCEPT !.role = r]
    BY Zenon DEF enableReplication, markVolumeAsPrimary, getVolumeReplicationInfo,
           markVolumeAsSecondary, resyncVolume, Call
  <1>8. QED
    BY Zenon, <1>4, <1>5, <1>6, <1>7

\* The steps of a reconcile.
LEMMA ReconcileLifecycle ==
  ASSUME TypeOK, HoldInv, NEW v \in VRs, Reconcile(v, Outcomes, BOOLEAN)
  PROVE  LifecycleStep
  <1>0. MetaInv /\ EnabledInv /\ vr[v] \in VRObjects
    BY Zenon DEF HoldInv, MetaInv, TypeOK
  <1>1. ASSUME vr' = vr, vol' = vol PROVE LifecycleStep
    BY Zenon, <1>1, Stutters DEF Holds
  <1>2. CASE ReconcileNotFound(v) \/ ReconcileStart(v)
    BY Zenon, <1>1, <1>2 DEF ReconcileNotFound, ReconcileStart, stored
  <1>3. ASSUME Fail(v) PROVE LifecycleStep
    BY Zenon, <1>1, <1>3 DEF Fail, stored
  <1>4. CASE addFinalizerToVR(v)
    <2>1. CASE vr' = vr /\ vol' = vol
      BY Zenon, <1>1, <2>1
    <2>2. CASE /\ cur[v]
               /\ vr' = [vr EXCEPT ![v] = [vr[v] EXCEPT !.finalizer = TRUE]]
               /\ vol' = vol
      <3>1. vr[v].exists
        BY Zenon, <1>0, <2>2 DEF MetaInv, CurInv
      <3>2. /\ [vr[v] EXCEPT !.finalizer = TRUE].exists = vr[v].exists
            /\ [vr[v] EXCEPT !.finalizer = TRUE].finalizer
        BY Zenon, <1>0 DEF VRObjects
      <3>3. Holders' = Holders \cup {v}
        BY Zenon, <2>2, <3>1, <3>2 DEF TypeOK, Holders
      <3>4. QED
        BY Zenon, <2>2, <3>3 DEF LifecycleStep, Lifecycle!Next, Lifecycle!Acquire, Lifecycle!vars
    <2>3. QED
      BY Zenon, <1>4, <2>1, <2>2 DEF addFinalizerToVR, Skip, Fail, StoreVR, stored
  <1>5. CASE \/ annotatePVCWithOwner(v) \/ addFinalizerToPVC(v) \/ UpdateLastStartTime(v)
             \/ removeOwnerFromPVCAnnotation(v) \/ removeFinalizerFromPVC(v)
    BY Zenon, <1>1, <1>3, <1>5, WritesOnward DEF Onward
  <1>6. ASSUME NEW outcome, disableVolumeReplication(v, outcome) PROVE LifecycleStep
    <2>1. vr' = vr /\ (vol' = vol \/ vol' = [enabled |-> FALSE, role |-> "none"])
      BY Zenon, <1>6 DEF disableVolumeReplication, Call
    <2>2. CASE vol' = [enabled |-> FALSE, role |-> "none"]
      BY Zenon, <2>1, <2>2 DEF LifecycleStep, Lifecycle!Next, Lifecycle!Disable, Holders
    <2>3. QED
      BY Zenon, <1>1, <2>1, <2>2
  <1>7. CASE updateReplicationStatus(v)
    <2>1. CASE Fail(v)
      BY Zenon, <1>3, <2>1
    <2>2. CASE ~Fail(v)
      <3>1. /\ [vr[v] EXCEPT !.status = inst[v].status].exists = vr[v].exists
            /\ [vr[v] EXCEPT !.status = inst[v].status].finalizer = vr[v].finalizer
        BY Zenon, <1>0, StatusUpdate
      <3>2. /\ vr' = [vr EXCEPT ![v] = [vr[v] EXCEPT !.status = inst[v].status]]
            /\ vol' = vol
        BY Zenon, <1>7, <2>2 DEF updateReplicationStatus
      <3>3. \A w \in VRs : Holds(w)' <=> Holds(w)
        BY Zenon, <3>1, <3>2 DEF TypeOK, Holds
      <3>4. QED
        BY Zenon, <3>2, <3>3, Stutters
    <2>3. QED
      BY Zenon, <2>1, <2>2
  <1>8. CASE removeFinalizerFromVR(v)
    <2>1. CASE Fail(v)
      BY <1>3, <2>1
    <2>2. CASE ~Fail(v)
      <3>1. /\ pc[v] = "vrUnfinalize" /\ vol' = vol
            /\ vr' = [vr EXCEPT ![v] = [NoVR EXCEPT !.gen = vr[v].gen]]
        BY Zenon, <1>8, <2>2 DEF removeFinalizerFromVR
      <3>2. Holders' = Holders \ {v}
        BY Zenon, <3>1 DEF TypeOK, Holders, NoVR
      <3>3. vol.enabled => Holders # {v}
        BY Zenon, <1>0, <3>1 DEF EnabledInv, Holds, Holders, DelSteps
      <3>4. QED
        BY Zenon, <3>1, <3>2, <3>3
        DEF LifecycleStep, Lifecycle!Next, Lifecycle!Release, Lifecycle!vars
    <2>3. QED
      BY <2>1, <2>2
  <1>9. "True" \in InfoAnswers
    BY Zenon DEF InfoAnswers
  <1>10. ASSUME NEW outcome, NEW ready, NEW answer \in InfoAnswers,
                \/ enableReplication(v, outcome) \/ markVolumeAsPrimary(v, outcome)
                \/ getVolumeReplicationInfo(v, answer) \/ markVolumeAsSecondary(v, outcome)
                \/ resyncVolume(v, outcome, ready)
         PROVE  LifecycleStep
    BY Zenon, <1>0, <1>10, CallsLifecycle
  <1>11. QED
    BY Zenon, <1>2, <1>4, <1>5, <1>6, <1>7, <1>8, <1>9, <1>10 DEF Reconcile

\* The controller, with its caches, conflicts, retries, faults and restarts,
\* implements the life cycle of ReplicationLifecycle.
THEOREM Refinement == Spec => ImplementsLifecycle
  <1>1. Init => Lifecycle!Init
    BY DEF Init, Lifecycle!Init, Holders, NoVR
  <1>2. TypeOK /\ HoldInv /\ [Next]_vars => LifecycleStep
    <2>. SUFFICES ASSUME TypeOK, HoldInv, [Next]_vars PROVE LifecycleStep
      BY Zenon
    <2>1. ASSUME vr' = vr, vol' = vol PROVE LifecycleStep
      BY Zenon, <2>1, Stutters DEF Holds
    <2>2. ASSUME NEW v \in VRs, User(v) PROVE LifecycleStep
      <3>1. PICK o \in VRObjects : Stores(v, o)
        BY <2>2, UserStores
      <3>2. \A w \in VRs : Holds(w)' <=> Holds(w)
        BY Zenon, <3>1 DEF TypeOK, Stores, Holds
      <3>3. QED
        BY Zenon, <3>1, <3>2, Stutters DEF Stores
    <2>3. CASE DeleteClaim \/ ClaimGone \/ SyncClaim \/ Crash \/ UNCHANGED vars
      BY Zenon, <2>1, <2>3 DEF DeleteClaim, ClaimGone, SyncClaim, Crash, stored, vars
    <2>4. ASSUME NEW v \in VRs, SyncVR(v) \/ ReconcileInvalid(v) \/ ApiError(v)
          PROVE  LifecycleStep
      BY Zenon, <2>1, <2>4 DEF SyncVR, ReconcileInvalid, ApiError, Fail, stored
    <2>5. ASSUME NEW v \in VRs, Reconcile(v, Outcomes, BOOLEAN) PROVE LifecycleStep
      BY Zenon, <2>5, ReconcileLifecycle
    <2>6. QED
      BY Zenon, <2>2, <2>3, <2>4, <2>5 DEF Next, Environment
  <1>3. QED
    BY <1>1, <1>2, TypeCorrect, HoldInvariant, PTL
    DEF Spec, ImplementsLifecycle, Lifecycle!Spec, LifecycleStep

-----------------------------------------------------------------------------
(* The controller never comes to rest on unfinished work.                  *)

\* c is a copy of an earlier version of o, or of o: of the same generation, it
\* asks for the same.
Behind(c, o) ==
  /\ c.gen <= o.gen
  /\ c.gen = o.gen /\ o.exists => c.exists /\ c.deleting = o.deleting /\ c.spec = o.spec

\* The copies of v are never ahead of the API server, nor the instance of a
\* reconcile ahead of the cache, nor the recorded status ahead of the instance.
CopyInv(v) ==
  /\ Behind(cache[v], vr[v])
  /\ vr[v].status.observedGen <= cache[v].gen
  /\ cur[v] => inst[v].gen = vr[v].gen
  /\ pc[v] # "idle" =>
       /\ Behind(inst[v], vr[v])
       /\ inst[v].gen <= cache[v].gen
       /\ vr[v].status.observedGen <= inst[v].gen
  /\ pc[v] \in AddSteps \cup {"vrFinalizer"} => ~inst[v].deleting

\* The status about to be written answers the instance; a reconcile that will
\* not come back has reached what the instance asks for.
AnswerInv(v) ==
  pc[v] = "status" =>
    /\ inst[v].status.observedGen = inst[v].gen
    /\ ~after[v] => /\ ~inst[v].deleting
                    /\ inst[v].status.state = GetReplicationState(inst[v].spec)

\* v rests only when it is done.
DoneInv(v) ==
  Settled(v) =>
    /\ ~vr[v].deleting
    /\ vr[v].status.observedGen = vr[v].gen
    /\ vr[v].status.state = GetReplicationState(vr[v].spec)

RestOf(v) == CopyInv(v) /\ AnswerInv(v) /\ DoneInv(v)

\* The inductive invariant behind RestsOnlyWhenDone.
RestInv == \A v \in VRs : RestOf(v)

\* A step of another VR's reconcile, or of another VR's user.
Apart(v) ==
  \A w \in VRs \ {v} :
    /\ vr'[w] = vr[w] /\ cache'[w] = cache[w] /\ cacheCur'[w] = cacheCur[w]
    /\ pc'[w] = pc[w] /\ inst'[w] = inst[w] /\ cur'[w] = cur[w] /\ after'[w] = after[w]
    /\ w \in queue' <=> w \in queue

\* Such a step keeps the invariant if it keeps v's part.
LEMMA ApartKeeps ==
  ASSUME RestInv, NEW v \in VRs, Apart(v), RestOf(v)' PROVE RestInv'
  <1>1. ASSUME NEW w \in VRs \ {v} PROVE RestOf(w)'
    <2>1. CopyInv(w) /\ AnswerInv(w) /\ DoneInv(w)
      BY Zenon, <1>1 DEF RestInv, RestOf
    <2>2. /\ vr'[w] = vr[w] /\ cache'[w] = cache[w] /\ pc'[w] = pc[w] /\ inst'[w] = inst[w]
          /\ cur'[w] = cur[w] /\ after'[w] = after[w] /\ (w \in queue' <=> w \in queue)
      BY Zenon, <1>1 DEF Apart
    <2>3. CopyInv(w)'
      BY Zenon, <2>1, <2>2 DEF CopyInv, Behind
    <2>4. AnswerInv(w)'
      BY Zenon, <2>1, <2>2 DEF AnswerInv
    <2>5. DoneInv(w)'
      BY Zenon, <2>1, <2>2 DEF DoneInv, Settled
    <2>6. QED
      BY Zenon, <2>3, <2>4, <2>5 DEF RestOf
  <1>2. QED
    BY Zenon, <1>1 DEF RestInv

\* A write of the status touches nothing else of a VR.
LEMMA StatusAlone ==
  ASSUME NEW o \in VRObjects, NEW st
  PROVE  /\ [o EXCEPT !.status = st].exists = o.exists
         /\ [o EXCEPT !.status = st].deleting = o.deleting
         /\ [o EXCEPT !.status = st].spec = o.spec
         /\ [o EXCEPT !.status = st].gen = o.gen
         /\ [o EXCEPT !.status = st].status = st
  BY Zenon DEF VRObjects

\* i and j are the same request of the user.
SameRequest(i, j) ==
  i.exists = j.exists /\ i.deleting = j.deleting /\ i.spec = j.spec /\ i.gen = j.gen

\* v's reconcile goes on to step without writing the VR.
GoesTo(v, step) ==
  /\ UNCHANGED <<vr, cache, cacheCur, queue, cur>>
  /\ Apart(v)
  /\ pc'[v] = step
  /\ SameRequest(inst'[v], inst[v])

\* The answer that v's reconcile is to write.
Answers(v, st, state, requeue) ==
  /\ inst'[v].status.state = state
  /\ inst'[v].status.observedGen = inst[v].gen
  /\ inst'[v].status.completed = st.completed
  /\ inst'[v].status.degraded = st.degraded
  /\ inst'[v].status.replicating = st.replicating
  /\ after'[v] = requeue

\* What Finish does.
LEMMA Finishes ==
  ASSUME TypeOK, NEW v \in VRs, NEW st \in Status, NEW state, NEW b, Finish(v, st, state, b),
         UNCHANGED <<vr, cache, cacheCur, queue, cur>>
  PROVE  GoesTo(v, "status") /\ Answers(v, st, state, b)
  <1>. DEFINE new == [st EXCEPT !.state = state, !.observedGen = inst[v].gen]
  <1>1. /\ new.state = state /\ new.observedGen = inst[v].gen /\ new.completed = st.completed
        /\ new.degraded = st.degraded /\ new.replicating = st.replicating
    BY Zenon DEF Status
  <1>2. inst' = [inst EXCEPT ![v] = [inst[v] EXCEPT !.status = new]]
    BY Zenon DEF Finish
  <1>. HIDE DEF new
  <1>3. inst[v] \in VRObjects
    BY Zenon DEF TypeOK
  <1>4. inst'[v] = [inst[v] EXCEPT !.status = new] /\ \A w \in VRs \ {v} : inst'[w] = inst[w]
    BY Zenon, <1>2 DEF TypeOK
  <1>5. SameRequest(inst'[v], inst[v]) /\ inst'[v].status = new
    BY <1>3, <1>4, StatusAlone DEF SameRequest
  <1>6. /\ pc'[v] = "status" /\ after'[v] = b
        /\ \A w \in VRs \ {v} : pc'[w] = pc[w] /\ after'[w] = after[w]
    BY Zenon DEF Finish, Goto, TypeOK
  <1>7. Apart(v)
    BY Zenon, <1>4, <1>6 DEF Apart
  <1>8. QED
    BY Zenon, <1>1, <1>5, <1>6, <1>7 DEF GoesTo, Answers

\* What setting conditions on the way to step does.
LEMMA GoesWithStatus ==
  ASSUME TypeOK, NEW v \in VRs, NEW st, NEW step, inst' = [inst EXCEPT ![v].status = st],
         Goto(v, step), UNCHANGED <<vr, cache, cacheCur, queue, cur, after>>
  PROVE  GoesTo(v, step)
  <1>1. inst'[v] = [inst[v] EXCEPT !.status = st] /\ \A w \in VRs \ {v} : inst'[w] = inst[w]
    BY Zenon DEF TypeOK
  <1>2. SameRequest(inst'[v], inst[v])
    BY <1>1, StatusAlone DEF SameRequest, TypeOK
  <1>3. pc'[v] = step /\ \A w \in VRs \ {v} : pc'[w] = pc[w]
    BY Zenon DEF Goto, TypeOK
  <1>4. QED
    BY Zenon, <1>1, <1>2, <1>3 DEF GoesTo, Apart

\* What going on without a change does.
LEMMA GoesPlainly ==
  ASSUME TypeOK, NEW v \in VRs, NEW step, Goto(v, step),
         UNCHANGED <<vr, cache, cacheCur, queue, inst, cur, after>>
  PROVE  GoesTo(v, step)
  <1>1. pc'[v] = step /\ \A w \in VRs \ {v} : pc'[w] = pc[w]
    BY Zenon DEF Goto, TypeOK
  <1>2. QED
    BY Zenon, <1>1 DEF GoesTo, Apart, SameRequest

\* A reconcile on its way keeps the invariant, if what it is to write answers
\* the instance.
LEMMA OnItsWay ==
  ASSUME RestInv, NEW v \in VRs, NEW step, GoesTo(v, step), pc[v] # "idle", step # "idle",
         step \in AddSteps \cup {"vrFinalizer"} => pc[v] \in AddSteps \cup {"vrFinalizer"},
         step = "status" =>
           /\ pc[v] \in AddSteps /\ inst'[v].status.observedGen = inst[v].gen
           /\ ~after'[v] => inst'[v].status.state = GetReplicationState(inst[v].spec)
  PROVE  RestInv'
  <1>1. CopyInv(v)'
    BY Zenon DEF RestInv, RestOf, CopyInv, Behind, GoesTo, SameRequest
  <1>2. AnswerInv(v)'
    BY Zenon DEF RestInv, RestOf, CopyInv, AnswerInv, GoesTo, SameRequest
  <1>3. DoneInv(v)'
    BY Zenon DEF DoneInv, Settled, GoesTo
  <1>4. QED
    BY Zenon, <1>1, <1>2, <1>3, ApartKeeps DEF RestOf, GoesTo

\* A reconcile that has failed comes back.
LEMMA FailedComesBack ==
  ASSUME TypeOK, RestInv, NEW v \in VRs, Return(v, TRUE), UNCHANGED <<vr, cache, cacheCur>>
  PROVE  RestInv'
  <1>1. /\ pc'[v] = "idle" /\ ~cur'[v] /\ v \in queue'
        /\ \A w \in VRs \ {v} : /\ pc'[w] = pc[w] /\ inst'[w] = inst[w] /\ cur'[w] = cur[w]
                                /\ after'[w] = after[w] /\ (w \in queue' <=> w \in queue)
    BY Zenon DEF Return, TypeOK
  <1>2. Apart(v)
    BY Zenon, <1>1 DEF Apart
  <1>3. CopyInv(v)' /\ AnswerInv(v)'
    BY Zenon, <1>1 DEF RestInv, RestOf, CopyInv, Behind, AnswerInv, AddSteps
  <1>4. DoneInv(v)'
    BY Zenon, <1>1 DEF DoneInv, Settled
  <1>5. QED
    BY Zenon, <1>2, <1>3, <1>4, ApartKeeps DEF RestOf

\* The reasons that the setters of status.go give.
LEMMA Reasons ==
  ASSUME NEW st \in Status
  PROVE  /\ setFailedPromotionCondition(st).completed = "FailedToPromote"
         /\ setFailedValidationCondition(st).completed = "FailedToPromote"
         /\ setFailedDemotionCondition(st).completed = "FailedToDemote"
         /\ setFailedResyncCondition(st).completed = "FailedToResync"
         /\ removeReplicatingCondition(st).completed = st.completed
         /\ removeReplicatingCondition(st).degraded = st.degraded
         /\ removeReplicatingCondition(st).replicating = "none"
         /\ setResyncCondition(st).completed = "Demoted"
         /\ setNotDegradedCondition(st).completed = st.completed
         /\ setNotDegradedCondition(st).degraded = "Healthy"
  <1>1. /\ setFailedPromotionCondition(st).completed = "FailedToPromote"
        /\ setFailedValidationCondition(st).completed = "FailedToPromote"
        /\ setFailedDemotionCondition(st).completed = "FailedToDemote"
    BY Zenon DEF Status, setFailedPromotionCondition, setFailedValidationCondition,
           setFailedDemotionCondition
  <1>2. /\ setFailedResyncCondition(st).completed = "FailedToResync"
        /\ setResyncCondition(st).completed = "Demoted"
    BY Zenon DEF Status, setFailedResyncCondition, setResyncCondition
  <1>3. /\ removeReplicatingCondition(st).completed = st.completed
        /\ removeReplicatingCondition(st).degraded = st.degraded
        /\ removeReplicatingCondition(st).replicating = "none"
    BY Zenon DEF Status, removeReplicatingCondition
  <1>4. /\ setNotDegradedCondition(st).completed = st.completed
        /\ setNotDegradedCondition(st).degraded = "Healthy"
    BY Zenon DEF Status, setNotDegradedCondition
  <1>5. QED
    BY Zenon, <1>1, <1>2, <1>3, <1>4

\* v's reconcile is to write a status with reason c, and to come back.
ComesBack(v, c) ==
  /\ GoesTo(v, "status")
  /\ inst'[v].status.observedGen = inst[v].gen
  /\ inst'[v].status.completed = c
  /\ after'[v] = TRUE

\* What FinishFailed does.
LEMMA FinishesFailed ==
  ASSUME TypeOK, NEW v \in VRs, NEW st \in Status, FinishFailed(v, st),
         UNCHANGED <<vr, cache, cacheCur, queue, cur>>
  PROVE  ComesBack(v, st.completed)
  <1>1. Finish(v, st, GetCurrentReplicationState(inst[v].status.state), TRUE)
    BY Zenon DEF FinishFailed
  <1>2. /\ GoesTo(v, "status")
        /\ Answers(v, st, GetCurrentReplicationState(inst[v].status.state), TRUE)
    BY Zenon, <1>1, Finishes
  <1>3. QED
    BY Zenon, <1>2 DEF ComesBack, Answers

\* v's reconcile is to write that the instance's state is reached.
Reaches(v, st, requeue) ==
  GoesTo(v, "status") /\ Answers(v, st, GetReplicationState(inst[v].spec), requeue)

\* Where enableReplication leads.
LEMMA EnableGoes ==
  ASSUME TypeOK, NEW v \in VRs, NEW outcome, enableReplication(v, outcome)
  PROVE  /\ pc[v] = "enable"
         /\ \/ GoesTo(v, "promote") /\ vol' = [vol EXCEPT !.enabled = TRUE]
            \/ ComesBack(v, "FailedToPromote") /\ (vol' = vol \/ vol' = [vol EXCEPT !.enabled = TRUE])
  <1>0. inst[v].status \in Status
    BY Zenon DEF TypeOK, VRObjects
  <1>1. /\ pc[v] = "enable" /\ UNCHANGED <<vr, cache, cacheCur, queue, cur>>
        /\ vol' = vol \/ vol' = [vol EXCEPT !.enabled = TRUE]
    BY Zenon DEF enableReplication, callUnchanged, informer, Call
  <1>2. CASE outcome = "ok"
    BY Zenon, <1>1, <1>2, GoesPlainly DEF enableReplication, Call
  <1>3. ASSUME NEW st \in Status, st.completed = "FailedToPromote", FinishFailed(v, st)
        PROVE  ComesBack(v, "FailedToPromote")
    BY Zenon, <1>1, <1>3, FinishesFailed
  <1>4. CASE outcome # "ok"
    BY Zenon, <1>0, <1>1, <1>3, <1>4, StatusSetters, Reasons DEF enableReplication
  <1>5. QED
    BY Zenon, <1>1, <1>2, <1>4

\* Where markVolumeAsPrimary leads.
LEMMA PromoteGoes ==
  ASSUME TypeOK, NEW v \in VRs, NEW outcome, markVolumeAsPrimary(v, outcome)
  PROVE  /\ pc[v] \in {"promote", "forcePromote"}
         /\ vol' = vol \/ vol' = [vol EXCEPT !.role = "primary"]
         /\ \/ GoesTo(v, "info")
            \/ GoesTo(v, "forcePromote")
            \/ ComesBack(v, "FailedToPromote")
  <1>0. inst[v].status \in Status
    BY DEF TypeOK, VRObjects
  <1>1. /\ pc[v] \in {"promote", "forcePromote"} /\ UNCHANGED <<vr, cache, cacheCur, queue, cur>>
        /\ vol' = vol \/ vol' = [vol EXCEPT !.role = "primary"]
    BY Zenon DEF markVolumeAsPrimary, callUnchanged, informer, Call
  <1>2. CASE /\ inst' = [inst EXCEPT ![v].status = setPromotedCondition(inst[v].status)]
             /\ Goto(v, "info") /\ UNCHANGED after
    BY Zenon, <1>1, <1>2, GoesWithStatus
  <1>3. CASE Goto(v, "forcePromote") /\ UNCHANGED <<inst, after>>
    BY Zenon, <1>1, <1>3, GoesPlainly
  <1>4. CASE FinishFailed(v, setFailedPromotionCondition(inst[v].status))
    <2>1. /\ setFailedPromotionCondition(inst[v].status) \in Status
          /\ setFailedPromotionCondition(inst[v].status).completed = "FailedToPromote"
      BY Zenon, <1>0, StatusSetters, Reasons
    <2>2. ComesBack(v, "FailedToPromote")
      BY Zenon, <1>1, <1>4, <2>1, FinishesFailed
    <2>3. QED
      BY Zenon, <1>1, <2>2
  <1>5. QED
    BY Zenon, <1>2, <1>3, <1>4 DEF markVolumeAsPrimary

\* Where getVolumeReplicationInfo leads.
LEMMA InfoGoes ==
  ASSUME TypeOK, NEW v \in VRs, NEW answer \in InfoAnswers, getVolumeReplicationInfo(v, answer)
  PROVE  pc[v] = "info" /\ vol' = vol /\ \E st \in Status, b \in BOOLEAN : Reaches(v, st, b)
  <1>0. inst[v].status \in Status
    BY Zenon DEF TypeOK, VRObjects
  <1>1. pc[v] = "info" /\ vol' = vol /\ UNCHANGED <<vr, cache, cacheCur, queue, cur>>
    BY Zenon DEF getVolumeReplicationInfo, callUnchanged, informer
  <1>. DEFINE st == IF answer \in {"True", "False", "Unknown"}
                      THEN setReplicationCondition(inst[v].status, answer)
                      ELSE inst[v].status
  <1>2. st \in Status
    BY Zenon, <1>0, StatusSetters
  <1>3. Finish(v, st, GetReplicationState(inst[v].spec), answer # "Unimplemented")
    BY Zenon DEF getVolumeReplicationInfo
  <1>. HIDE DEF st
  <1>4. Reaches(v, st, answer # "Unimplemented")
    BY Zenon, <1>1, <1>2, <1>3, Finishes DEF Reaches
  <1>5. QED
    BY Zenon, <1>1, <1>2, <1>4

\* Where markVolumeAsSecondary leads.
LEMMA DemoteGoes ==
  ASSUME TypeOK, NEW v \in VRs, NEW outcome, markVolumeAsSecondary(v, outcome)
  PROVE  /\ pc[v] = "demote"
         /\ vol' = vol \/ vol' = [vol EXCEPT !.role = "secondary"]
         /\ \/ /\ vol' = [vol EXCEPT !.role = "secondary"]
               /\ GoesTo(v, "resync") \/ \E st \in Status : Reaches(v, st, TRUE)
            \/ ComesBack(v, "FailedToDemote")
  <1>0. inst[v].status \in Status
    BY DEF TypeOK, VRObjects
  <1>1. /\ pc[v] = "demote" /\ UNCHANGED <<vr, cache, cacheCur, queue, cur>>
        /\ vol' = vol \/ vol' = [vol EXCEPT !.role = "secondary"]
    BY Zenon DEF markVolumeAsSecondary, callUnchanged, informer, Call
  <1>2. CASE /\ inst' = [inst EXCEPT ![v].status = setDemotedCondition(inst[v].status)]
             /\ Goto(v, "resync") /\ UNCHANGED after /\ outcome = "ok"
    <2>1. GoesTo(v, "resync")
      BY Zenon, <1>1, <1>2, GoesWithStatus
    <2>2. QED
      BY Zenon, <1>1, <1>2, <2>1 DEF markVolumeAsSecondary, Call
  <1>3. CASE FinishFirstDemotion(v) /\ outcome = "ok"
    <2>1. Reaches(v, setDemotedCondition(inst[v].status), TRUE)
      BY Zenon, <1>0, <1>1, <1>3, Finishes, StatusSetters DEF FinishFirstDemotion, Reaches
    <2>2. vol' = [vol EXCEPT !.role = "secondary"]
      BY Zenon, <1>3 DEF markVolumeAsSecondary, Call
    <2>3. QED
      BY Zenon, <1>0, <1>1, <2>1, <2>2, StatusSetters
  <1>4. CASE FinishFailed(v, setFailedDemotionCondition(inst[v].status))
    <2>1. /\ setFailedDemotionCondition(inst[v].status) \in Status
          /\ setFailedDemotionCondition(inst[v].status).completed = "FailedToDemote"
      BY Zenon, <1>0, StatusSetters, Reasons
    <2>2. ComesBack(v, "FailedToDemote")
      BY Zenon, <1>1, <1>4, <2>1, FinishesFailed
    <2>3. QED
      BY Zenon, <1>1, <2>2
  <1>5. QED
    BY Zenon, <1>2, <1>3, <1>4 DEF markVolumeAsSecondary

\* Where resyncVolume leads.
LEMMA ResyncGoes ==
  ASSUME TypeOK, NEW v \in VRs, NEW outcome, NEW ready, resyncVolume(v, outcome, ready)
  PROVE  /\ pc[v] = "resync" /\ vol' = vol
         /\ \/ \E c \in {"Demoted", "FailedToResync"} : ComesBack(v, c)
            \/ \E st \in Status :
                 /\ Reaches(v, st, FALSE) /\ st.completed = "Demoted" /\ st.degraded = "Healthy"
                 /\ inst[v].spec = "secondary" => st.replicating = "none"
  <1>0. inst[v].status \in Status
    BY Zenon DEF TypeOK, VRObjects
  <1>1. pc[v] = "resync" /\ vol' = vol /\ UNCHANGED <<vr, cache, cacheCur, queue, cur>>
    BY Zenon DEF resyncVolume, callUnchanged, informer
  <1>. DEFINE triggered == setResyncCondition(inst[v].status)
              synced == setNotDegradedCondition(triggered)
              st == IF inst[v].spec = "secondary"
                      THEN removeReplicatingCondition(synced) ELSE synced
  <1>2. /\ triggered \in Status /\ triggered.completed = "Demoted"
        /\ setFailedResyncCondition(inst[v].status) \in Status
        /\ setFailedResyncCondition(inst[v].status).completed = "FailedToResync"
    BY Zenon, <1>0, StatusSetters, Reasons
  <1>3. CASE FinishFailed(v, setFailedResyncCondition(inst[v].status))
    <2>1. ComesBack(v, "FailedToResync")
      BY Zenon, <1>1, <1>2, <1>3, FinishesFailed
    <2>2. QED
      BY Zenon, <1>1, <2>1
  <1>4. CASE FinishFailed(v, removeReplicatingCondition(triggered))
    <2>1. /\ removeReplicatingCondition(triggered) \in Status
          /\ removeReplicatingCondition(triggered).completed = "Demoted"
      BY Zenon, <1>2, StatusSetters, Reasons
    <2>2. ComesBack(v, "Demoted")
      BY Zenon, <1>1, <1>4, <2>1, FinishesFailed
    <2>3. QED
      BY Zenon, <1>1, <2>2
  <1>5. CASE Finish(v, st, GetReplicationState(inst[v].spec), FALSE)
    <2>1. synced \in Status /\ synced.completed = "Demoted" /\ synced.degraded = "Healthy"
      BY Zenon, <1>2, StatusSetters, Reasons
    <2>. HIDE DEF synced
    <2>2. /\ removeReplicatingCondition(synced) \in Status
          /\ removeReplicatingCondition(synced).completed = "Demoted"
          /\ removeReplicatingCondition(synced).degraded = "Healthy"
          /\ removeReplicatingCondition(synced).replicating = "none"
      BY Zenon, <2>1, StatusSetters, Reasons
    <2>3. /\ st \in Status /\ st.completed = "Demoted" /\ st.degraded = "Healthy"
          /\ inst[v].spec = "secondary" => st.replicating = "none"
      BY Zenon, <2>1, <2>2
    <2>. HIDE DEF st
    <2>4. Reaches(v, st, FALSE)
      BY Zenon, <1>1, <1>5, <2>3, Finishes DEF Reaches
    <2>5. QED
      BY Zenon, <1>1, <2>3, <2>4
  <1>6. QED
    BY Zenon, <1>3, <1>4, <1>5 DEF resyncVolume

\* A driver call leads on, or to a status that answers the instance.
LEMMA CallsRest ==
  ASSUME TypeOK, RestInv, NEW v \in VRs, NEW outcome, NEW ready, NEW answer \in InfoAnswers,
         \/ enableReplication(v, outcome) \/ markVolumeAsPrimary(v, outcome)
         \/ getVolumeReplicationInfo(v, answer) \/ markVolumeAsSecondary(v, outcome)
         \/ resyncVolume(v, outcome, ready)
  PROVE  RestInv'
  <1>1. ASSUME NEW step \in AddSteps, GoesTo(v, step), pc[v] \in AddSteps PROVE RestInv'
    BY Zenon, <1>1, OnItsWay DEF AddSteps
  <1>2. ASSUME NEW c, ComesBack(v, c), pc[v] \in AddSteps PROVE RestInv'
    BY Zenon, <1>2, OnItsWay DEF ComesBack, AddSteps
  <1>3. ASSUME NEW st, NEW b, Reaches(v, st, b), pc[v] \in AddSteps PROVE RestInv'
    BY Zenon, <1>3, OnItsWay DEF Reaches, Answers, AddSteps
  <1>4. CASE enableReplication(v, outcome)
    BY Zenon, <1>1, <1>2, <1>4, EnableGoes DEF AddSteps
  <1>5. CASE markVolumeAsPrimary(v, outcome)
    BY Zenon, <1>1, <1>2, <1>5, PromoteGoes DEF AddSteps
  <1>6. CASE getVolumeReplicationInfo(v, answer)
    BY Zenon, <1>3, <1>6, InfoGoes DEF AddSteps
  <1>7. CASE markVolumeAsSecondary(v, outcome)
    BY Zenon, <1>1, <1>2, <1>3, <1>7, DemoteGoes DEF AddSteps
  <1>8. CASE resyncVolume(v, outcome, ready)
    BY Zenon, <1>2, <1>3, <1>8, ResyncGoes DEF AddSteps
  <1>9. QED
    BY Zenon, <1>4, <1>5, <1>6, <1>7, <1>8

\* The writes of the claim and of LastStartTime, and the Disable call.
LEMMA WritesRest ==
  ASSUME TypeOK, RestInv, NEW v \in VRs,
         \/ annotatePVCWithOwner(v) \/ addFinalizerToPVC(v) \/ UpdateLastStartTime(v)
         \/ removeOwnerFromPVCAnnotation(v) \/ removeFinalizerFromPVC(v)
         \/ \E outcome : disableVolumeReplication(v, outcome)
  PROVE  RestInv'
  <1>1. CASE Fail(v)
    BY Zenon, <1>1, FailedComesBack DEF Fail, stored, informer
  <1>2. ASSUME NEW step \in AddSteps, GoesTo(v, step), pc[v] \in AddSteps PROVE RestInv'
    BY Zenon, <1>2, OnItsWay DEF AddSteps
  <1>3. ASSUME NEW step \in DelSteps, GoesTo(v, step), pc[v] \in DelSteps PROVE RestInv'
    BY Zenon, <1>3, OnItsWay DEF AddSteps, DelSteps
  <1>4. ASSUME NEW c, NEW step, UpdateClaim(v, c, step) \/ Skip(v, step)
        PROVE  Fail(v) \/ GoesTo(v, step)
    BY Zenon, <1>4, GoesPlainly DEF UpdateClaim, Skip, stored, informer, locals
  <1>5. CASE annotatePVCWithOwner(v)
    BY Zenon, <1>1, <1>2, <1>4, <1>5 DEF annotatePVCWithOwner, AddSteps
  <1>6. CASE addFinalizerToPVC(v)
    BY Zenon, <1>1, <1>2, <1>4, <1>6 DEF addFinalizerToPVC, AddSteps
  <1>7. CASE removeOwnerFromPVCAnnotation(v)
    BY Zenon, <1>1, <1>3, <1>4, <1>7 DEF removeOwnerFromPVCAnnotation, DelSteps
  <1>8. CASE removeFinalizerFromPVC(v)
    BY Zenon, <1>1, <1>3, <1>4, <1>8 DEF removeFinalizerFromPVC, DelSteps
  <1>9. CASE UpdateLastStartTime(v) /\ ~Fail(v)
    <2>1. inst[v].spec \in ReplicationStates
      BY Zenon, VRUpdates DEF TypeOK
    <2>2. DriverCall(inst[v]) \in AddSteps /\ pc[v] \in AddSteps
      BY Zenon, <1>9, <2>1 DEF UpdateLastStartTime, DriverCall, AddSteps, ReplicationStates
    <2>3. GoesTo(v, DriverCall(inst[v]))
      BY Zenon, <1>9, GoesWithStatus DEF UpdateLastStartTime, stored, informer
    <2>4. QED
      BY Zenon, <1>2, <2>2, <2>3
  <1>10. ASSUME NEW outcome, disableVolumeReplication(v, outcome) PROVE RestInv'
    <2>1. CASE outcome = "ok"
      BY Zenon, <1>3, <1>10, <2>1, GoesPlainly
      DEF disableVolumeReplication, informer, locals, DelSteps
    <2>2. CASE outcome # "ok"
      BY Zenon, <1>10, <2>2, FailedComesBack DEF disableVolumeReplication, informer
    <2>3. QED
      BY Zenon, <2>1, <2>2
  <1>11. QED
    BY Zenon, <1>1, <1>5, <1>6, <1>7, <1>8, <1>9, <1>10

\* The first step of a reconcile, with the instance read from the cache.
LEMMA StartRests ==
  ASSUME TypeOK, MetaInv, RestInv, NEW v \in VRs, ReconcileStart(v) \/ ReconcileInvalid(v)
  PROVE  RestInv'
  <1>0. /\ cache[v] \in VRObjects /\ cache[v].status \in Status
        /\ cache[v].spec \in ReplicationStates /\ cache[v].gen \in Nat
    BY Zenon DEF TypeOK, VRObjects
  <1>1. /\ UNCHANGED <<vr, cache, cacheCur>> /\ cur' = [cur EXCEPT ![v] = cacheCur[v]]
        /\ queue' = queue \ {v}
    BY Zenon DEF ReconcileStart, ReconcileInvalid, stored, informer
  <1>2. CASE ReconcileStart(v)
    <2>1. /\ pc'[v] = FirstStep(cache[v]) /\ inst'[v] = cache[v] /\ cur'[v] = cacheCur[v]
          /\ \A w \in VRs \ {v} : pc'[w] = pc[w] /\ inst'[w] = inst[w] /\ cur'[w] = cur[w]
          /\ after' = after
      BY Zenon, <1>1, <1>2 DEF TypeOK, ReconcileStart, Goto
    <2>2. Apart(v)
      BY Zenon, <1>1, <2>1 DEF Apart
    <2>c. CopyInv(v) /\ CacheInv
      BY Zenon DEF MetaInv, RestInv, RestOf
    <2>d. /\ vr'[v] = vr[v] /\ cache'[v] = cache[v]
          /\ cacheCur[v] => cache[v].gen = vr[v].gen
          /\ pc'[v] \in AddSteps \cup {"vrFinalizer"} => ~cache[v].deleting
      BY Zenon, <1>1, <2>1, <2>c DEF CacheInv, FirstStep, AddSteps
    <2>3. CopyInv(v)'
      BY <1>0, <2>1, <2>c, <2>d DEF CopyInv, Behind
    <2>4. AnswerInv(v)' /\ DoneInv(v)'
      BY Zenon, <2>1 DEF AnswerInv, DoneInv, Settled, FirstStep
    <2>5. QED
      BY Zenon, <2>2, <2>3, <2>4, ApartKeeps DEF RestOf
  <1>3. CASE ReconcileInvalid(v)
    <2>. DEFINE failed == setFailureCondition(cache[v].status, cache[v].spec)
                st == [failed EXCEPT
                         !.state = GetCurrentReplicationState(cache[v].status.state),
                         !.observedGen = cache[v].gen]
    <2>1. failed \in Status
      BY Zenon, <1>0, StatusSetters
    <2>2. st.observedGen = cache[v].gen
      BY Zenon, <2>1 DEF Status
    <2>3. inst' = [inst EXCEPT ![v] = [cache[v] EXCEPT !.status = st]]
      BY Zenon, <1>3 DEF ReconcileInvalid
    <2>. HIDE DEF st
    <2>4. /\ pc'[v] = "status" /\ inst'[v] = [cache[v] EXCEPT !.status = st] /\ cur'[v] = cacheCur[v]
          /\ \A w \in VRs \ {v} : pc'[w] = pc[w] /\ inst'[w] = inst[w] /\ cur'[w] = cur[w]
      BY <1>1, <1>3, <2>3 DEF TypeOK, ReconcileInvalid, Goto
    <2>5. after'[v] /\ \A w \in VRs \ {v} : after'[w] = after[w]
      BY Zenon, <1>3 DEF TypeOK, ReconcileInvalid
    <2>6. SameRequest(inst'[v], cache[v]) /\ inst'[v].status.observedGen = cache[v].gen
      BY <1>0, <2>2, <2>4, StatusAlone DEF SameRequest
    <2>7. Apart(v)
      BY Zenon, <1>1, <2>4, <2>5 DEF Apart
    <2>8. CopyInv(v)'
      BY <1>0, <1>1, <2>4, <2>6
      DEF MetaInv, CacheInv, RestInv, RestOf, CopyInv, Behind, SameRequest, AddSteps
    <2>9. AnswerInv(v)' /\ DoneInv(v)'
      BY Zenon, <2>4, <2>5, <2>6 DEF AnswerInv, DoneInv, Settled, SameRequest
    <2>10. QED
      BY <2>7, <2>8, <2>9, ApartKeeps DEF RestOf
  <1>4. QED
    BY Zenon, <1>2, <1>3

\* The writes of the VR by its reconcile: its finalizer, its status, its removal.
LEMMA WritesVRRest ==
  ASSUME TypeOK, MetaInv, RestInv, NEW v \in VRs,
         addFinalizerToVR(v) \/ updateReplicationStatus(v) \/ removeFinalizerFromVR(v)
  PROVE  RestInv'
  <1>0. /\ vr[v] \in VRObjects /\ inst[v] \in VRObjects
        /\ vr[v].gen \in Nat /\ inst[v].gen \in Nat /\ cache[v].gen \in Nat
    BY Zenon DEF TypeOK, VRObjects
  <1>1. CASE Fail(v)
    BY Zenon, <1>1, FailedComesBack DEF Fail, stored, informer
  <1>2. CASE addFinalizerToVR(v) /\ ~Fail(v) /\ inst[v].finalizer
    BY Zenon, <1>2, GoesPlainly, OnItsWay
    DEF addFinalizerToVR, Skip, stored, informer, locals, AddSteps
  <1>3. CASE addFinalizerToVR(v) /\ ~Fail(v) /\ ~inst[v].finalizer
    <2>. DEFINE o == [vr[v] EXCEPT !.finalizer = TRUE]
                i == [inst[v] EXCEPT !.finalizer = TRUE]
    <2>1. SameRequest(o, vr[v]) /\ SameRequest(i, inst[v]) /\ o.status = vr[v].status
      BY Zenon, <1>0 DEF VRObjects, SameRequest
    <2>2. /\ cur[v] /\ pc[v] = "vrFinalizer"
          /\ vr' = [vr EXCEPT ![v] = o] /\ inst' = [inst EXCEPT ![v] = i]
          /\ cacheCur' = [cacheCur EXCEPT ![v] = FALSE] /\ cur' = [cur EXCEPT ![v] = TRUE]
          /\ pc' = [pc EXCEPT ![v] = "annotate"] /\ UNCHANGED <<cache, queue, after>>
      BY Zenon, <1>3 DEF addFinalizerToVR, StoreVR, Goto
    <2>. HIDE DEF o, i
    <2>3. /\ vr'[v] = o /\ inst'[v] = i /\ pc'[v] = "annotate"
          /\ Apart(v)
      BY Zenon, <2>2 DEF TypeOK, Apart
    <2>c. CopyInv(v)
      BY Zenon DEF RestInv, RestOf
    <2>d. cache'[v] = cache[v]
      BY Zenon, <2>2
    <2>4. CopyInv(v)'
      BY <2>1, <2>2, <2>3, <2>c, <2>d DEF CopyInv, Behind, SameRequest, AddSteps
    <2>5. AnswerInv(v)' /\ DoneInv(v)'
      BY Zenon, <2>3 DEF AnswerInv, DoneInv, Settled
    <2>6. QED
      BY Zenon, <2>3, <2>4, <2>5, ApartKeeps DEF RestOf
  <1>4. CASE updateReplicationStatus(v) /\ ~Fail(v)
    <2>. DEFINE o == [vr[v] EXCEPT !.status = inst[v].status]
    <2>1. SameRequest(o, vr[v]) /\ o.status = inst[v].status
      BY <1>0, StatusAlone DEF SameRequest
    <2>2. /\ cur[v] /\ pc[v] = "status" /\ vr' = [vr EXCEPT ![v] = o] /\ Return(v, after[v])
          /\ cacheCur' = [cacheCur EXCEPT ![v] = FALSE] /\ cache' = cache
      BY Zenon, <1>4 DEF updateReplicationStatus
    <2>. HIDE DEF o
    <2>3. /\ vr'[v] = o /\ pc'[v] = "idle" /\ ~cur'[v] /\ (after[v] => v \in queue')
          /\ Apart(v)
      BY Zenon, <2>2 DEF TypeOK, Apart, Return
    <2>4. /\ inst[v].gen = vr[v].gen /\ inst[v].gen <= cache[v].gen
          /\ Behind(inst[v], vr[v]) /\ Behind(cache[v], vr[v])
          /\ inst[v].status.observedGen = inst[v].gen
          /\ ~after[v] => /\ ~inst[v].deleting
                          /\ inst[v].status.state = GetReplicationState(inst[v].spec)
          /\ vr[v].exists
      BY Zenon, <2>2 DEF RestInv, RestOf, CopyInv, AnswerInv, MetaInv, CurInv
    <2>5. CopyInv(v)'
      BY <2>1, <2>2, <2>3, <2>4 DEF CopyInv, Behind, SameRequest, AddSteps
    <2>6. AnswerInv(v)'
      BY Zenon, <2>3 DEF AnswerInv
    <2>7. DoneInv(v)'
      BY Zenon, <2>1, <2>3, <2>4 DEF DoneInv, Settled, Behind, SameRequest
    <2>8. QED
      BY Zenon, <2>3, <2>5, <2>6, <2>7, ApartKeeps DEF RestOf
  <1>5. CASE removeFinalizerFromVR(v) /\ ~Fail(v)
    <2>. DEFINE o == [NoVR EXCEPT !.gen = vr[v].gen]
    <2>1. o.gen = vr[v].gen /\ ~o.exists /\ o.status.observedGen = 0
      BY Zenon DEF NoVR, NoStatus
    <2>2. /\ vr' = [vr EXCEPT ![v] = o] /\ Return(v, FALSE)
          /\ cacheCur' = [cacheCur EXCEPT ![v] = FALSE] /\ cache' = cache
      BY Zenon, <1>5 DEF removeFinalizerFromVR
    <2>. HIDE DEF o
    <2>3. vr'[v] = o /\ pc'[v] = "idle" /\ ~cur'[v] /\ Apart(v)
      BY Zenon, <2>2 DEF TypeOK, Apart, Return
    <2>c. CopyInv(v)
      BY Zenon DEF RestInv, RestOf
    <2>4. CopyInv(v)'
      BY <1>0, <2>1, <2>2, <2>3, <2>c DEF CopyInv, Behind, AddSteps
    <2>5. AnswerInv(v)' /\ DoneInv(v)'
      BY Zenon, <2>1, <2>3 DEF AnswerInv, DoneInv, Settled
    <2>6. QED
      BY Zenon, <2>3, <2>4, <2>5, ApartKeeps DEF RestOf
  <1>6. QED
    BY Zenon, <1>1, <1>2, <1>3, <1>4, <1>5

\* What the user stores: a new generation, or nothing.
LEMMA UserRequests ==
  ASSUME TypeOK, NEW v \in VRs, User(v)
  PROVE  \E o \in VRObjects :
           /\ Stores(v, o) /\ UNCHANGED <<queue, after>>
           /\ o.gen = vr[v].gen + 1 \/ (o.gen = vr[v].gen /\ ~o.exists)
           /\ o.status.observedGen \in {0, vr[v].status.observedGen}
  <1>1. vr[v] \in VRObjects /\ NoVR \in VRObjects
    BY Constants DEF TypeOK
  <1>2. UNCHANGED <<queue, after>>
    BY Zenon DEF User, CreateVR, EditSpec, DeleteVR, reconciler
  <1>3. PICK o \in VRObjects : Stores(v, o)
    BY Zenon, UserStores
  <1>4. vr'[v] = o
    BY Zenon, <1>3 DEF TypeOK, Stores
  <1>5. ASSUME NEW s \in ReplicationStates, CreateVR(v, s)
        PROVE  o.gen = vr[v].gen + 1 /\ o.status.observedGen = 0
    <2>1. o = [NoVR EXCEPT !.exists = TRUE, !.spec = s, !.gen = vr[v].gen + 1]
      BY Zenon, <1>4, <1>5 DEF TypeOK, CreateVR, StoreVR
    <2>2. QED
      BY Zenon, <2>1 DEF NoVR, NoStatus
  <1>6. ASSUME NEW s \in ReplicationStates, EditSpec(v, s)
        PROVE  o.gen = vr[v].gen + 1 /\ o.status = vr[v].status
    <2>1. o = [vr[v] EXCEPT !.spec = s, !.gen = vr[v].gen + 1]
      BY Zenon, <1>4, <1>6 DEF TypeOK, EditSpec, StoreVR
    <2>2. QED
      BY Zenon, <1>1, <2>1 DEF VRObjects
  <1>7. CASE DeleteVR(v) /\ vr[v].finalizer
    <2>1. o = [vr[v] EXCEPT !.deleting = TRUE, !.gen = vr[v].gen + 1]
      BY Zenon, <1>4, <1>7 DEF TypeOK, DeleteVR, StoreVR
    <2>2. o.gen = vr[v].gen + 1 /\ o.status = vr[v].status
      BY Zenon, <1>1, <2>1 DEF VRObjects
    <2>3. QED
      BY Zenon, <1>2, <1>3, <2>2
  <1>8. CASE DeleteVR(v) /\ ~vr[v].finalizer
    <2>1. o = [NoVR EXCEPT !.gen = vr[v].gen]
      BY Zenon, <1>4, <1>8 DEF TypeOK, DeleteVR, StoreVR
    <2>2. o.gen = vr[v].gen /\ ~o.exists /\ o.status.observedGen = 0
      BY Zenon, <2>1 DEF NoVR, NoStatus
    <2>3. QED
      BY Zenon, <1>2, <1>3, <2>2
  <1>9. QED
    BY Zenon, <1>2, <1>3, <1>5, <1>6, <1>7, <1>8 DEF User

\* Whatever the user does, the controller has yet to hear of it.
LEMMA UserRests ==
  ASSUME TypeOK, RestInv, NEW v \in VRs, User(v) PROVE RestInv'
  <1>0. /\ vr[v].gen \in Nat /\ inst[v].gen \in Nat /\ cache[v].gen \in Nat
        /\ vr[v].status.observedGen \in Nat
    BY Zenon DEF TypeOK, VRObjects, Status
  <1>1. PICK o \in VRObjects :
          /\ Stores(v, o) /\ UNCHANGED <<queue, after>>
          /\ o.gen = vr[v].gen + 1 \/ (o.gen = vr[v].gen /\ ~o.exists)
          /\ o.status.observedGen \in {0, vr[v].status.observedGen}
    BY Zenon, UserRequests
  <1>2. /\ vr'[v] = o /\ ~cur'[v] /\ UNCHANGED <<cache, pc, inst>>
        /\ Apart(v)
    BY Zenon, <1>1 DEF TypeOK, Stores, Apart
  <1>c. CopyInv(v)
    BY Zenon DEF RestInv, RestOf
  <1>d. /\ cache'[v] = cache[v] /\ pc'[v] = pc[v] /\ inst'[v] = inst[v]
        /\ o.gen \in Nat /\ vr[v].gen <= o.gen
    BY <1>0, <1>1, <1>2
  <1>3. CopyInv(v)'
    BY <1>0, <1>1, <1>2, <1>c, <1>d DEF CopyInv, Behind
  <1>4. AnswerInv(v)'
    BY Zenon, <1>1, <1>2 DEF RestInv, RestOf, AnswerInv
  <1>5. DoneInv(v)'
    <2>1. vr[v].status.observedGen <= cache[v].gen /\ cache[v].gen <= vr[v].gen
      BY Zenon, <1>c DEF CopyInv, Behind
    <2>2. ~o.exists \/ (o.status.observedGen # o.gen /\ cache[v].gen # o.gen)
      BY <1>0, <1>1, <2>1
    <2>3. ~Settled(v)'
      BY Zenon, <1>2, <1>d, <2>2 DEF Settled
    <2>4. QED
      BY Zenon, <2>3 DEF DoneInv
  <1>6. QED
    BY Zenon, <1>2, <1>3, <1>4, <1>5, ApartKeeps DEF RestOf

\* The informer delivers a VR, and queues it if what it asks for has changed.
LEMMA SyncRests ==
  ASSUME TypeOK, RestInv, NEW v \in VRs, SyncVR(v) PROVE RestInv'
  <1>0. /\ vr[v].gen \in Nat /\ inst[v].gen \in Nat /\ cache[v].gen \in Nat
        /\ vr[v].status.observedGen \in Nat
    BY DEF TypeOK, VRObjects, Status
  <1>1. /\ cache'[v] = vr[v] /\ UNCHANGED <<vr, pc, inst, cur, after>>
        /\ cache[v].gen # vr[v].gen \/ cache[v].exists # vr[v].exists => v \in queue'
        /\ v \in queue => v \in queue'
        /\ Apart(v)
    BY Zenon DEF TypeOK, SyncVR, stored, Apart
  <1>c. CopyInv(v)
    BY Zenon DEF RestInv, RestOf
  <1>d. vr'[v] = vr[v] /\ pc'[v] = pc[v] /\ inst'[v] = inst[v] /\ cur'[v] = cur[v]
    BY Zenon, <1>1
  <1>2. CopyInv(v)'
    BY <1>0, <1>1, <1>c, <1>d DEF CopyInv, Behind
  <1>3. AnswerInv(v)'
    BY Zenon, <1>1 DEF RestInv, RestOf, AnswerInv
  <1>4. DoneInv(v)'
    BY Zenon, <1>1 DEF RestInv, RestOf, DoneInv, Settled
  <1>5. QED
    BY Zenon, <1>1, <1>2, <1>3, <1>4, ApartKeeps DEF RestOf

\* After a restart every VR is queued.
LEMMA CrashRests ==
  ASSUME TypeOK, RestInv, Crash PROVE RestInv'
  <1>. SUFFICES ASSUME NEW v \in VRs PROVE RestOf(v)'
    BY Zenon DEF RestInv
  <1>0. /\ vr[v].gen \in Nat /\ cache[v].gen \in Nat /\ vr[v].status.observedGen \in Nat
    BY Zenon DEF TypeOK, VRObjects, Status
  <1>1. /\ cache'[v] = vr[v] /\ vr' = vr /\ pc'[v] = "idle" /\ ~cur'[v]
        /\ vr[v].exists => v \in queue'
    BY Zenon DEF Crash, stored
  <1>c. CopyInv(v)
    BY Zenon DEF RestInv, RestOf
  <1>2. CopyInv(v)'
    BY <1>0, <1>1, <1>c DEF CopyInv, Behind, AddSteps
  <1>3. AnswerInv(v)' /\ DoneInv(v)'
    BY Zenon, <1>1 DEF AnswerInv, DoneInv, Settled
  <1>4. QED
    BY Zenon, <1>2, <1>3 DEF RestOf

\* Nothing that RestInv speaks of is changed.
LEMMA NothingRests ==
  ASSUME RestInv, UNCHANGED <<vr, cache, cacheCur, queue, pc, inst, cur, after>> PROVE RestInv'
  BY Zenon DEF RestInv, RestOf, CopyInv, Behind, AnswerInv, DoneInv, Settled

\* RestInv is inductive.
LEMMA RestStep ==
  ASSUME TypeOK, MetaInv, RestInv, [Next]_vars PROVE RestInv'
  <1>1. CASE DeleteClaim \/ ClaimGone \/ SyncClaim \/ UNCHANGED vars
    BY Zenon, <1>1, NothingRests
    DEF DeleteClaim, ClaimGone, SyncClaim, reconciler, stored, informer, vars
  <1>2. ASSUME NEW v \in VRs, ReconcileNotFound(v) PROVE RestInv'
    <2>1. /\ ~cache[v].exists /\ queue' = queue \ {v}
          /\ UNCHANGED <<vr, cache, cacheCur, pc, inst, cur, after>>
      BY Zenon, <1>2 DEF ReconcileNotFound, stored, informer
    <2>2. Apart(v)
      BY Zenon, <2>1 DEF Apart
    <2>3. RestOf(v)'
      BY Zenon, <2>1 DEF RestInv, RestOf, CopyInv, Behind, AnswerInv, DoneInv, Settled
    <2>4. QED
      BY Zenon, <2>2, <2>3, ApartKeeps
  <1>3. ASSUME NEW v \in VRs, ApiError(v) PROVE RestInv'
    BY Zenon, <1>3, FailedComesBack DEF ApiError, Fail, stored, informer
  <1>4. "True" \in InfoAnswers /\ TRUE \in BOOLEAN
    BY Zenon DEF InfoAnswers
  <1>5. ASSUME NEW v \in VRs, Reconcile(v, Outcomes, BOOLEAN) PROVE RestInv'
    BY Zenon, <1>2, <1>4, <1>5, StartRests, WritesVRRest, WritesRest, CallsRest DEF Reconcile
  <1>6. QED
    BY Zenon, <1>1, <1>3, <1>5, UserRests, SyncRests, CrashRests, StartRests DEF Next, Environment

\* RestInv holds in every reachable state.
LEMMA RestInvariant == Spec => []RestInv
  <1>1. Init => RestInv
    <2>. SUFFICES ASSUME Init, NEW v \in VRs PROVE RestOf(v)
      BY Zenon DEF RestInv
    <2>1. cache[v] = NoVR /\ vr[v] = NoVR /\ ~cur[v] /\ pc[v] = "idle"
      BY Zenon DEF Init
    <2>0. NoVR.gen = 0 /\ NoVR.status.observedGen = 0
      BY Zenon DEF NoVR, NoStatus
    <2>2. CopyInv(v)
      BY <2>0, <2>1 DEF CopyInv, Behind, AddSteps
    <2>3. AnswerInv(v) /\ DoneInv(v)
      BY <2>1 DEF AnswerInv, DoneInv, Settled, NoVR
    <2>4. QED
      BY Zenon, <2>2, <2>3 DEF RestOf
  <1>2. TypeOK /\ HoldInv /\ RestInv /\ [Next]_vars => RestInv'
    BY Zenon, RestStep DEF HoldInv, MetaInv
  <1>3. QED
    BY <1>1, <1>2, TypeCorrect, HoldInvariant, PTL DEF Spec

\* Whatever edits, deletions and restarts race with its reconciles, and
\* whatever fails, a VR at rest is not waiting for its deletion and its status
\* answers its present spec, for any number of VRs: an event that
\* GenerationChangedPredicate drops is never one that leaves work behind.
THEOREM RestsDone == Spec => []RestsOnlyWhenDone
  <1>1. RestInv => RestsOnlyWhenDone
    BY Zenon DEF RestInv, RestOf, DoneInv, RestsOnlyWhenDone
  <1>2. QED
    BY <1>1, RestInvariant, PTL

-----------------------------------------------------------------------------
(* The volume's role, when one VR names the claim.                         *)

\* At most one VR names the claim.
OneVR == \A v, w \in VRs : v = w

\* The driver calls of v's reconcile are those of its instance, a promotion
\* follows an enabling, a resync of a secondary follows a demotion, and what is
\* to be written as Demoted has been demoted.
SpecInv(v) ==
  /\ pc[v] \in {"enable", "promote", "forcePromote", "info"} => inst[v].spec = "primary"
  /\ pc[v] = "demote" => inst[v].spec = "secondary"
  /\ pc[v] \in {"promote", "forcePromote"} => vol.enabled
  /\ pc[v] = "resync" /\ inst[v].spec = "secondary" => vol.role = "secondary"
  /\ pc[v] = "status" /\ inst[v].spec = "secondary" =>
       /\ inst[v].status.completed = "Demoted" => vol.role = "secondary"
       /\ ~after[v] => /\ inst[v].status.completed = "Demoted"
                       /\ inst[v].status.degraded = "Healthy"
                       /\ inst[v].status.replicating = "none"

\* v's Demoted condition for its present generation is true.
DemotedInv(v) ==
  /\ vr[v].exists /\ ~vr[v].deleting /\ vr[v].spec = "secondary"
  /\ vr[v].status.observedGen = vr[v].gen
  /\ vr[v].status.completed = "Demoted"
  => vol.role = "secondary"

\* v rests as secondary only with a synced volume; that the driver holds it as
\* secondary then follows from DemotedInv.
SyncedInv(v) ==
  Settled(v) /\ vr[v].spec = "secondary" =>
    /\ vr[v].status.completed = "Demoted"
    /\ vr[v].status.degraded = "Healthy"
    /\ vr[v].status.replicating = "none"

RoleOf(v) == SpecInv(v) /\ DemotedInv(v) /\ SyncedInv(v)

\* The inductive invariant behind the properties of the volume's role.
RoleInv == \A v \in VRs : RoleOf(v)

\* The acting VR is the only one.
LEMMA OnlyOne ==
  ASSUME OneVR, NEW v \in VRs, RoleOf(v)' PROVE RoleInv'
  BY Zenon DEF OneVR, RoleInv

\* An instance that is not the stored request never acts on a status that
\* answers the stored request: the status has not got ahead of the instance.
LEMMA StatusIsOfInstance ==
  ASSUME TypeOK, RestInv, NEW v \in VRs, pc[v] # "idle", vr[v].exists,
         vr[v].status.observedGen = vr[v].gen
  PROVE  inst[v].spec = vr[v].spec /\ inst[v].deleting = vr[v].deleting
  <1>1. vr[v].gen \in Nat /\ inst[v].gen \in Nat
    BY Zenon DEF TypeOK, VRObjects
  <1>2. QED
    BY <1>1 DEF RestInv, RestOf, CopyInv, Behind

\* A reconcile on its way keeps the invariant, if it changes the role only as
\* its instance asks.
LEMMA RoleOnItsWay ==
  ASSUME OneVR, TypeOK, RestInv, RoleInv, NEW v \in VRs, NEW step, GoesTo(v, step),
         pc[v] # "idle", step # "idle", SpecInv(v)',
         \/ vol'.role = vol.role \/ vol'.role = "secondary"
         \/ inst[v].spec = "primary" \/ inst[v].deleting
  PROVE  RoleInv'
  <1>1. DemotedInv(v)'
    BY Zenon, StatusIsOfInstance DEF RoleInv, RoleOf, DemotedInv, GoesTo
  <1>2. SyncedInv(v)'
    BY Zenon DEF SyncedInv, Settled, GoesTo
  <1>3. QED
    BY Zenon, <1>1, <1>2, OnlyOne DEF RoleOf

\* The driver calls.
LEMMA CallsRole ==
  ASSUME OneVR, TypeOK, RestInv, RoleInv, NEW v \in VRs, NEW outcome, NEW ready,
         NEW answer \in InfoAnswers,
         \/ enableReplication(v, outcome) \/ markVolumeAsPrimary(v, outcome)
         \/ getVolumeReplicationInfo(v, answer) \/ markVolumeAsSecondary(v, outcome)
         \/ resyncVolume(v, outcome, ready)
  PROVE  RoleInv'
  <1>0. /\ SpecInv(v)
        /\ [vol EXCEPT !.enabled = TRUE].enabled /\ [vol EXCEPT !.enabled = TRUE].role = vol.role
        /\ [vol EXCEPT !.role = "primary"].enabled = vol.enabled
        /\ [vol EXCEPT !.role = "secondary"].role = "secondary"
    BY Zenon DEF RoleInv, RoleOf, TypeOK, Volumes
  <1>1. CASE enableReplication(v, outcome)
    <2>1. pc[v] = "enable" /\ inst[v].spec = "primary"
      BY Zenon, <1>0, <1>1, EnableGoes DEF SpecInv
    <2>2. CASE GoesTo(v, "promote") /\ vol' = [vol EXCEPT !.enabled = TRUE]
      <3>1. SpecInv(v)'
        BY Zenon, <1>0, <2>1, <2>2 DEF SpecInv, GoesTo, SameRequest
      <3>2. QED
        BY Zenon, <1>0, <2>1, <2>2, <3>1, RoleOnItsWay
    <2>3. CASE ComesBack(v, "FailedToPromote")
      <3>1. SpecInv(v)'
        BY Zenon, <2>1, <2>3 DEF SpecInv, ComesBack, GoesTo, SameRequest
      <3>2. QED
        BY Zenon, <2>1, <2>3, <3>1, RoleOnItsWay DEF ComesBack
    <2>4. QED
      BY Zenon, <1>1, <2>2, <2>3, EnableGoes
  <1>2. CASE markVolumeAsPrimary(v, outcome)
    <2>1. /\ pc[v] \in {"promote", "forcePromote"} /\ inst[v].spec = "primary"
          /\ vol.enabled /\ vol'.enabled
      BY Zenon, <1>0, <1>2, PromoteGoes DEF SpecInv
    <2>2. ASSUME NEW step \in {"info", "forcePromote", "status"}, GoesTo(v, step) PROVE RoleInv'
      <3>1. SpecInv(v)'
        BY Zenon, <2>1, <2>2 DEF SpecInv, GoesTo, SameRequest
      <3>2. QED
        BY Zenon, <2>1, <2>2, <3>1, RoleOnItsWay
    <2>3. QED
      BY Zenon, <1>2, <2>2, PromoteGoes DEF ComesBack
  <1>3. CASE getVolumeReplicationInfo(v, answer)
    <2>1. pc[v] = "info" /\ inst[v].spec = "primary" /\ vol' = vol /\ GoesTo(v, "status")
      BY Zenon, <1>0, <1>3, InfoGoes DEF SpecInv, Reaches
    <2>2. SpecInv(v)'
      BY Zenon, <2>1 DEF SpecInv, GoesTo, SameRequest
    <2>3. QED
      BY Zenon, <2>1, <2>2, RoleOnItsWay
  <1>4. CASE markVolumeAsSecondary(v, outcome)
    <2>1. pc[v] = "demote" /\ (vol' = vol \/ vol' = [vol EXCEPT !.role = "secondary"])
      BY Zenon, <1>4, DemoteGoes
    <2>2. CASE vol' = [vol EXCEPT !.role = "secondary"] /\ GoesTo(v, "resync")
      <3>1. SpecInv(v)'
        BY Zenon, <1>0, <2>2 DEF SpecInv, GoesTo
      <3>2. QED
        BY Zenon, <1>0, <2>1, <2>2, <3>1, RoleOnItsWay
    <2>3. ASSUME vol' = [vol EXCEPT !.role = "secondary"], NEW st, Reaches(v, st, TRUE)
          PROVE  RoleInv'
      <3>1. SpecInv(v)'
        BY Zenon, <1>0, <2>3 DEF SpecInv, GoesTo, Reaches, Answers
      <3>2. QED
        BY Zenon, <1>0, <2>1, <2>3, <3>1, RoleOnItsWay DEF Reaches
    <2>4. CASE ComesBack(v, "FailedToDemote")
      <3>1. SpecInv(v)'
        BY Zenon, <2>4 DEF SpecInv, ComesBack, GoesTo
      <3>2. QED
        BY Zenon, <1>0, <2>1, <2>4, <3>1, RoleOnItsWay DEF ComesBack
    <2>5. QED
      BY Zenon, <1>4, <2>2, <2>3, <2>4, DemoteGoes
  <1>5. CASE resyncVolume(v, outcome, ready)
    <2>1. /\ pc[v] = "resync" /\ vol' = vol
          /\ inst[v].spec = "secondary" => vol.role = "secondary"
      BY Zenon, <1>0, <1>5, ResyncGoes DEF SpecInv
    <2>2. ASSUME NEW c, ComesBack(v, c) PROVE RoleInv'
      <3>1. SpecInv(v)'
        BY Zenon, <2>1, <2>2 DEF SpecInv, ComesBack, GoesTo, SameRequest
      <3>2. QED
        BY Zenon, <2>1, <2>2, <3>1, RoleOnItsWay DEF ComesBack
    <2>3. ASSUME NEW st \in Status, Reaches(v, st, FALSE), st.completed = "Demoted",
                 st.degraded = "Healthy", inst[v].spec = "secondary" => st.replicating = "none"
          PROVE  RoleInv'
      <3>1. SpecInv(v)'
        BY Zenon, <2>1, <2>3 DEF SpecInv, GoesTo, Reaches, Answers, SameRequest
      <3>2. QED
        BY Zenon, <2>1, <2>3, <3>1, RoleOnItsWay DEF Reaches
    <2>4. QED
      BY Zenon, <1>5, <2>2, <2>3, ResyncGoes
  <1>6. QED
    BY Zenon, <1>1, <1>2, <1>3, <1>4, <1>5

\* A reconcile that returns to be queued again.
LEMMA RoleComesBack ==
  ASSUME OneVR, TypeOK, RoleInv, NEW v \in VRs, Return(v, TRUE), DemotedInv(v)'
  PROVE  RoleInv'
  <1>1. pc'[v] = "idle" /\ v \in queue'
    BY Zenon DEF Return, TypeOK
  <1>2. SpecInv(v)' /\ SyncedInv(v)'
    BY Zenon, <1>1 DEF SpecInv, SyncedInv, Settled
  <1>3. QED
    BY Zenon, <1>2, OnlyOne DEF RoleOf

\* A reconcile that fails.
LEMMA RoleFails ==
  ASSUME OneVR, TypeOK, RoleInv, NEW v \in VRs, Fail(v) PROVE RoleInv'
  <1>1. Return(v, TRUE) /\ UNCHANGED <<vr, vol>>
    BY Zenon DEF Fail, stored
  <1>2. DemotedInv(v)'
    BY Zenon, <1>1 DEF RoleInv, RoleOf, DemotedInv
  <1>3. QED
    BY Zenon, <1>1, <1>2, RoleComesBack

\* The writes of the claim and of LastStartTime.
LEMMA WritesRole ==
  ASSUME OneVR, TypeOK, RestInv, RoleInv, NEW v \in VRs,
         \/ annotatePVCWithOwner(v) \/ addFinalizerToPVC(v) \/ UpdateLastStartTime(v)
         \/ removeOwnerFromPVCAnnotation(v) \/ removeFinalizerFromPVC(v)
  PROVE  RoleInv'
  <1>1. CASE Fail(v)
    BY Zenon, <1>1, RoleFails
  <1>2. ASSUME NEW step \in {"pvcFinalizer", "begin", "pvcUnfinalize", "vrUnfinalize"},
               GoesTo(v, step), vol' = vol, pc[v] # "idle"
        PROVE  RoleInv'
    <2>1. SpecInv(v)'
      BY Zenon, <1>2 DEF SpecInv, GoesTo
    <2>2. QED
      BY Zenon, <1>2, <2>1, RoleOnItsWay
  <1>3. ASSUME NEW c, NEW step, UpdateClaim(v, c, step) \/ Skip(v, step)
        PROVE  Fail(v) \/ (GoesTo(v, step) /\ vol' = vol)
    BY Zenon, <1>3, GoesPlainly DEF UpdateClaim, Skip, stored, informer, locals
  <1>4. CASE annotatePVCWithOwner(v)
    BY Zenon, <1>1, <1>2, <1>3, <1>4 DEF annotatePVCWithOwner
  <1>5. CASE addFinalizerToPVC(v)
    BY Zenon, <1>1, <1>2, <1>3, <1>5 DEF addFinalizerToPVC
  <1>6. CASE removeOwnerFromPVCAnnotation(v)
    BY Zenon, <1>1, <1>2, <1>3, <1>6 DEF removeOwnerFromPVCAnnotation
  <1>7. CASE removeFinalizerFromPVC(v)
    BY Zenon, <1>1, <1>2, <1>3, <1>7 DEF removeFinalizerFromPVC
  <1>8. CASE UpdateLastStartTime(v) /\ ~Fail(v)
    <2>1. inst[v].spec \in ReplicationStates
      BY Zenon, VRUpdates DEF TypeOK
    <2>2. GoesTo(v, DriverCall(inst[v])) /\ vol' = vol /\ pc[v] = "begin"
      BY Zenon, <1>8, GoesWithStatus DEF UpdateLastStartTime, stored, informer
    <2>3. SpecInv(v)'
      BY Zenon, <2>1, <2>2 DEF SpecInv, GoesTo, SameRequest, DriverCall, ReplicationStates
    <2>4. DriverCall(inst[v]) # "idle"
      BY Zenon, <2>1 DEF DriverCall, ReplicationStates
    <2>5. QED
      BY Zenon, <2>2, <2>3, <2>4, RoleOnItsWay
  <1>9. QED
    BY Zenon, <1>1, <1>4, <1>5, <1>6, <1>7, <1>8

\* The Disable call, of a reconcile that has read the deletion.
LEMMA DisableRole ==
  ASSUME OneVR, TypeOK, MetaInv, RestInv, RoleInv, NEW v \in VRs, NEW outcome,
         disableVolumeReplication(v, outcome)
  PROVE  RoleInv'
  <1>1. inst[v].deleting /\ vr' = vr /\ pc[v] = "disable"
    BY Zenon DEF disableVolumeReplication, MetaInv, DelInv, DelSteps
  <1>2. CASE outcome = "ok"
    <2>1. GoesTo(v, "unannotate")
      BY Zenon, <1>1, <1>2, GoesPlainly DEF disableVolumeReplication, informer, locals
    <2>2. SpecInv(v)'
      BY Zenon, <2>1 DEF SpecInv, GoesTo
    <2>3. QED
      BY Zenon, <1>1, <2>1, <2>2, RoleOnItsWay
  <1>3. CASE outcome # "ok"
    <2>1. DemotedInv(v)'
      BY Zenon, <1>1, StatusIsOfInstance DEF DemotedInv
    <2>2. QED
      BY Zenon, <1>3, <2>1, RoleComesBack DEF disableVolumeReplication
  <1>4. QED
    BY Zenon, <1>2, <1>3

\* The first step of a reconcile.
LEMMA StartRole ==
  ASSUME OneVR, TypeOK, RoleInv, NEW v \in VRs, ReconcileStart(v) \/ ReconcileInvalid(v)
  PROVE  RoleInv'
  <1>0. /\ cache[v] \in VRObjects /\ cache[v].status \in Status
        /\ cache[v].spec \in ReplicationStates
    BY Zenon DEF TypeOK, VRObjects
  <1>1. UNCHANGED <<vr, vol>> /\ pc'[v] \in {"status", "disable", "vrFinalizer"}
    BY Zenon DEF TypeOK, ReconcileStart, ReconcileInvalid, Goto, FirstStep, stored
  <1>2. DemotedInv(v)' /\ SyncedInv(v)'
    BY Zenon, <1>1 DEF RoleInv, RoleOf, DemotedInv, SyncedInv, Settled
  <1>3. CASE ReconcileStart(v)
    <2>1. pc'[v] \in {"disable", "vrFinalizer"}
      BY Zenon, <1>3 DEF TypeOK, ReconcileStart, Goto, FirstStep
    <2>2. SpecInv(v)'
      BY Zenon, <2>1 DEF SpecInv
    <2>3. QED
      BY Zenon, <1>2, <2>2, OnlyOne DEF RoleOf
  <1>4. CASE ReconcileInvalid(v)
    <2>. DEFINE failed == setFailureCondition(cache[v].status, cache[v].spec)
                st == [failed EXCEPT
                         !.state = GetCurrentReplicationState(cache[v].status.state),
                         !.observedGen = cache[v].gen]
    <2>1. failed \in Status
      BY Zenon, <1>0, StatusSetters
    <2>2. cache[v].spec = "secondary" => failed.completed = "FailedToDemote"
      BY Zenon, <1>0, Reasons DEF setFailureCondition
    <2>. HIDE DEF failed
    <2>3. st.completed = failed.completed
      BY Zenon, <2>1 DEF Status
    <2>4. inst' = [inst EXCEPT ![v] = [cache[v] EXCEPT !.status = st]]
      BY Zenon, <1>4 DEF ReconcileInvalid, failed
    <2>. HIDE DEF st
    <2>5. inst'[v] = [cache[v] EXCEPT !.status = st]
      BY Zenon, <2>4 DEF TypeOK
    <2>6. inst'[v].spec = cache[v].spec /\ inst'[v].status = st
      BY <1>0, <2>5, StatusAlone
    <2>7. pc'[v] = "status" /\ after'[v]
      BY Zenon, <1>4 DEF TypeOK, ReconcileInvalid, Goto
    <2>8. SpecInv(v)'
      BY Zenon, <2>2, <2>3, <2>6, <2>7 DEF SpecInv
    <2>9. QED
      BY <1>2, <2>8, OnlyOne DEF RoleOf
  <1>5. QED
    BY Zenon, <1>3, <1>4

\* The writes of the VR by its reconcile.
LEMMA WritesVRRole ==
  ASSUME OneVR, TypeOK, MetaInv, RestInv, RoleInv, NEW v \in VRs,
         addFinalizerToVR(v) \/ updateReplicationStatus(v) \/ removeFinalizerFromVR(v)
  PROVE  RoleInv'
  <1>0. vr[v] \in VRObjects
    BY Zenon DEF TypeOK
  <1>1. CASE Fail(v)
    BY Zenon, <1>1, RoleFails
  <1>2. CASE addFinalizerToVR(v) /\ ~Fail(v)
    <2>1. /\ SameRequest([vr[v] EXCEPT !.finalizer = TRUE], vr[v])
          /\ [vr[v] EXCEPT !.finalizer = TRUE].status = vr[v].status
      BY Zenon, <1>0 DEF VRObjects, SameRequest
    <2>2. vr' = vr \/ vr' = [vr EXCEPT ![v] = [vr[v] EXCEPT !.finalizer = TRUE]]
      BY Zenon, <1>2 DEF addFinalizerToVR, StoreVR, Skip, stored
    <2>3. SameRequest(vr'[v], vr[v]) /\ vr'[v].status = vr[v].status
      BY Zenon, <2>1, <2>2 DEF TypeOK, SameRequest
    <2>4. pc'[v] = "annotate" /\ vol' = vol
      BY Zenon, <1>2 DEF TypeOK, addFinalizerToVR, Skip, Goto, stored
    <2>5. SpecInv(v)' /\ SyncedInv(v)'
      BY Zenon, <2>4 DEF SpecInv, SyncedInv, Settled
    <2>6. DemotedInv(v)'
      BY Zenon, <2>3, <2>4 DEF RoleInv, RoleOf, DemotedInv, SameRequest
    <2>7. QED
      BY Zenon, <2>5, <2>6, OnlyOne DEF RoleOf
  <1>3. CASE updateReplicationStatus(v) /\ ~Fail(v)
    <2>. DEFINE o == [vr[v] EXCEPT !.status = inst[v].status]
    <2>1. SameRequest(o, vr[v]) /\ o.status = inst[v].status
      BY <1>0, StatusAlone DEF SameRequest
    <2>2. /\ cur[v] /\ pc[v] = "status" /\ vr' = [vr EXCEPT ![v] = o] /\ Return(v, after[v])
          /\ vol' = vol
      BY Zenon, <1>3 DEF updateReplicationStatus
    <2>. HIDE DEF o
    <2>3. vr'[v] = o /\ pc'[v] = "idle" /\ (after[v] => v \in queue')
      BY Zenon, <2>2 DEF TypeOK, Return
    <2>4. vr[v].exists /\ inst[v].spec = vr[v].spec
      BY Zenon, <2>2 DEF RestInv, RestOf, CopyInv, Behind, MetaInv, CurInv
    <2>5. SpecInv(v) /\ SpecInv(v)'
      BY Zenon, <2>3 DEF RoleInv, RoleOf, SpecInv
    <2>6. DemotedInv(v)'
      BY <2>1, <2>2, <2>3, <2>4, <2>5 DEF SpecInv, DemotedInv, SameRequest
    <2>7. SyncedInv(v)'
      <3>1. SUFFICES ASSUME v \notin queue', o.spec = "secondary"
                     PROVE  /\ o.status.completed = "Demoted" /\ o.status.degraded = "Healthy"
                            /\ o.status.replicating = "none"
        BY Zenon, <2>3 DEF SyncedInv, Settled
      <3>2. ~after[v] /\ inst[v].spec = "secondary"
        BY Zenon, <2>1, <2>3, <2>4, <3>1 DEF SameRequest
      <3>3. QED
        BY Zenon, <2>1, <2>2, <2>5, <3>2 DEF SpecInv
    <2>8. QED
      BY Zenon, <2>5, <2>6, <2>7, OnlyOne DEF RoleOf
  <1>4. CASE removeFinalizerFromVR(v) /\ ~Fail(v)
    <2>1. vr' = [vr EXCEPT ![v] = [NoVR EXCEPT !.gen = vr[v].gen]] /\ Return(v, FALSE)
      BY Zenon, <1>4 DEF removeFinalizerFromVR
    <2>2. ~vr'[v].exists /\ pc'[v] = "idle"
      BY Zenon, <2>1 DEF TypeOK, Return, NoVR
    <2>3. RoleOf(v)'
      BY Zenon, <2>2 DEF RoleOf, SpecInv, DemotedInv, SyncedInv, Settled
    <2>4. QED
      BY Zenon, <2>3, OnlyOne
  <1>5. QED
    BY Zenon, <1>1, <1>2, <1>3, <1>4

\* A step of the user makes the recorded status one of an earlier generation.
LEMMA UserRole ==
  ASSUME OneVR, TypeOK, RestInv, RoleInv, NEW v \in VRs, User(v) PROVE RoleInv'
  <1>0. /\ vr[v].gen \in Nat /\ cache[v].gen \in Nat /\ vr[v].status.observedGen \in Nat
    BY Zenon DEF TypeOK, VRObjects, Status
  <1>1. PICK o \in VRObjects :
          /\ Stores(v, o) /\ UNCHANGED <<queue, after>>
          /\ o.gen = vr[v].gen + 1 \/ (o.gen = vr[v].gen /\ ~o.exists)
          /\ o.status.observedGen \in {0, vr[v].status.observedGen}
    BY Zenon, UserRequests
  <1>2. vr'[v] = o /\ UNCHANGED <<cache, pc, inst, vol, after>>
    BY Zenon, <1>1 DEF TypeOK, Stores
  <1>3. vr[v].status.observedGen <= cache[v].gen /\ cache[v].gen <= vr[v].gen
    BY Zenon DEF RestInv, RestOf, CopyInv, Behind
  <1>4. SpecInv(v)'
    BY Zenon, <1>2 DEF RoleInv, RoleOf, SpecInv
  <1>5. ~o.exists \/ (o.status.observedGen # o.gen /\ cache[v].gen # o.gen)
    BY <1>0, <1>1, <1>3
  <1>6. DemotedInv(v)' /\ SyncedInv(v)'
    BY Zenon, <1>2, <1>5 DEF DemotedInv, SyncedInv, Settled
  <1>7. QED
    BY Zenon, <1>4, <1>6, OnlyOne DEF RoleOf

\* RoleInv is inductive when at most one VR names the claim.
LEMMA RoleStep ==
  ASSUME OneVR, TypeOK, MetaInv, RestInv, RoleInv, [Next]_vars PROVE RoleInv'
  <1>1. ASSUME UNCHANGED <<vr, vol, pc, inst, after>>,
               \A v \in VRs : Settled(v)' => Settled(v)
        PROVE  RoleInv'
    BY <1>1 DEF RoleInv, RoleOf, SpecInv, DemotedInv, SyncedInv
  <1>2. CASE DeleteClaim \/ ClaimGone \/ SyncClaim \/ UNCHANGED vars
    BY Zenon, <1>1, <1>2
    DEF DeleteClaim, ClaimGone, SyncClaim, reconciler, stored, informer, vars, Settled
  <1>3. ASSUME NEW v \in VRs, SyncVR(v) PROVE RoleInv'
    <2>1. /\ cache'[v] = vr[v] /\ UNCHANGED <<vr, vol, pc, inst, after>>
          /\ cache[v].gen # vr[v].gen \/ cache[v].exists # vr[v].exists => v \in queue'
          /\ v \in queue => v \in queue'
      BY Zenon, <1>3 DEF TypeOK, SyncVR, stored
    <2>2. Settled(v)' => Settled(v)
      BY Zenon, <2>1 DEF Settled
    <2>3. QED
      BY Zenon, <1>1, <2>1, <2>2 DEF OneVR
  <1>4. ASSUME NEW v \in VRs, ReconcileNotFound(v) PROVE RoleInv'
    <2>1. ~Settled(v)' /\ UNCHANGED <<vr, vol, pc, inst, after>>
      BY Zenon, <1>4 DEF ReconcileNotFound, stored, informer, Settled
    <2>2. QED
      BY Zenon, <1>1, <2>1 DEF OneVR
  <1>5. CASE Crash
    <2>. SUFFICES ASSUME NEW v \in VRs PROVE RoleOf(v)'
      BY Zenon DEF RoleInv
    <2>1. UNCHANGED <<vr, vol>> /\ pc'[v] = "idle" /\ (vr[v].exists => v \in queue')
      BY Zenon, <1>5 DEF Crash, stored
    <2>2. QED
      BY Zenon, <2>1 DEF RoleInv, RoleOf, SpecInv, DemotedInv, SyncedInv, Settled
  <1>6. ASSUME NEW v \in VRs, ApiError(v) PROVE RoleInv'
    BY Zenon, <1>6, RoleFails DEF ApiError
  <1>7. "True" \in InfoAnswers /\ TRUE \in BOOLEAN
    BY Zenon DEF InfoAnswers
  <1>8. ASSUME NEW v \in VRs, Reconcile(v, Outcomes, BOOLEAN) PROVE RoleInv'
    BY Zenon, <1>4, <1>7, <1>8, StartRole, WritesVRRole, WritesRole, DisableRole, CallsRole
    DEF Reconcile
  <1>9. QED
    BY Zenon, <1>2, <1>3, <1>5, <1>6, <1>8, UserRole, StartRole DEF Next, Environment

\* RoleInv then holds in every reachable state.
LEMMA RoleInvariant == ASSUME OneVR PROVE Spec => []RoleInv
  <1>1. Init => RoleInv
    BY DEF Init, RoleInv, RoleOf, SpecInv, DemotedInv, SyncedInv, Settled, NoVR
  <1>2. TypeOK /\ HoldInv /\ RestInv /\ RoleInv /\ [Next]_vars => RoleInv'
    BY Zenon, RoleStep DEF HoldInv, MetaInv
  <1>3. QED
    BY <1>1, <1>2, TypeCorrect, HoldInvariant, RestInvariant, PTL DEF Spec

\* The only VR of a claim never shows the Demoted condition for its present
\* generation while the driver holds the volume otherwise: not when a stale
\* reconcile promotes or disables, nor when an answer of the driver is lost.
THEOREM DemotedHolds == ASSUME OneVR PROVE Spec => []DemotedIsSecondary
  <1>1. RoleInv => DemotedIsSecondary
    BY Zenon DEF RoleInv, RoleOf, DemotedInv, DemotedIsSecondary
  <1>2. QED
    BY <1>1, RoleInvariant, PTL

\* The only VR of a claim rests as secondary with a volume that the driver
\* holds as secondary and has reported in sync.
THEOREM RestingSecondaryHolds == ASSUME OneVR PROVE Spec => []RestingSecondaryIsInSync
  <1>1. RestInv /\ RoleInv => RestingSecondaryIsInSync
    <2>. SUFFICES ASSUME RestInv, RoleInv, NEW v \in VRs, Settled(v), vr[v].spec = "secondary"
                  PROVE  /\ vol.role = "secondary"
                         /\ vr[v].status.completed = "Demoted"
                         /\ vr[v].status.degraded = "Healthy"
                         /\ vr[v].status.replicating = "none"
      BY Zenon DEF RestingSecondaryIsInSync
    <2>1. DemotedInv(v) /\ SyncedInv(v) /\ DoneInv(v)
      BY Zenon DEF RestInv, RestOf, RoleInv, RoleOf
    <2>2. QED
      BY Zenon, <2>1 DEF DemotedInv, SyncedInv, DoneInv, Settled
  <1>2. QED
    BY <1>1, RestInvariant, RoleInvariant, PTL

\* The volume of a claim with one VR is promoted, by force or not, only while
\* its replication is enabled (EnableVolumeReplication precedes every promotion
\* in one reconcile, and nothing disables in between).
THEOREM PromotionIsOfEnabled == ASSUME OneVR PROVE Spec => PromotesOnlyEnabled
  <1>1. TypeOK /\ RoleInv /\ [Next]_vars =>
          [vol.role # "primary" /\ vol'.role = "primary" => vol.enabled]_vars
    <2>. SUFFICES ASSUME TypeOK, RoleInv, [Next]_vars, vol.role # "primary", vol'.role = "primary"
                  PROVE  vol.enabled
      BY Zenon
    <2>0. /\ vol' # vol
          /\ [vol EXCEPT !.enabled = TRUE].role = vol.role
          /\ [vol EXCEPT !.role = "secondary"].role = "secondary"
      BY Zenon DEF TypeOK, Volumes
    <2>1. ASSUME NEW v \in VRs, NEW outcome, markVolumeAsPrimary(v, outcome) PROVE vol.enabled
      BY Zenon, <2>1 DEF markVolumeAsPrimary, RoleInv, RoleOf, SpecInv
    <2>2. ASSUME NEW v \in VRs, NEW outcome, enableReplication(v, outcome) PROVE FALSE
      BY Zenon, <2>0, <2>2 DEF enableReplication, Call
    <2>3. ASSUME NEW v \in VRs, NEW outcome, markVolumeAsSecondary(v, outcome) PROVE FALSE
      BY Zenon, <2>0, <2>3 DEF markVolumeAsSecondary, Call
    <2>4. ASSUME NEW v \in VRs, NEW outcome, disableVolumeReplication(v, outcome) PROVE FALSE
      BY Zenon, <2>0, <2>4 DEF disableVolumeReplication, Call
    <2>5. ASSUME NEW v \in VRs, NEW outcome, NEW ready, resyncVolume(v, outcome, ready) PROVE FALSE
      BY Zenon, <2>0, <2>5 DEF resyncVolume
    <2>6. ASSUME NEW v \in VRs, NEW answer, getVolumeReplicationInfo(v, answer) PROVE FALSE
      BY Zenon, <2>0, <2>6 DEF getVolumeReplicationInfo
    <2>7. ASSUME NEW v \in VRs, User(v) PROVE FALSE
      BY Zenon, <2>0, <2>7 DEF User, CreateVR, EditSpec, DeleteVR
    <2>8. ASSUME DeleteClaim \/ ClaimGone \/ SyncClaim \/ Crash \/ UNCHANGED vars PROVE FALSE
      BY Zenon, <2>0, <2>8 DEF DeleteClaim, ClaimGone, SyncClaim, Crash, stored, vars
    <2>9. ASSUME NEW v \in VRs, Fail(v) PROVE FALSE
      BY Zenon, <2>0, <2>9 DEF Fail, stored
    <2>10. ASSUME NEW v \in VRs, SyncVR(v) \/ ReconcileInvalid(v) \/ ReconcileNotFound(v)
                                 \/ ReconcileStart(v)
           PROVE  FALSE
      BY Zenon, <2>0, <2>10 DEF SyncVR, ReconcileInvalid, ReconcileNotFound, ReconcileStart, stored
    <2>11. ASSUME NEW v \in VRs,
                  \/ addFinalizerToVR(v) \/ updateReplicationStatus(v) \/ removeFinalizerFromVR(v)
           PROVE  FALSE
      BY Zenon, <2>0, <2>9, <2>11
      DEF addFinalizerToVR, updateReplicationStatus, removeFinalizerFromVR, Skip, stored
    <2>12. ASSUME NEW v \in VRs,
                  \/ annotatePVCWithOwner(v) \/ addFinalizerToPVC(v) \/ UpdateLastStartTime(v)
                  \/ removeOwnerFromPVCAnnotation(v) \/ removeFinalizerFromPVC(v)
           PROVE  FALSE
      BY Zenon, <2>0, <2>9, <2>12, WritesOnward
    <2>13. ASSUME NEW v \in VRs, Reconcile(v, Outcomes, BOOLEAN) PROVE vol.enabled
      BY Zenon, <2>1, <2>2, <2>3, <2>4, <2>5, <2>6, <2>10, <2>11, <2>12, <2>13 DEF Reconcile
    <2>14. QED
      BY Zenon, <2>7, <2>8, <2>9, <2>10, <2>13 DEF Next, Environment, ApiError
  <1>2. QED
    BY <1>1, TypeCorrect, RoleInvariant, PTL DEF Spec, PromotesOnlyEnabled

-----------------------------------------------------------------------------
(* The claim's protection, for any number of VRs that name it, as long as  *)
(* the claim is not read from an informer that lags.                       *)

\* Claims are read as they are stored.
NoLag == "lag" \notin Faults

\* The informer's copy is the claim, and so is the copy of a reconcile whose
\* write would not conflict.
CurrentInv ==
  /\ pvcCache = pvc /\ pvcCacheCur
  /\ \A v \in VRs : claimCur[v] => claim[v] = pvc

\* A VR that will still take the finalizer off the claim: its deletion has not
\* begun, or has read a claim with the finalizer and has yet to write it.
Keeps(v) ==
  Holds(v) /\ (pc[v] \in DelSteps => pc[v] # "vrUnfinalize" /\ claim[v].finalizer)

KeptInv == pvc.finalizer => \E v \in VRs : Keeps(v)

\* The VR that the annotation names will still take it off.
OwnerInv ==
  \A v \in VRs : pvc.owner = v =>
    /\ Holds(v)
    /\ pc[v] \in DelSteps => pc[v] \in {"disable", "unannotate"} /\ claim[v].owner = v

\* The inductive invariant behind NoLeakedProtection and OwnerExists.
ProtectionInv == CurrentInv /\ KeptInv /\ OwnerInv

\* A step that leaves the claim alone: no VR loses its finalizer but at the end
\* of its deletion, and a deletion goes on by what it has read, or starts with
\* the claim as it is.
ClaimLeft ==
  /\ UNCHANGED <<pvc, pvcCache, pvcCacheCur>>
  /\ \A w \in VRs :
       /\ Holds(w) => Holds(w)' \/ pc[w] = "vrUnfinalize"
       /\ claimCur'[w] => claim'[w] = pvc
       /\ pc'[w] \in DelSteps =>
            \/ pc'[w] = "disable" /\ claim'[w] = pvc
            \/ /\ pc[w] \in DelSteps /\ claim'[w] = claim[w]
               /\ \/ pc'[w] = pc[w]
                  \/ pc[w] = "disable" /\ pc'[w] = "unannotate"
                  \/ pc[w] = "unannotate" /\ pc'[w] = "pvcUnfinalize" /\ claim[w].owner = None
                  \/ pc[w] = "pvcUnfinalize" /\ pc'[w] = "vrUnfinalize" /\ ~claim[w].finalizer

\* Such a step keeps the invariant.
LEMMA ClaimLeftKeeps == ASSUME ProtectionInv, ClaimLeft PROVE ProtectionInv'
  <1>1. CurrentInv'
    BY Zenon DEF ProtectionInv, CurrentInv, ClaimLeft
  <1>2. ASSUME NEW w \in VRs, Keeps(w), pvc.finalizer PROVE Keeps(w)'
    BY Zenon, <1>2 DEF Keeps, ClaimLeft, DelSteps
  <1>3. KeptInv'
    BY Zenon, <1>2 DEF ProtectionInv, KeptInv, ClaimLeft
  <1>4. ASSUME NEW w \in VRs, pvc.owner = w
        PROVE  /\ Holds(w)'
               /\ pc'[w] \in DelSteps => pc'[w] \in {"disable", "unannotate"} /\ claim'[w].owner = w
    <2>1. /\ Holds(w)
          /\ pc[w] \in DelSteps => pc[w] \in {"disable", "unannotate"} /\ claim[w].owner = w
      BY Zenon, <1>4 DEF ProtectionInv, OwnerInv
    <2>2. Holds(w)'
      BY Zenon, <2>1 DEF ClaimLeft, DelSteps
    <2>3. w # None
      BY Zenon, VRAssumption
    <2>4. QED
      BY Zenon, <1>4, <2>1, <2>2, <2>3 DEF ClaimLeft, DelSteps
  <1>5. OwnerInv'
    BY Zenon, <1>4 DEF OwnerInv, ClaimLeft
  <1>6. QED
    BY Zenon, <1>1, <1>3, <1>5 DEF ProtectionInv

\* A step that touches neither the claim nor a reconcile's copy of it, nor the
\* step of any reconcile, and takes no finalizer off a VR.
LEMMA NothingOfTheClaim ==
  ASSUME ProtectionInv, UNCHANGED <<pvc, pvcCache, pvcCacheCur, claim, claimCur, pc>>,
         \A w \in VRs : Holds(w) => Holds(w)'
  PROVE  ProtectionInv'
  BY Zenon, ClaimLeftKeeps DEF ClaimLeft, ProtectionInv, CurrentInv

\* A reconcile that returns without having written anything.
LEMMA FailKeepsClaim ==
  ASSUME TypeOK, ProtectionInv, NEW v \in VRs, NEW b, Return(v, b),
         UNCHANGED <<pvc, pvcCache, pvcCacheCur>>,
         \A w \in VRs : Holds(w) => Holds(w)' \/ pc[w] = "vrUnfinalize"
  PROVE  ProtectionInv'
  <1>1. /\ pc'[v] = "idle" /\ claimCur'[v] = FALSE
        /\ \A w \in VRs \ {v} : pc'[w] = pc[w] /\ claim'[w] = claim[w] /\ claimCur'[w] = claimCur[w]
    BY Zenon DEF TypeOK, Return
  <1>2. ClaimLeft
    BY Zenon, <1>1 DEF ClaimLeft, ProtectionInv, CurrentInv, DelSteps
  <1>3. QED
    BY Zenon, <1>2, ClaimLeftKeeps

\* A reconcile that goes on without writing the claim or the VR's finalizer.
LEMMA GoesOn ==
  ASSUME TypeOK, ProtectionInv, NEW v \in VRs, NEW step, pc' = [pc EXCEPT ![v] = step],
         UNCHANGED <<pvc, pvcCache, pvcCacheCur, claim, claimCur>>,
         \A w \in VRs : Holds(w) => Holds(w)',
         \/ step \notin DelSteps
         \/ pc[v] = "disable" /\ step = "unannotate"
         \/ pc[v] = "unannotate" /\ step = "pvcUnfinalize" /\ claim[v].owner = None
         \/ pc[v] = "pvcUnfinalize" /\ step = "vrUnfinalize" /\ ~claim[v].finalizer
  PROVE  ProtectionInv'
  <1>1. pc'[v] = step /\ \A w \in VRs \ {v} : pc'[w] = pc[w]
    BY Zenon DEF TypeOK
  <1>2. ClaimLeft
    BY Zenon, <1>1 DEF ClaimLeft, ProtectionInv, CurrentInv, DelSteps
  <1>3. QED
    BY Zenon, <1>2, ClaimLeftKeeps

\* The claim is written by a user or by the API server, which leave annotation
\* and finalizer alone.
LEMMA UserWritesClaim ==
  ASSUME NoLag, TypeOK, ProtectionInv, DeleteClaim \/ ClaimGone PROVE ProtectionInv'
  <1>1. PICK c : StoreClaim(None, c) /\ c.owner = pvc.owner /\ c.finalizer = pvc.finalizer
    BY DEF DeleteClaim, ClaimGone, TypeOK, Claims
  <1>2. UNCHANGED <<vr, pc, claim, pvcCacheCur>> /\ pvc' = c /\ pvcCache' = c
    BY Zenon, <1>1 DEF DeleteClaim, ClaimGone, reconciler, StoreClaim, NoLag
  <1>3. \A w \in VRs : ~claimCur'[w]
    BY Zenon, <1>1, VRAssumption DEF StoreClaim
  <1>4. CurrentInv'
    BY Zenon, <1>2, <1>3 DEF ProtectionInv, CurrentInv
  <1>5. KeptInv'
    BY Zenon, <1>1, <1>2 DEF ProtectionInv, KeptInv, Keeps, Holds
  <1>6. OwnerInv'
    BY Zenon, <1>1, <1>2 DEF ProtectionInv, OwnerInv, Holds
  <1>7. QED
    BY Zenon, <1>4, <1>5, <1>6 DEF ProtectionInv

\* A write of the claim by v's reconcile that is not refused.
ClaimWritten(v, c, step) ==
  /\ claim[v] = pvc /\ pvc' = c /\ pvcCache' = c /\ UNCHANGED <<vr, pvcCacheCur>>
  /\ claim' = [claim EXCEPT ![v] = c] /\ claimCur' = [w \in VRs |-> w = v]
  /\ pc' = [pc EXCEPT ![v] = step]

\* UpdateClaim is such a write, or fails.
LEMMA UpdateClaimWrites ==
  ASSUME NoLag, ProtectionInv, NEW v \in VRs, NEW c, NEW step, UpdateClaim(v, c, step)
  PROVE  ClaimWritten(v, c, step) \/ Fail(v)
  BY Zenon DEF UpdateClaim, StoreClaim, Goto, ClaimWritten, NoLag, ProtectionInv, CurrentInv

\* What such a write leaves alone, and that the writer's copy is the claim.
LEMMA WrittenFrame ==
  ASSUME TypeOK, ProtectionInv, NEW v \in VRs, NEW c, NEW step, ClaimWritten(v, c, step)
  PROVE  /\ CurrentInv'
         /\ pc'[v] = step /\ claim'[v] = c /\ pvc' = c
         /\ \A w \in VRs \ {v} : pc'[w] = pc[w] /\ claim'[w] = claim[w]
         /\ \A w \in VRs : Holds(w)' <=> Holds(w)
         /\ \A w \in VRs \ {v} : Keeps(w)' <=> Keeps(w)
  <1>1. /\ pc'[v] = step /\ claim'[v] = c /\ pvc' = c
        /\ \A w \in VRs \ {v} : pc'[w] = pc[w] /\ claim'[w] = claim[w]
    BY Zenon DEF TypeOK, ClaimWritten
  <1>2. \A w \in VRs : Holds(w)' <=> Holds(w)
    BY Zenon DEF ClaimWritten, Holds
  <1>3. CurrentInv'
    BY Zenon, <1>1 DEF ClaimWritten, ProtectionInv, CurrentInv
  <1>4. QED
    BY Zenon, <1>1, <1>2, <1>3 DEF Keeps

\* The claim is annotated and gets the finalizer from a VR that holds.
LEMMA ProtectKeeps ==
  ASSUME NoLag, TypeOK, MetaInv, ProtectionInv, NEW v \in VRs,
         annotatePVCWithOwner(v) \/ addFinalizerToPVC(v)
  PROVE  ProtectionInv'
  <1>1. CASE Fail(v)
    BY Zenon, <1>1, FailKeepsClaim DEF Fail, stored, informer, Holds
  <1>2. CASE \E step \in {"pvcFinalizer", "begin"} : Skip(v, step)
    BY Zenon, <1>2, GoesOn DEF Skip, Goto, stored, informer, locals, Holds, DelSteps
  <1>3. ASSUME NEW c, NEW step \in {"pvcFinalizer", "begin"}, ClaimWritten(v, c, step), Holds(v),
               c.owner \in {pvc.owner, v}
        PROVE  ProtectionInv'
    <2>0. /\ CurrentInv' /\ OwnerInv /\ pc'[v] = step /\ pvc'.owner \in {pvc.owner, v}
          /\ \A w \in VRs : Holds(w)' <=> Holds(w)
          /\ \A w \in VRs \ {v} : pc'[w] = pc[w] /\ claim'[w] = claim[w]
      BY <1>3, WrittenFrame DEF ProtectionInv
    <2>h. Holds(v)' /\ pc'[v] \notin DelSteps
      BY Zenon, <1>3, <2>0 DEF DelSteps
    <2>1. Keeps(v)'
      BY Zenon, <2>h DEF Keeps
    <2>2. KeptInv'
      BY Zenon, <2>1 DEF KeptInv
    <2>3. OwnerInv'
      <3>1. SUFFICES ASSUME NEW w \in VRs, pvc'.owner = w
                     PROVE  /\ Holds(w)'
                            /\ pc'[w] \in DelSteps => /\ pc'[w] \in {"disable", "unannotate"}
                                                      /\ claim'[w].owner = w
        BY Zenon DEF OwnerInv
      <3>2. CASE w = v
        BY Zenon, <2>h, <3>2
      <3>3. CASE w # v
        <4>1. pvc.owner = w
          BY Zenon, <2>0, <3>1, <3>3
        <4>2. /\ Holds(w)
              /\ pc[w] \in DelSteps => pc[w] \in {"disable", "unannotate"} /\ claim[w].owner = w
          BY Zenon, <2>0, <4>1 DEF OwnerInv
        <4>3. pc'[w] = pc[w] /\ claim'[w] = claim[w] /\ (Holds(w)' <=> Holds(w))
          BY Zenon, <2>0, <3>3
        <4>4. QED
          BY Zenon, <4>2, <4>3
      <3>4. QED
        BY Zenon, <3>2, <3>3
    <2>4. QED
      BY Zenon, <2>0, <2>2, <2>3 DEF ProtectionInv
  <1>4. Holds(v) /\ claim[v] \in Claims
    BY Zenon DEF annotatePVCWithOwner, addFinalizerToPVC, MetaInv, AddInv, AddSteps, TypeOK
  <1>5. CASE annotatePVCWithOwner(v)
    <2>1. [claim[v] EXCEPT !.owner = v].owner = v
      BY Zenon, <1>4 DEF Claims
    <2>2. QED
      BY Zenon, <1>1, <1>2, <1>3, <1>4, <1>5, <2>1, UpdateClaimWrites DEF annotatePVCWithOwner
  <1>6. CASE addFinalizerToPVC(v)
    <2>1. [claim[v] EXCEPT !.finalizer = TRUE].owner = claim[v].owner
      BY Zenon, <1>4 DEF Claims
    <2>2. ClaimWritten(v, [claim[v] EXCEPT !.finalizer = TRUE], "begin") => claim[v] = pvc
      BY Zenon DEF ClaimWritten
    <2>3. QED
      BY Zenon, <1>1, <1>2, <1>3, <1>4, <1>6, <2>1, <2>2, UpdateClaimWrites DEF addFinalizerToPVC
  <1>7. QED
    BY Zenon, <1>5, <1>6

\* The annotation and the finalizer are taken off the claim.
LEMMA UnprotectKeeps ==
  ASSUME NoLag, TypeOK, ProtectionInv, NEW v \in VRs,
         removeOwnerFromPVCAnnotation(v) \/ removeFinalizerFromPVC(v)
  PROVE  ProtectionInv'
  <1>0. claim[v] \in Claims
    BY Zenon DEF TypeOK
  <1>1. CASE Fail(v)
    BY Zenon, <1>1, FailKeepsClaim DEF Fail, stored, informer, Holds
  <1>2. CASE removeOwnerFromPVCAnnotation(v)
    <2>1. CASE claim[v].owner = None /\ Skip(v, "pvcUnfinalize")
      BY Zenon, <1>2, <2>1, GoesOn
      DEF removeOwnerFromPVCAnnotation, Skip, Goto, stored, informer, locals, Holds
    <2>. DEFINE c == [claim[v] EXCEPT !.owner = None]
    <2>2. CASE ClaimWritten(v, c, "pvcUnfinalize")
      <3>1. /\ c.owner = None /\ c.finalizer = claim[v].finalizer
            /\ claim[v] = pvc /\ pc[v] = "unannotate"
        BY Zenon, <1>0, <1>2, <2>2 DEF Claims, ClaimWritten, removeOwnerFromPVCAnnotation
      <3>. HIDE DEF c
      <3>2. Keeps(v) /\ pvc.finalizer => Keeps(v)'
        BY Zenon, <2>2, <3>1, WrittenFrame DEF Keeps, DelSteps
      <3>3. KeptInv'
        BY Zenon, <2>2, <3>1, <3>2, WrittenFrame DEF ProtectionInv, KeptInv
      <3>4. OwnerInv'
        <4>1. pvc'.owner = None
          BY Zenon, <2>2, <3>1, WrittenFrame
        <4>2. QED
          BY Zenon, <4>1, VRAssumption DEF OwnerInv
      <3>5. QED
        BY Zenon, <2>2, <3>3, <3>4, WrittenFrame DEF ProtectionInv
    <2>3. QED
      BY Zenon, <1>1, <1>2, <2>1, <2>2, UpdateClaimWrites DEF removeOwnerFromPVCAnnotation
  <1>3. CASE removeFinalizerFromPVC(v)
    <2>1. CASE ~claim[v].finalizer /\ Skip(v, "vrUnfinalize")
      BY Zenon, <1>3, <2>1, GoesOn
      DEF removeFinalizerFromPVC, Skip, Goto, stored, informer, locals, Holds
    <2>. DEFINE c == [claim[v] EXCEPT !.finalizer = FALSE]
    <2>2. CASE ClaimWritten(v, c, "vrUnfinalize")
      <3>1. /\ c.owner = claim[v].owner /\ c.finalizer = FALSE
            /\ claim[v] = pvc /\ pc[v] = "pvcUnfinalize"
        BY Zenon, <1>0, <1>3, <2>2 DEF Claims, ClaimWritten, removeFinalizerFromPVC
      <3>. HIDE DEF c
      <3>2. pvc.owner # v
        BY Zenon, <3>1 DEF ProtectionInv, OwnerInv, DelSteps
      <3>3. KeptInv'
        BY Zenon, <2>2, <3>1, WrittenFrame DEF KeptInv
      <3>4. OwnerInv'
        <4>1. SUFFICES ASSUME NEW w \in VRs, pvc'.owner = w
                       PROVE  /\ Holds(w)'
                              /\ pc'[w] \in DelSteps => /\ pc'[w] \in {"disable", "unannotate"}
                                                        /\ claim'[w].owner = w
          BY Zenon DEF OwnerInv
        <4>2. pvc.owner = w /\ w # v
          BY Zenon, <2>2, <3>1, <3>2, <4>1, WrittenFrame
        <4>3. pc'[w] = pc[w] /\ claim'[w] = claim[w] /\ (Holds(w)' <=> Holds(w))
          BY <2>2, <4>2, WrittenFrame
        <4>4. /\ Holds(w)
              /\ pc[w] \in DelSteps => pc[w] \in {"disable", "unannotate"} /\ claim[w].owner = w
          BY Zenon, <4>2 DEF ProtectionInv, OwnerInv
        <4>5. QED
          BY Zenon, <4>3, <4>4
      <3>5. QED
        BY Zenon, <2>2, <3>3, <3>4, WrittenFrame DEF ProtectionInv
    <2>3. QED
      BY Zenon, <1>1, <1>3, <2>1, <2>2, UpdateClaimWrites DEF removeFinalizerFromPVC
  <1>4. QED
    BY <1>2, <1>3

\* The other steps of a reconcile leave the claim as it is.
LEMMA OtherStepsKeepClaim ==
  ASSUME TypeOK, MetaInv, ProtectionInv, NEW v \in VRs,
         \/ ReconcileNotFound(v) \/ ReconcileInvalid(v) \/ ReconcileStart(v)
         \/ addFinalizerToVR(v) \/ UpdateLastStartTime(v) \/ updateReplicationStatus(v)
         \/ removeFinalizerFromVR(v)
  PROVE  ProtectionInv'
  <1>0. vr[v] \in VRObjects
    BY Zenon DEF TypeOK
  <1>1. CASE Fail(v)
    BY Zenon, <1>1, FailKeepsClaim DEF Fail, stored, informer, Holds
  <1>2. CASE ReconcileNotFound(v)
    BY Zenon, <1>2, NothingOfTheClaim DEF ReconcileNotFound, stored, informer, Holds
  <1>3. CASE ReconcileInvalid(v)
    BY Zenon, <1>3, GoesOn DEF ReconcileInvalid, Goto, stored, informer, Holds, DelSteps
  <1>4. CASE ReconcileStart(v)
    <2>1. /\ pc'[v] \in {"disable", "vrFinalizer"} /\ claim'[v] = pvc
          /\ \A w \in VRs \ {v} : pc'[w] = pc[w] /\ claim'[w] = claim[w] /\ claimCur'[w] = claimCur[w]
      BY Zenon, <1>4 DEF TypeOK, ReconcileStart, FirstStep, Goto, ProtectionInv, CurrentInv
    <2>2. UNCHANGED <<vr, pvc, pvcCache, pvcCacheCur>>
      BY Zenon, <1>4 DEF ReconcileStart, stored, informer
    <2>3. ClaimLeft
      BY Zenon, <2>1, <2>2 DEF ClaimLeft, ProtectionInv, CurrentInv, DelSteps, Holds
    <2>4. QED
      BY Zenon, <2>3, ClaimLeftKeeps
  <1>5. CASE addFinalizerToVR(v) /\ ~Fail(v)
    <2>1. /\ [vr[v] EXCEPT !.finalizer = TRUE].exists = vr[v].exists
          /\ [vr[v] EXCEPT !.finalizer = TRUE].finalizer
      BY Zenon, <1>0 DEF VRObjects
    <2>2. \/ vr' = vr
          \/ vr' = [vr EXCEPT ![v] = [vr[v] EXCEPT !.finalizer = TRUE]]
      BY Zenon, <1>5 DEF addFinalizerToVR, StoreVR, Skip, stored
    <2>3. \A w \in VRs : Holds(w) => Holds(w)'
      BY Zenon, <2>1, <2>2 DEF TypeOK, Holds
    <2>4. /\ pc' = [pc EXCEPT ![v] = "annotate"]
          /\ UNCHANGED <<pvc, pvcCache, pvcCacheCur, claim, claimCur>>
      BY Zenon, <1>5 DEF addFinalizerToVR, Skip, Goto, stored, informer, locals
    <2>5. QED
      BY Zenon, <2>3, <2>4, GoesOn DEF DelSteps
  <1>6. CASE UpdateLastStartTime(v) /\ ~Fail(v)
    <2>1. inst[v].spec \in ReplicationStates
      BY Zenon, VRUpdates DEF TypeOK
    <2>2. DriverCall(inst[v]) \notin DelSteps
      BY Zenon, <2>1 DEF DriverCall, DelSteps, ReplicationStates
    <2>3. /\ pc' = [pc EXCEPT ![v] = DriverCall(inst[v])]
          /\ UNCHANGED <<vr, pvc, pvcCache, pvcCacheCur, claim, claimCur>>
      BY Zenon, <1>6 DEF UpdateLastStartTime, Goto, stored, informer
    <2>4. QED
      BY Zenon, <2>2, <2>3, GoesOn DEF Holds
  <1>7. CASE updateReplicationStatus(v) /\ ~Fail(v)
    <2>1. /\ [vr[v] EXCEPT !.status = inst[v].status].exists = vr[v].exists
          /\ [vr[v] EXCEPT !.status = inst[v].status].finalizer = vr[v].finalizer
      BY Zenon, <1>0, StatusUpdate
    <2>2. /\ vr' = [vr EXCEPT ![v] = [vr[v] EXCEPT !.status = inst[v].status]]
          /\ Return(v, after[v]) /\ UNCHANGED <<pvc, pvcCache, pvcCacheCur>>
      BY Zenon, <1>7 DEF updateReplicationStatus
    <2>3. \A w \in VRs : Holds(w) => Holds(w)'
      BY Zenon, <2>1, <2>2 DEF TypeOK, Holds
    <2>4. QED
      BY Zenon, <2>2, <2>3, FailKeepsClaim
  <1>8. CASE removeFinalizerFromVR(v) /\ ~Fail(v)
    <2>1. /\ pc[v] = "vrUnfinalize" /\ Return(v, FALSE) /\ UNCHANGED <<pvc, pvcCache, pvcCacheCur>>
          /\ vr' = [vr EXCEPT ![v] = [NoVR EXCEPT !.gen = vr[v].gen]]
      BY Zenon, <1>8 DEF removeFinalizerFromVR
    <2>2. \A w \in VRs : Holds(w) => Holds(w)' \/ pc[w] = "vrUnfinalize"
      BY Zenon, <2>1 DEF TypeOK, Holds
    <2>3. QED
      BY Zenon, <2>1, <2>2, FailKeepsClaim
  <1>9. QED
    BY Zenon, <1>1, <1>2, <1>3, <1>4, <1>5, <1>6, <1>7, <1>8

\* So do the driver calls.
LEMMA CallsKeepClaim ==
  ASSUME TypeOK, MetaInv, ProtectionInv, NEW v \in VRs, NEW outcome, NEW ready,
         NEW answer \in InfoAnswers,
         \/ enableReplication(v, outcome) \/ markVolumeAsPrimary(v, outcome)
         \/ getVolumeReplicationInfo(v, answer) \/ markVolumeAsSecondary(v, outcome)
         \/ resyncVolume(v, outcome, ready) \/ disableVolumeReplication(v, outcome)
  PROVE  ProtectionInv'
  <1>1. CASE disableVolumeReplication(v, outcome)
    <2>1. UNCHANGED <<vr, pvc, pvcCache, pvcCacheCur>>
      BY Zenon, <1>1 DEF disableVolumeReplication, informer
    <2>2. CASE outcome = "ok"
      BY Zenon, <1>1, <2>1, <2>2, GoesOn DEF disableVolumeReplication, Goto, locals, Holds
    <2>3. CASE outcome # "ok"
      BY Zenon, <1>1, <2>1, <2>3, FailKeepsClaim DEF disableVolumeReplication, Holds
    <2>4. QED
      BY Zenon, <2>2, <2>3
  <1>2. CASE ~disableVolumeReplication(v, outcome)
    <2>1. /\ pc[v] \in AddSteps
          /\ UNCHANGED <<vr, pvc, pvcCache, pvcCacheCur, claim, claimCur>>
      BY Zenon, <1>2 DEF enableReplication, markVolumeAsPrimary, getVolumeReplicationInfo,
                  markVolumeAsSecondary, resyncVolume, callUnchanged, informer, AddSteps
    <2>2. Onward(v)
      BY Zenon, <1>2, CallsOnward
    <2>3. \E step \in AddSteps \cup {"status"} : pc' = [pc EXCEPT ![v] = step]
      BY Zenon, <2>1, <2>2 DEF Onward, AddSteps, DelSteps
    <2>4. \A step \in AddSteps \cup {"status"} : step \notin DelSteps
      BY Zenon DEF AddSteps, DelSteps
    <2>5. QED
      BY Zenon, <2>1, <2>3, <2>4, GoesOn DEF Holds
  <1>3. QED
    BY Zenon, <1>1, <1>2

\* ProtectionInv is inductive while the claim is not read from a lagging cache.
LEMMA ProtectionStep ==
  ASSUME NoLag, TypeOK, MetaInv, ProtectionInv, [Next]_vars PROVE ProtectionInv'
  <1>1. ASSUME NEW v \in VRs, User(v) PROVE ProtectionInv'
    <2>1. PICK o \in VRObjects : Stores(v, o)
      BY Zenon, <1>1, UserStores
    <2>2. UNCHANGED <<pvc, pvcCache, pvcCacheCur, claim, claimCur, pc>>
      BY Zenon, <1>1 DEF User, CreateVR, EditSpec, DeleteVR, reconciler
    <2>3. QED
      BY Zenon, <2>1, <2>2, StoresKeeps, NothingOfTheClaim
  <1>2. ASSUME NEW v \in VRs, SyncVR(v) PROVE ProtectionInv'
    BY Zenon, <1>2, NothingOfTheClaim DEF SyncVR, stored, Holds
  <1>3. CASE UNCHANGED vars
    BY Zenon, <1>3, NothingOfTheClaim DEF vars, stored, informer, Holds
  <1>4. ~SyncClaim
    BY Zenon DEF SyncClaim, ProtectionInv, CurrentInv
  <1>5. CASE Crash
    <2>1. ClaimLeft
      BY Zenon, <1>5 DEF Crash, ClaimLeft, ProtectionInv, CurrentInv, stored, DelSteps, Holds
    <2>2. QED
      BY Zenon, <2>1, ClaimLeftKeeps
  <1>6. ASSUME NEW v \in VRs, ApiError(v) PROVE ProtectionInv'
    BY Zenon, <1>6, FailKeepsClaim DEF ApiError, Fail, stored, informer, Holds
  <1>7. "True" \in InfoAnswers /\ TRUE \in BOOLEAN
    BY Zenon DEF InfoAnswers
  <1>8. ASSUME NEW v \in VRs, Reconcile(v, Outcomes, BOOLEAN) PROVE ProtectionInv'
    BY Zenon, <1>7, <1>8, OtherStepsKeepClaim, CallsKeepClaim, ProtectKeeps, UnprotectKeeps
    DEF Reconcile
  <1>9. QED
    BY Zenon, <1>1, <1>2, <1>3, <1>4, <1>5, <1>6, <1>8, OtherStepsKeepClaim, UserWritesClaim
    DEF Next, Environment

\* Every state of such a behaviour satisfies ProtectionInv.
LEMMA ProtectionInvariant == ASSUME NoLag PROVE Spec => []ProtectionInv
  <1>1. Init => ProtectionInv
    BY VRAssumption DEF Init, ProtectionInv, CurrentInv, KeptInv, OwnerInv, BoundClaim
  <1>2. HoldInv => MetaInv
    BY Zenon DEF HoldInv, MetaInv
  <1>3. TypeOK /\ HoldInv /\ ProtectionInv /\ [Next]_vars => ProtectionInv'
    BY Zenon, <1>2, ProtectionStep
  <1>4. QED
    BY <1>1, <1>3, TypeCorrect, HoldInvariant, PTL DEF Spec

\* No claim is left behind with the replication finalizer: as long as claims
\* are read as they are stored, some VR that will take it off exists, for any
\* number of VRs on the claim and every other fault (the deletion branch takes
\* the finalizer off the claim before it takes its own off the VR).
THEOREM ProtectionIsHeld == ASSUME NoLag PROVE Spec => []NoLeakedProtection
  <1>1. ProtectionInv => NoLeakedProtection
    BY Zenon DEF ProtectionInv, KeptInv, Keeps, Holds, NoLeakedProtection
  <1>2. QED
    BY <1>1, ProtectionInvariant, PTL

\* Nor does the owner annotation ever name a VR that is gone, under the same
\* assumption (removeOwnerFromPVCAnnotation comes before removeFinalizerFromVR).
THEOREM OwnerIsThere == ASSUME NoLag PROVE Spec => []OwnerExists
  <1>1. ProtectionInv => OwnerExists
    BY Zenon DEF ProtectionInv, OwnerInv, Holds, OwnerExists
  <1>2. QED
    BY <1>1, ProtectionInvariant, PTL

-----------------------------------------------------------------------------
(* The claim of a replicated volume, when one VR names it and it is not    *)
(* read from an informer that lags.                                        *)

\* What v's reconcile has read of the claim is still so, and past the writes of
\* the annotation and of the finalizer they are there.
GuardOf(v) ==
  /\ pc[v] \notin {"idle", "status"} =>
       /\ claim[v].owner = pvc.owner
       /\ claim[v].finalizer = pvc.finalizer
       /\ claim[v].exists
  /\ pc[v] \in AddSteps \ {"annotate"} => pvc.owner = v
  /\ pc[v] \in AddSteps \ {"annotate", "pvcFinalizer"} => pvc.finalizer

\* The inductive invariant behind ProtectedWhileEnabled.
GuardInv ==
  /\ \A v \in VRs : GuardOf(v)
  /\ pvc.finalizer => pvc.exists
  /\ ProtectedWhileEnabled

\* A step that leaves the claim alone and enables nothing.
LEMMA GuardKept ==
  ASSUME OneVR, GuardInv, NEW v \in VRs, pvc' = pvc, vol'.enabled => vol.enabled, GuardOf(v)'
  PROVE  GuardInv'
  <1>1. \A w \in VRs : GuardOf(w)'
    BY Zenon DEF OneVR
  <1>2. QED
    BY Zenon, <1>1 DEF GuardInv, ProtectedWhileEnabled

\* A reconcile that is over, or about to write its status.
LEMMA GuardOver ==
  ASSUME OneVR, GuardInv, NEW v \in VRs, pvc' = pvc, vol'.enabled => vol.enabled,
         pc'[v] \in {"idle", "status"}
  PROVE  GuardInv'
  <1>1. GuardOf(v)'
    BY Zenon DEF GuardOf, AddSteps
  <1>2. QED
    BY Zenon, <1>1, GuardKept

\* A reconcile that goes on with the claim it has.
LEMMA GuardGoes ==
  ASSUME OneVR, TypeOK, GuardInv, NEW v \in VRs, NEW step, pc' = [pc EXCEPT ![v] = step],
         UNCHANGED <<pvc, claim>>, vol'.enabled => vol.enabled, pc[v] \notin {"idle", "status"},
         step \in AddSteps \ {"annotate"} => pvc.owner = v,
         step \in AddSteps \ {"annotate", "pvcFinalizer"} => pvc.finalizer
  PROVE  GuardInv'
  <1>1. pc'[v] = step
    BY Zenon DEF TypeOK
  <1>2. GuardOf(v)'
    BY Zenon, <1>1 DEF GuardInv, GuardOf
  <1>3. QED
    BY Zenon, <1>2, GuardKept

\* The claim and the reconciles are left alone.
LEMMA GuardNothing ==
  ASSUME GuardInv, UNCHANGED <<pvc, vol, pc, claim>> PROVE GuardInv'
  BY Zenon DEF GuardInv, GuardOf, ProtectedWhileEnabled

\* Past its Disable call the only VR holds no replicated volume.
LEMMA DisabledPast ==
  ASSUME OneVR, EnabledInv, NEW v \in VRs, pc[v] \in DelSteps \ {"disable"} PROVE ~vol.enabled
  BY Zenon DEF OneVR, EnabledInv

\* The claim is written by a user or by the API server.
LEMMA GuardUser ==
  ASSUME TypeOK, GuardInv, DeleteClaim \/ ClaimGone PROVE GuardInv'
  <1>0. pvc \in Claims
    BY Zenon DEF TypeOK
  <1>1. UNCHANGED <<vol, pc, claim>>
    BY Zenon DEF DeleteClaim, ClaimGone, reconciler
  <1>2. /\ pvc'.owner = pvc.owner /\ pvc'.finalizer = pvc.finalizer
        /\ pvc'.exists = pvc.exists \/ ~pvc.finalizer
    <2>1. CASE DeleteClaim
      <3>1. pvc' = [pvc EXCEPT !.deleting = TRUE]
        BY Zenon, <2>1 DEF DeleteClaim, StoreClaim
      <3>2. QED
        BY Zenon, <1>0, <3>1 DEF Claims
    <2>2. CASE ClaimGone
      <3>1. pvc' = [pvc EXCEPT !.exists = FALSE] /\ ~pvc.finalizer
        BY Zenon, <2>2 DEF ClaimGone, StoreClaim
      <3>2. QED
        BY Zenon, <1>0, <3>1 DEF Claims
    <2>3. QED
      BY Zenon, <2>1, <2>2
  <1>3. QED
    BY Zenon, <1>1, <1>2 DEF GuardInv, GuardOf, ProtectedWhileEnabled

\* The claim is written by the only VR's reconcile.
LEMMA GuardWritten ==
  ASSUME OneVR, TypeOK, EnabledInv, GuardInv, NEW v \in VRs, NEW c, NEW step,
         ClaimWritten(v, c, step), pc[v] \notin {"idle", "status"}, vol' = vol,
         c.exists = claim[v].exists,
         step \in AddSteps \ {"annotate"} => c.owner = v,
         step \in AddSteps \ {"annotate", "pvcFinalizer"} => c.finalizer,
         vol.enabled => c.owner # None /\ (pvc.finalizer => c.finalizer)
  PROVE  GuardInv'
  <1>1. pvc' = c /\ claim'[v] = c /\ pc'[v] = step /\ claim[v] = pvc
    BY Zenon DEF ClaimWritten, TypeOK
  <1>2. claim[v].exists
    BY Zenon DEF GuardInv, GuardOf
  <1>3. GuardOf(v)'
    BY Zenon, <1>1, <1>2 DEF GuardOf
  <1>4. ProtectedWhileEnabled'
    BY Zenon, <1>1, <1>2 DEF GuardInv, ProtectedWhileEnabled
  <1>5. QED
    BY Zenon, <1>1, <1>2, <1>3, <1>4 DEF OneVR, GuardInv

\* The four writes of the claim.
LEMMA GuardWrites ==
  ASSUME OneVR, NoLag, TypeOK, EnabledInv, ProtectionInv, GuardInv, NEW v \in VRs,
         \/ annotatePVCWithOwner(v) \/ addFinalizerToPVC(v)
         \/ removeOwnerFromPVCAnnotation(v) \/ removeFinalizerFromPVC(v)
  PROVE  GuardInv'
  <1>0. claim[v] \in Claims /\ None # v
    BY Zenon, VRAssumption DEF TypeOK
  <1>1. CASE Fail(v)
    BY Zenon, <1>1, GuardOver DEF TypeOK, Fail, Return, stored
  <1>2. vol' = vol
    BY Zenon, WritesOnward DEF Fail, stored
  <1>3. ASSUME NEW c, NEW step, UpdateClaim(v, c, step)
        PROVE  ClaimWritten(v, c, step) \/ Fail(v)
    BY Zenon, <1>3, UpdateClaimWrites
  <1>4. ASSUME NEW step, Skip(v, step), pc[v] \notin {"idle", "status"},
               step \in AddSteps \ {"annotate"} => pvc.owner = v,
               step \in AddSteps \ {"annotate", "pvcFinalizer"} => pvc.finalizer
        PROVE  GuardInv'
    BY Zenon, <1>4, GuardGoes DEF Skip, Goto, stored, locals
  <1>5. CASE annotatePVCWithOwner(v) /\ ~Fail(v)
    <2>. DEFINE c == [claim[v] EXCEPT !.owner = v]
    <2>1. c.exists = claim[v].exists /\ c.finalizer = claim[v].finalizer /\ c.owner = v
      BY Zenon, <1>0 DEF Claims
    <2>. HIDE DEF c
    <2>2. pc[v] = "annotate" /\ claim[v].owner = pvc.owner
      BY Zenon, <1>5 DEF annotatePVCWithOwner, GuardInv, GuardOf
    <2>3. CASE claim[v].owner = v /\ Skip(v, "pvcFinalizer")
      BY Zenon, <1>4, <2>2, <2>3
    <2>4. CASE UpdateClaim(v, c, "pvcFinalizer")
      <3>1. ClaimWritten(v, c, "pvcFinalizer")
        BY Zenon, <1>3, <1>5, <2>4
      <3>2. claim[v] = pvc
        BY Zenon, <3>1 DEF ClaimWritten
      <3>3. QED
        BY Zenon, <1>0, <1>2, <2>1, <2>2, <3>1, <3>2, GuardWritten
    <2>5. QED
      BY Zenon, <1>5, <2>3, <2>4 DEF annotatePVCWithOwner, c
  <1>6. CASE addFinalizerToPVC(v) /\ ~Fail(v)
    <2>. DEFINE c == [claim[v] EXCEPT !.finalizer = TRUE]
    <2>1. c.exists = claim[v].exists /\ c.finalizer /\ c.owner = claim[v].owner
      BY Zenon, <1>0 DEF Claims
    <2>. HIDE DEF c
    <2>2. /\ pc[v] = "pvcFinalizer" /\ pvc.owner = v
          /\ claim[v].owner = pvc.owner /\ claim[v].finalizer = pvc.finalizer
      BY Zenon, <1>6 DEF addFinalizerToPVC, GuardInv, GuardOf, AddSteps
    <2>3. CASE claim[v].finalizer /\ Skip(v, "begin")
      BY Zenon, <1>4, <2>2, <2>3
    <2>4. CASE UpdateClaim(v, c, "begin")
      <3>1. ClaimWritten(v, c, "begin")
        BY Zenon, <1>3, <1>6, <2>4
      <3>2. QED
        BY Zenon, <1>0, <1>2, <2>1, <2>2, <3>1, GuardWritten
    <2>5. QED
      BY Zenon, <1>6, <2>3, <2>4 DEF addFinalizerToPVC, c
  <1>7. CASE removeOwnerFromPVCAnnotation(v) /\ ~Fail(v)
    <2>. DEFINE c == [claim[v] EXCEPT !.owner = None]
    <2>1. c.exists = claim[v].exists
      BY Zenon, <1>0 DEF Claims
    <2>. HIDE DEF c
    <2>2. pc[v] = "unannotate" /\ ~vol.enabled /\ "pvcUnfinalize" \notin AddSteps
      BY Zenon, <1>7, DisabledPast DEF removeOwnerFromPVCAnnotation, DelSteps, AddSteps
    <2>3. CASE Skip(v, "pvcUnfinalize")
      BY Zenon, <1>4, <2>2, <2>3
    <2>4. CASE UpdateClaim(v, c, "pvcUnfinalize")
      BY Zenon, <1>2, <1>3, <1>7, <2>1, <2>2, <2>4, GuardWritten
    <2>5. QED
      BY Zenon, <1>7, <2>3, <2>4 DEF removeOwnerFromPVCAnnotation, c
  <1>8. CASE removeFinalizerFromPVC(v) /\ ~Fail(v)
    <2>. DEFINE c == [claim[v] EXCEPT !.finalizer = FALSE]
    <2>1. c.exists = claim[v].exists
      BY Zenon, <1>0 DEF Claims
    <2>. HIDE DEF c
    <2>2. pc[v] = "pvcUnfinalize" /\ ~vol.enabled /\ "vrUnfinalize" \notin AddSteps
      BY Zenon, <1>8, DisabledPast DEF removeFinalizerFromPVC, DelSteps, AddSteps
    <2>3. CASE Skip(v, "vrUnfinalize")
      BY Zenon, <1>4, <2>2, <2>3
    <2>4. CASE UpdateClaim(v, c, "vrUnfinalize")
      BY Zenon, <1>2, <1>3, <1>8, <2>1, <2>2, <2>4, GuardWritten
    <2>5. QED
      BY Zenon, <1>8, <2>3, <2>4 DEF removeFinalizerFromPVC, c
  <1>9. QED
    BY Zenon, <1>1, <1>5, <1>6, <1>7, <1>8

\* The driver calls: replication is enabled only for a claim that is protected.
LEMMA GuardCalls ==
  ASSUME OneVR, TypeOK, GuardInv, NEW v \in VRs, NEW outcome, NEW ready,
         NEW answer \in InfoAnswers,
         \/ enableReplication(v, outcome) \/ markVolumeAsPrimary(v, outcome)
         \/ getVolumeReplicationInfo(v, answer) \/ markVolumeAsSecondary(v, outcome)
         \/ resyncVolume(v, outcome, ready)
  PROVE  GuardInv'
  <1>1. UNCHANGED <<pvc, claim>> /\ pc[v] \in AddSteps \ {"annotate", "pvcFinalizer"}
    BY Zenon DEF enableReplication, markVolumeAsPrimary, getVolumeReplicationInfo,
           markVolumeAsSecondary, resyncVolume, callUnchanged, AddSteps
  <1>2. \E step \in (AddSteps \ {"annotate", "pvcFinalizer"}) \cup {"status"} :
          pc' = [pc EXCEPT ![v] = step]
    BY Zenon DEF enableReplication, markVolumeAsPrimary, getVolumeReplicationInfo,
           markVolumeAsSecondary, resyncVolume, FinishFailed, FinishFirstDemotion, Finish, Goto,
           AddSteps
  <1>3. pvc.owner = v /\ pvc.finalizer /\ pvc.exists /\ v # None
    BY Zenon, <1>1, VRAssumption DEF GuardInv, GuardOf
  <1>4. GuardOf(v)'
    BY Zenon, <1>1, <1>2, <1>3 DEF TypeOK, GuardInv, GuardOf, AddSteps
  <1>5. ProtectedWhileEnabled'
    BY Zenon, <1>1, <1>3 DEF ProtectedWhileEnabled
  <1>6. QED
    BY Zenon, <1>1, <1>3, <1>4, <1>5 DEF OneVR, GuardInv

\* The other steps of a reconcile.
LEMMA GuardOthers ==
  ASSUME OneVR, TypeOK, ProtectionInv, GuardInv, NEW v \in VRs,
         \/ ReconcileNotFound(v) \/ ReconcileInvalid(v) \/ ReconcileStart(v)
         \/ addFinalizerToVR(v) \/ UpdateLastStartTime(v) \/ updateReplicationStatus(v)
         \/ removeFinalizerFromVR(v) \/ \E outcome : disableVolumeReplication(v, outcome)
  PROVE  GuardInv'
  <1>1. CASE Fail(v)
    BY Zenon, <1>1, GuardOver DEF TypeOK, Fail, Return, stored
  <1>2. CASE ReconcileNotFound(v)
    BY Zenon, <1>2, GuardNothing DEF ReconcileNotFound, stored
  <1>3. CASE ReconcileInvalid(v)
    BY Zenon, <1>3, GuardOver DEF TypeOK, ReconcileInvalid, Goto, stored
  <1>4. CASE ReconcileStart(v)
    <2>1. /\ pc'[v] \in {"disable", "vrFinalizer"} /\ claim'[v] = pvc /\ pvc.exists
          /\ UNCHANGED <<pvc, vol>>
      BY Zenon, <1>4
      DEF TypeOK, ReconcileStart, ClaimUsable, FirstStep, Goto, stored, ProtectionInv,
                  CurrentInv
    <2>2. GuardOf(v)'
      BY Zenon, <2>1 DEF GuardOf, AddSteps
    <2>3. QED
      BY Zenon, <2>1, <2>2, GuardKept
  <1>5. CASE addFinalizerToVR(v) /\ ~Fail(v)
    <2>1. /\ pc[v] = "vrFinalizer" /\ pc' = [pc EXCEPT ![v] = "annotate"]
          /\ UNCHANGED <<pvc, claim, vol>>
      BY Zenon, <1>5 DEF addFinalizerToVR, Skip, Goto, stored, locals
    <2>2. QED
      BY Zenon, <2>1, GuardGoes
  <1>6. CASE UpdateLastStartTime(v) /\ ~Fail(v)
    <2>1. /\ pc[v] = "begin" /\ pc' = [pc EXCEPT ![v] = DriverCall(inst[v])]
          /\ UNCHANGED <<pvc, claim, vol>>
      BY Zenon, <1>6 DEF UpdateLastStartTime, Goto, stored
    <2>2. pvc.owner = v /\ pvc.finalizer
      BY Zenon, <2>1 DEF GuardInv, GuardOf, AddSteps
    <2>3. QED
      BY Zenon, <2>1, <2>2, GuardGoes
  <1>7. CASE updateReplicationStatus(v) /\ ~Fail(v)
    BY Zenon, <1>7, GuardOver DEF TypeOK, updateReplicationStatus, Return
  <1>8. CASE removeFinalizerFromVR(v) /\ ~Fail(v)
    BY <1>8, GuardOver DEF TypeOK, removeFinalizerFromVR, Return
  <1>9. ASSUME NEW outcome, disableVolumeReplication(v, outcome) PROVE GuardInv'
    <2>1. (vol'.enabled => vol.enabled) /\ pvc' = pvc /\ pc[v] = "disable"
      BY Zenon, <1>9 DEF disableVolumeReplication, Call
    <2>2. CASE outcome = "ok"
      <3>1. pc' = [pc EXCEPT ![v] = "unannotate"] /\ claim' = claim
        BY Zenon, <1>9, <2>2 DEF disableVolumeReplication, Goto, locals
      <3>2. QED
        BY Zenon, <2>1, <3>1, GuardGoes DEF AddSteps
    <2>3. CASE outcome # "ok"
      BY Zenon, <1>9, <2>1, <2>3, GuardOver DEF TypeOK, disableVolumeReplication, Return
    <2>4. QED
      BY Zenon, <2>2, <2>3
  <1>10. QED
    BY Zenon, <1>1, <1>2, <1>3, <1>4, <1>5, <1>6, <1>7, <1>8, <1>9

\* GuardInv is inductive for one VR and a claim that is read as it is stored.
LEMMA GuardStep ==
  ASSUME OneVR, NoLag, TypeOK, EnabledInv, ProtectionInv, GuardInv, [Next]_vars PROVE GuardInv'
  <1>1. ASSUME NEW v \in VRs, User(v) PROVE GuardInv'
    BY Zenon, <1>1, GuardNothing DEF User, CreateVR, EditSpec, DeleteVR, reconciler
  <1>2. ASSUME NEW v \in VRs, SyncVR(v) PROVE GuardInv'
    BY Zenon, <1>2, GuardNothing DEF SyncVR, stored
  <1>3. CASE SyncClaim \/ UNCHANGED vars
    BY Zenon, <1>3, GuardNothing DEF SyncClaim, stored, vars
  <1>4. CASE Crash
    <2>1. UNCHANGED <<pvc, vol>> /\ \A v \in VRs : pc'[v] = "idle"
      BY Zenon, <1>4 DEF Crash, stored
    <2>2. QED
      BY Zenon, <2>1 DEF GuardInv, GuardOf, ProtectedWhileEnabled, AddSteps
  <1>5. ASSUME NEW v \in VRs, ApiError(v) PROVE GuardInv'
    BY Zenon, <1>5, GuardOver DEF TypeOK, ApiError, Fail, Return, stored
  <1>6. "True" \in InfoAnswers /\ TRUE \in BOOLEAN
    BY Zenon DEF InfoAnswers
  <1>7. ASSUME NEW v \in VRs, Reconcile(v, Outcomes, BOOLEAN) PROVE GuardInv'
    BY Zenon, <1>6, <1>7, GuardOthers, GuardWrites, GuardCalls DEF Reconcile
  <1>8. QED
    BY Zenon, <1>1, <1>2, <1>3, <1>4, <1>5, <1>7, GuardUser, GuardOthers DEF Next, Environment

\* A replicated volume's claim is there, cannot disappear, and names an owner:
\* with one VR on the claim and claims read as they are stored, whatever driver
\* call, API write or restart fails and whenever the user deletes VR or claim
\* (the claim is annotated and finalized before Enable, and Disable comes
\* before either is taken off).
THEOREM ReplicatedIsProtected == ASSUME OneVR, NoLag PROVE Spec => []ProtectedWhileEnabled
  <1>1. Init => GuardInv
    BY DEF Init, GuardInv, GuardOf, ProtectedWhileEnabled, BoundClaim, AddSteps
  <1>2. TypeOK /\ HoldInv /\ ProtectionInv /\ GuardInv /\ [Next]_vars => GuardInv'
    BY Zenon, GuardStep DEF HoldInv
  <1>3. GuardInv => ProtectedWhileEnabled
    BY Zenon DEF GuardInv
  <1>4. QED
    BY <1>1, <1>2, <1>3, TypeCorrect, HoldInvariant, ProtectionInvariant, PTL DEF Spec
=============================================================================
