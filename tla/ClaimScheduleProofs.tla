------------------------ MODULE ClaimScheduleProofs ------------------------
(***************************************************************************)
(* For any names, schedules, edits and faults: neither controller changes  *)
(* an unmanaged cron job, and as long as the lists have been up to date    *)
(* there is at most one cron job for each operation.  The first rests on   *)
(* what a reconcile has read when it comes to a write, the second on there *)
(* being no cron job between a list that shows none and the creation.      *)
(***************************************************************************)
EXTENDS ClaimSchedule, FiniteSetTheorems, TLAPS

StepsPVC == {"find", "delete", "forget", "update", "patch", "annotate", "create"}
StepsSC == {"feature", "make", "collect", "change"}

StoredOK ==
  /\ claim \in Claims /\ namespace \in Namespaces /\ class \in Classes
  /\ child \in [Ops -> [Names -> Children]]

ControlOK ==
  /\ queued \in BOOLEAN
  /\ pc \in {"idle"} \cup (IF mode = "pvc" THEN StepsPVC ELSE StepsSC)
  /\ loc \in Locals
  /\ pc \in {"delete", "update", "patch", "collect", "change"} => loc.child.managed
  /\ pc \in {"update", "patch", "annotate", "create", "make", "change"} => loc.sched # "none"

RestOK ==
  /\ mode \in Modes /\ volume \in Volumes
  /\ cache \in Caches
  /\ capable \subseteq Ops
  /\ history \subseteq Irregularities
  /\ edits \in 0..MaxEdits /\ faults \in 0..MaxFaults

\* The parts of type correctness.
LEMMA TypeParts == TypeOK <=> StoredOK /\ ControlOK /\ RestOK
  BY Zenon DEF TypeOK, StoredOK, ControlOK, RestOK, StepsPVC, StepsSC

\* No list of cron jobs was behind, and one controller has done all.
Regularly == history \cap {"lag", "switch"} = {}

\* At most one cron job, the one with a fixed name for PVCReconiler, and none
\* when PersistentVolumeClaimReconciler is about to create one.
ChildInv ==
  Regularly =>
    \A op \in Ops :
      /\ \E n \in Names : Kids(op) \subseteq {n}
      /\ mode = "storageclass" => Kids(op) \subseteq {Own}
      /\ pc \in {"annotate", "create"} /\ loc.op = op => Kids(op) = {}

ClaimInv == TypeOK /\ ChildInv

-----------------------------------------------------------------------------
(* Types.                                                                  *)

\* What a reconcile holds at first.
LEMMA NoLocalsType == NoLocals \in Locals
  BY Zenon DEF NoLocals, Locals, Claims, Classes, Annotations, Names, Children, Ops

\* Cron jobs.
LEMMA ChildTypes ==
  /\ Absent \in Children /\ Absent.managed = FALSE
  /\ \A c \in Children : c # Absent => c.sched \in Annotations \ {"none"} /\ c.managed \in BOOLEAN
  /\ \A s \in Annotations \ {"none"}, b \in BOOLEAN :
       /\ [sched |-> s, managed |-> b] \in Children
       /\ [sched |-> s, managed |-> b] # Absent
  BY Zenon DEF Children, Absent

\* Users' changes of a cron job.
LEMMA ChildEdits ==
  ASSUME NEW c \in Children, c # Absent
  PROVE  /\ [c EXCEPT !.managed = ~@] \in Children /\ [c EXCEPT !.managed = ~@] # Absent
         /\ \A s \in Annotations \ {"none"} :
              /\ [c EXCEPT !.sched = s] \in Children /\ [c EXCEPT !.sched = s] # Absent
              /\ [c EXCEPT !.sched = s].managed = c.managed
  BY Zenon DEF Children, Absent

\* Changes of a claim.
LEMMA ClaimEditTypes ==
  ASSUME NEW c \in Claims, NEW op \in Ops
  PROVE  /\ \A b \in BOOLEAN : [c EXCEPT !.news = b] \in Claims
         /\ \A v \in Annotations : [c EXCEPT !.sched[op] = v] \in Claims
         /\ \A v \in Annotations, n \in Names :
              [c EXCEPT !.sched[op] = v, !.name[op] = n] \in Claims
         /\ [c EXCEPT !.name[op] = "none"] \in Claims
         /\ [c EXCEPT !.off = ~@] \in Claims
         /\ \A p \in {"Pending", "Bound", "Deleting"} : [c EXCEPT !.phase = p] \in Claims
  BY Zenon DEF Claims

\* A write of the claim.
LEMMA Writes ==
  ASSUME TypeOK, NEW new \in Claims, Write(new) PROVE claim' \in Claims
  <1>1. (new.news \/ AnnotationValueChanged(claim, new)) \in BOOLEAN
    BY Zenon
  <1>2. claim' = [new EXCEPT !.news = new.news \/ AnnotationValueChanged(claim, new)]
    BY Zenon DEF Write
  <1>3. QED
    BY Zenon, <1>1, <1>2 DEF Claims

\* Changes of what a reconcile holds.
LEMMA LocalEdits ==
  ASSUME NEW l \in Locals
  PROVE  /\ l.op \in Ops /\ l.name \in Names /\ l.child \in Children /\ l.claim \in Claims
         /\ l.sched \in Annotations /\ l.failed \in BOOLEAN /\ l.class \in Classes
         /\ [l EXCEPT !.op = "reclaimspace"] \in Locals
         /\ [l EXCEPT !.failed = TRUE] \in Locals
         /\ [l EXCEPT !.failed = TRUE].op = l.op
         /\ \A c \in Claims : /\ [l EXCEPT !.claim = c] \in Locals
                              /\ [l EXCEPT !.claim = c].op = l.op
  BY Zenon DEF Locals, Ops

\* The counters stay within their bounds.
LEMMA EditCount == ASSUME TypeOK, NEW kind, Edit(kind) PROVE edits' \in 0..MaxEdits
  BY ClaimAssumption DEF TypeOK, Edit

\* So do the faults.
LEMMA FaultCount == ASSUME TypeOK, NEW kind, Fault(kind) PROVE faults' \in 0..MaxFaults
  BY ClaimAssumption DEF TypeOK, Fault
-----------------------------------------------------------------------------
(* Users and informers.                                                    *)

\* A step that creates no cron job.
LEMMA NoMoreChildren ==
  ASSUME ChildInv, mode' = mode, history \subseteq history',
         \A op \in Ops : Kids(op)' \subseteq Kids(op),
         \A op \in Ops :
           Regularly' /\ pc' \in {"annotate", "create"} /\ loc'.op = op => Kids(op)' = {}
  PROVE  ChildInv'
  <1>. SUFFICES ASSUME Regularly', NEW op \in Ops
                PROVE  /\ \E n \in Names : Kids(op)' \subseteq {n}
                       /\ mode' = "storageclass" => Kids(op)' \subseteq {Own}
                       /\ pc' \in {"annotate", "create"} /\ loc'.op = op => Kids(op)' = {}
    BY Zenon DEF ChildInv
  <1>1. Regularly
    BY Zenon DEF Regularly
  <1>2. QED
    BY Zenon, <1>1 DEF ChildInv

\* The cron jobs after a step that leaves them alone.
LEMMA SameKids == UNCHANGED child => \A op \in Ops : Kids(op)' = Kids(op)
  BY Zenon DEF Kids

\* A step that leaves the cron jobs and the reconcile alone.
LEMMA SameChildren ==
  ASSUME ChildInv, UNCHANGED <<child, mode, pc, loc, history>>
  PROVE  ChildInv'
  BY SameKids DEF ChildInv, Regularly

\* A step of users on claim, namespace and class.
LEMMA UserStep ==
  ASSUME ClaimInv, Edited, child' = child,
         claim' \in Claims, namespace' \in Namespaces, class' \in Classes, edits' \in 0..MaxEdits
  PROVE  ClaimInv'
  <1>1. UNCHANGED <<mode, volume, cache, capable, queued, pc, loc, history, faults>>
    BY Zenon DEF Edited, User
  <1>2. ChildInv'
    BY Zenon, <1>1, SameChildren DEF ClaimInv
  <1>3. TypeOK'
    BY Zenon, <1>1 DEF ClaimInv, TypeOK
  <1>4. QED
    BY Zenon, <1>2, <1>3 DEF ClaimInv

\* A user edits a cron job.
LEMMA EditChildStep ==
  ASSUME ClaimInv, NEW op \in Ops, NEW n \in Names, EditChild(op, n)
  PROVE  ClaimInv'
  <1>0. /\ n \in Kids(op) /\ child[op][n] \in Children /\ child[op][n] # Absent
        /\ UNCHANGED <<mode, volume, cache, capable, pc, loc, faults, claim, namespace, class>>
    BY Zenon DEF EditChild, User, Kids, ClaimInv, TypeOK
  <1>1. PICK c \in Children : child' = [child EXCEPT ![op][n] = c]
    <2>1. \A s \in Schedules \cup {Weekly} : s \in Annotations \ {"none"}
      BY Zenon, ClaimAssumption DEF Annotations, Weekly
    <2>2. CASE child' = [child EXCEPT ![op][n].managed = ~@]
      <3>1. child' = [child EXCEPT ![op][n] = [child[op][n] EXCEPT !.managed = ~@]]
        BY Zenon, <1>0, <2>2 DEF ClaimInv, TypeOK
      <3>2. QED
        BY Zenon, <1>0, <3>1, ChildEdits
    <2>3. ASSUME NEW s \in Schedules \cup {Weekly}, child' = [child EXCEPT ![op][n].sched = s]
          PROVE  \E c \in Children : child' = [child EXCEPT ![op][n] = c]
      <3>1. child' = [child EXCEPT ![op][n] = [child[op][n] EXCEPT !.sched = s]]
        BY Zenon, <1>0, <2>3 DEF ClaimInv, TypeOK
      <3>2. QED
        BY Zenon, <1>0, <2>1, <3>1, ChildEdits
    <2>4. QED
      BY Zenon, <2>2, <2>3, ChildTypes DEF EditChild
  <1>2. child' \in [Ops -> [Names -> Children]] /\ \A o \in Ops : Kids(o)' \subseteq Kids(o)
    BY Zenon, <1>0, <1>1 DEF ClaimInv, TypeOK, Kids
  <1>3. history' \subseteq Irregularities /\ history \subseteq history'
    BY Zenon DEF EditChild, ClaimInv, TypeOK, Irregularities
  <1>4. queued' \in BOOLEAN
    BY Zenon DEF EditChild
  <1>5. edits' \in 0..MaxEdits
    BY Zenon, EditCount DEF EditChild, ClaimInv
  <1>6. TypeOK'
    BY Zenon, <1>0, <1>2, <1>3, <1>4, <1>5 DEF ClaimInv, TypeOK
  <1>7. ASSUME NEW o \in Ops, Regularly', pc' \in {"annotate", "create"}, loc'.op = o
        PROVE  Kids(o)' = {}
    <2>1. Regularly /\ pc \in {"annotate", "create"} /\ loc.op = o
      BY Zenon, <1>0, <1>3, <1>7 DEF Regularly
    <2>2. Kids(o) = {}
      BY Zenon, <2>1 DEF ClaimInv, ChildInv
    <2>3. QED
      BY Zenon, <1>2, <2>2
  <1>8. ChildInv'
    BY Zenon, <1>0, <1>2, <1>3, <1>7, NoMoreChildren DEF ClaimInv
  <1>9. QED
    BY Zenon, <1>6, <1>8 DEF ClaimInv

\* All users.
LEMMA UsersStep == ASSUME ClaimInv, Users PROVE ClaimInv'
  <1>0. claim \in Claims /\ namespace \in Namespaces /\ class \in Classes /\ TypeOK
        /\ edits \in 0..MaxEdits /\ "keyrotation" \in Ops
    BY Zenon DEF ClaimInv, TypeOK, Ops
  <1>1. ASSUME NEW op \in Ops, NEW value \in Annotations, EditClaim(op, value) PROVE ClaimInv'
    <2>1. claim' \in Claims
      BY Zenon, <1>0, <1>1, ClaimEditTypes, Writes DEF EditClaim
    <2>2. QED
      BY Zenon, <1>0, <1>1, <2>1, EditCount, UserStep DEF EditClaim
  <1>2. ASSUME NEW op \in Ops, NEW value \in Annotations, EditClass(op, value) PROVE ClaimInv'
    <2>1. class' \in Classes
      BY Zenon, <1>0, <1>2 DEF EditClass, Classes
    <2>2. QED
      BY Zenon, <1>0, <1>2, <2>1, EditCount, UserStep DEF EditClass
  <1>3. ASSUME NEW op \in Ops, NEW value \in Annotations, EditNamespace(op, value) PROVE ClaimInv'
    <2>1. namespace' \in Namespaces
      BY Zenon, <1>0, <1>3 DEF EditNamespace, Namespaces
    <2>2. QED
      BY Zenon, <1>0, <1>3, <2>1, EditCount, UserStep DEF EditNamespace
  <1>4. CASE EditEnable
    <2>1. claim' \in Claims /\ class' \in Classes
      <3>1. [claim EXCEPT !.off = ~@] \in Claims
        BY Zenon, <1>0, ClaimEditTypes
      <3>2. CASE Write([claim EXCEPT !.off = ~@]) /\ UNCHANGED class
        BY Zenon, <1>0, <3>1, <3>2, Writes
      <3>3. CASE class' = [class EXCEPT !.off = TRUE] /\ UNCHANGED claim
        BY Zenon, <1>0, <3>3 DEF Classes
      <3>4. QED
        BY Zenon, <1>4, <3>2, <3>3 DEF EditEnable
    <2>2. QED
      BY Zenon, <1>0, <1>4, <2>1, EditCount, UserStep DEF EditEnable
  <1>5. CASE EditClasses
    <2>1. class' \in Classes
      BY Zenon, <1>0, <1>5 DEF EditClasses, Classes
    <2>2. QED
      BY Zenon, <1>0, <1>5, <2>1, EditCount, UserStep DEF EditClasses
  <1>6. CASE BindClaim
    <2>1. claim' \in Claims
      BY Zenon, <1>0, <1>6, ClaimEditTypes DEF BindClaim
    <2>2. QED
      BY Zenon, <1>0, <1>6, <2>1, UserStep DEF BindClaim
  <1>7. CASE DeleteClaim
    <2>1. claim' \in Claims
      BY Zenon, <1>0, <1>7, ClaimEditTypes DEF DeleteClaim
    <2>2. QED
      BY Zenon, <1>0, <1>7, <2>1, EditCount, UserStep DEF DeleteClaim
  <1>8. QED
    BY Zenon, <1>1, <1>2, <1>3, <1>4, <1>5, <1>6, <1>7, EditChildStep DEF Users

\* The informers, and the connections to the driver.
LEMMA InformerStep ==
  ASSUME ClaimInv, Informers \/ \E op \in Ops : ChangeDriver(op)
  PROVE  ClaimInv'
  <1>0. TypeOK /\ cache \in Caches
    BY Zenon DEF ClaimInv, TypeOK
  <1>1. ASSUME Informer, queued' \in BOOLEAN, claim' \in Claims, cache' \in Caches,
               UNCHANGED <<namespace, class, child>>
        PROVE  ClaimInv'
    <2>1. TypeOK'
      BY Zenon, <1>0, <1>1 DEF TypeOK, Informer, counts
    <2>2. ChildInv'
      BY Zenon, <1>1, SameChildren DEF ClaimInv, Informer, counts
    <2>3. QED
      BY Zenon, <2>1, <2>2 DEF ClaimInv
  <1>2. CASE SyncClaim
    <2>1. claim' \in Claims
      BY Zenon, <1>0, <1>2 DEF SyncClaim, TypeOK, Claims
    <2>2. cache' \in Caches
      BY Zenon, <1>0, <1>2, <2>1 DEF SyncClaim, Caches
    <2>3. queued' \in BOOLEAN
      BY Zenon, <1>2 DEF SyncClaim
    <2>4. QED
      BY Zenon, <1>1, <1>2, <2>1, <2>2, <2>3 DEF SyncClaim
  <1>3. CASE SyncNamespace
    <2>1. cache' \in Caches
      BY Zenon, <1>0, <1>3 DEF SyncNamespace, TypeOK, Caches
    <2>2. QED
      BY Zenon, <1>0, <1>1, <1>3, <2>1 DEF SyncNamespace, TypeOK, stored
  <1>4. CASE SyncClass
    <2>1. cache' \in Caches
      BY Zenon, <1>0, <1>4 DEF SyncClass, TypeOK, Caches
    <2>2. queued' \in BOOLEAN
      BY Zenon, <1>4 DEF SyncClass
    <2>3. QED
      BY Zenon, <1>0, <1>1, <1>4, <2>1, <2>2 DEF SyncClass, TypeOK, stored
  <1>5. ASSUME NEW op \in Ops, NEW n \in Names, SyncChild(op, n) PROVE ClaimInv'
    <2>1. cache' \in Caches
      BY Zenon, <1>0, <1>5 DEF SyncChild, TypeOK, Caches
    <2>2. queued' \in BOOLEAN
      BY Zenon, <1>5 DEF SyncChild
    <2>3. QED
      BY Zenon, <1>0, <1>1, <1>5, <2>1, <2>2 DEF SyncChild, TypeOK, stored
  <1>6. ASSUME NEW op \in Ops, ChangeDriver(op) PROVE ClaimInv'
    <2>1. faults' \in 0..MaxFaults /\ capable' \subseteq Ops
      BY Zenon, <1>0, <1>6, FaultCount DEF ChangeDriver, TypeOK
    <2>2. UNCHANGED <<mode, volume, stored, cache, queued, pc, loc, history, edits>>
      BY Zenon, <1>6 DEF ChangeDriver, control
    <2>3. TypeOK'
      BY Zenon, <1>0, <2>1, <2>2 DEF TypeOK, stored
    <2>4. ChildInv'
      BY Zenon, <2>2, SameChildren DEF ClaimInv, stored
    <2>5. QED
      BY Zenon, <2>3, <2>4 DEF ClaimInv
  <1>7. QED
    BY Zenon, <1>2, <1>3, <1>4, <1>5, <1>6 DEF Informers
-----------------------------------------------------------------------------
(* The ways a step of a reconcile ends.                                    *)

\* The next operation, or the end.
LEMMA Finishes ==
  ASSUME TypeOK, mode = "pvc", mode' = mode, NEW here \in Locals, Finish(here)
  PROVE  ControlOK' /\ pc' \in {"find", "idle"}
  <1>1. CASE here.op = "keyrotation"
    BY Zenon, <1>1, LocalEdits DEF Finish, ControlOK, TypeOK, StepsPVC
  <1>2. CASE here.op # "keyrotation"
    <2>1. Return(here.failed)
      BY Zenon, <1>2 DEF Finish
    <2>2. queued' \in BOOLEAN
      BY Zenon, <2>1 DEF Return
    <2>3. QED
      BY Zenon, <2>1, <2>2, NoLocalsType DEF Return, ControlOK
  <1>3. QED
    BY Zenon, <1>1, <1>2

\* The end of a reconcile.
LEMMA ReturnEnds ==
  ASSUME mode' = mode, NEW again, Return(again)
  PROVE  ControlOK' /\ pc' = "idle"
  <1>1. queued' \in BOOLEAN
    BY Zenon DEF Return
  <1>2. QED
    BY Zenon, <1>1, NoLocalsType DEF Return, ControlOK

\* A failure.
LEMMA Fails ==
  ASSUME TypeOK, mode = "pvc", mode' = mode, Failed
  PROVE  ControlOK' /\ pc' \in {"find", "idle"}
  <1>1. loc \in Locals /\ [loc EXCEPT !.failed = TRUE] \in Locals
    BY Zenon, LocalEdits DEF TypeOK
  <1>2. QED
    BY Zenon, <1>1, Finishes, ReturnEnds DEF Failed

\* Another step.
LEMMA Goes ==
  ASSUME TypeOK, mode' = mode, NEW here \in Locals, NEW step, Goto(step, here),
         step \in IF mode = "pvc" THEN StepsPVC ELSE StepsSC,
         step \in {"delete", "update", "patch", "collect", "change"} => here.child.managed,
         step \in {"update", "patch", "annotate", "create", "make", "change"} => here.sched # "none"
  PROVE  ControlOK' /\ pc' = step /\ loc' = here
  <1>1. pc' = step /\ loc' = here /\ queued' \in BOOLEAN
    BY Zenon DEF Goto, TypeOK
  <1>2. pc' \in {"idle"} \cup (IF mode' = "pvc" THEN StepsPVC ELSE StepsSC)
    BY Zenon, <1>1
  <1>3. QED
    BY Zenon, <1>1, <1>2 DEF ControlOK

\* A schedule that is found is one.
LEMMA Schedule ==
  ASSUME TypeOK, NEW op \in Ops
  PROVE  determineSchedule(op) \in Annotations
  <1>1. \A v \in Annotations : getScheduleFromAnnotation(v) \in Annotations
    BY Zenon DEF getScheduleFromAnnotation, Annotations
  <1>2. getScheduleFromPVC(op) \in Annotations
    <2>1. loc.claim \in Claims
      BY Zenon, LocalEdits DEF TypeOK
    <2>2. loc.claim.sched[op] \in Annotations
      BY Zenon, <2>1 DEF Claims
    <2>3. QED
      BY Zenon, <1>1, <2>2 DEF getScheduleFromPVC
  <1>3. getScheduleFromNS(op) \in Annotations
    BY Zenon, <1>1 DEF TypeOK, getScheduleFromNS, Caches, Namespaces, Annotations
  <1>4. getScheduleFromSC(op) \in Annotations
    BY Zenon, <1>1 DEF TypeOK, getScheduleFromSC, Caches, Classes, Annotations
  <1> DEFINE order == <<getScheduleFromPVC(op), getScheduleFromNS(op), getScheduleFromSC(op)>>
             found == {i \in 1..3 : order[i] # "none"}
  <1>5. \A i \in 1..3 : order[i] \in Annotations
    BY <1>2, <1>3, <1>4
  <1>6. found # {} => Min(found) \in 1..3
    <2>. SUFFICES ASSUME found # {} PROVE Min(found) \in found
      BY Zenon
    <2>1. \E x \in found : \A y \in found : x <= y
      <3>. HIDE DEF order
      <3>1. found \subseteq {1, 2, 3}
        OBVIOUS
      <3>2. QED
        BY <3>1
    <2>2. QED
      BY Zenon, <2>1 DEF Min
  <1>7. "none" \in Annotations
    BY Zenon DEF Annotations
  <1>8. determineSchedule(op) = IF found = {} THEN "none" ELSE order[Min(found)]
    BY Zenon DEF determineSchedule
  <1> HIDE DEF order, found
  <1>9. QED
    BY Zenon, <1>5, <1>6, <1>7, <1>8

\* What is decided about a cron job.
LEMMA Decides ==
  ASSUME TypeOK, mode = "pvc", mode' = mode, NEW here \in Locals, Decide(here)
  PROVE  /\ ControlOK'
         /\ pc' \in {"annotate", "create"} => loc'.op = here.op /\ here.child = Absent
  <1>1. here.child \in Children /\ here.child.managed \in BOOLEAN
    BY Zenon, LocalEdits, ChildTypes
  <1>2. CASE Finish(here)
    BY Zenon, <1>2, Finishes
  <1>3. CASE Failed
    BY Zenon, <1>3, Fails
  <1>4. CASE Goto("delete", here) /\ here.child # Absent /\ ~Unmanaged(here.child)
    BY <1>1, <1>4, Goes DEF Unmanaged, StepsPVC
  <1>5. CASE Goto("forget", here)
    BY <1>5, Goes DEF StepsPVC
  <1>6. CASE /\ here.sched # "none" /\ ~Unmanaged(here.child)
             /\ Goto(IF here.child # Absent THEN "update" ELSE "annotate", here)
    BY <1>1, <1>6, Goes DEF Unmanaged, StepsPVC
  <1>7. QED
    BY Zenon, <1>2, <1>3, <1>4, <1>5, <1>6 DEF Decide
-----------------------------------------------------------------------------
(* PersistentVolumeClaimReconciler.                                        *)

\* A step of a reconcile, put together from its parts.
LEMMA ControllerStep ==
  ASSUME ClaimInv, Steady, ControlOK', StoredOK',
         history' \subseteq Irregularities, faults' \in 0..MaxFaults, ChildInv'
  PROVE  ClaimInv'
  BY Zenon, TypeParts DEF ClaimInv, Steady, TypeOK, StoredOK, ControlOK, StepsPVC, StepsSC

\* What holds before such a step.
LEMMA Before ==
  ASSUME ClaimInv
  PROVE  /\ TypeOK /\ StoredOK /\ ChildInv /\ loc \in Locals /\ loc.op \in Ops /\ loc.name \in Names
         /\ loc.child \in Children /\ loc.sched \in Annotations /\ loc.claim \in Claims
         /\ history \subseteq Irregularities /\ faults \in 0..MaxFaults
         /\ child \in [Ops -> [Names -> Children]] /\ cache \in Caches
  BY Zenon, LocalEdits DEF ClaimInv, TypeOK, StoredOK

\* The claim is read.
LEMMA ReconcileStep == ASSUME ClaimInv, Reconcile PROVE ClaimInv'
  <1>0. mode = "pvc" /\ pc = "idle" /\ Steady /\ UNCHANGED <<stored, history>> /\ mode' = mode
    BY Zenon DEF Reconcile, Steady
  <1>1. faults' \in 0..MaxFaults
    BY Zenon, Before, FaultCount DEF Reconcile
  <1>2. ControlOK' /\ pc' \in {"idle", "find"}
    <2>1. CASE /\ pc' = "find" /\ queued' = FALSE
               /\ loc' = [loc EXCEPT !.claim = cache.claim, !.op = "keyrotation", !.failed = FALSE]
      <3>1. cache.claim \in Claims
        BY Zenon, Before DEF Caches
      <3>2. loc' \in Locals
        BY Zenon, <2>1, <3>1, Before DEF Locals, Ops
      <3>3. QED
        BY Zenon, <1>0, <2>1, <3>2 DEF ControlOK, StepsPVC
    <2>2. CASE queued' = (cache.claim.phase = "Pending") /\ UNCHANGED <<pc, loc>>
      BY Zenon, <1>0, <2>2, Before DEF ControlOK
    <2>3. QED
      BY Zenon, <2>1, <2>2 DEF Reconcile
  <1>3. ChildInv'
    BY Zenon, <1>0, <1>2, Before, SameKids, NoMoreChildren DEF stored
  <1>4. StoredOK'
    BY Zenon, <1>0, Before DEF StoredOK, stored
  <1>5. QED
    BY Zenon, <1>0, <1>1, <1>2, <1>3, <1>4, Before, ControllerStep

\* A step that leaves the cron jobs alone and does not come to a creation.
LEMMA QuietStep ==
  ASSUME ClaimInv, Steady, ControlOK', pc' \notin {"annotate", "create"},
         claim' \in Claims, faults' \in 0..MaxFaults, UNCHANGED <<namespace, class, child, history>>
  PROVE  ClaimInv'
  <1>1. mode' = mode
    BY Zenon DEF Steady
  <1>2. ChildInv'
    BY Zenon, <1>1, Before, SameKids, NoMoreChildren
  <1>3. StoredOK'
    BY Zenon, Before DEF StoredOK
  <1>4. QED
    BY Zenon, <1>2, <1>3, Before, ControllerStep

\* A step after which there are no more cron jobs than before.
LEMMA ChildStep ==
  ASSUME ClaimInv, Steady, ControlOK', pc' \notin {"annotate", "create"},
         NEW op \in Ops, NEW n \in Names, NEW c \in Children,
         child' = [child EXCEPT ![op][n] = c], c = Absent \/ child[op][n] # Absent,
         UNCHANGED <<claim, namespace, class, history, faults>>
  PROVE  ClaimInv'
  <1>1. mode' = mode
    BY Zenon DEF Steady
  <1>2. child' \in [Ops -> [Names -> Children]] /\ \A o \in Ops : Kids(o)' \subseteq Kids(o)
    BY Zenon, Before DEF Kids
  <1>3. ChildInv'
    BY Zenon, <1>1, <1>2, Before, NoMoreChildren
  <1>4. StoredOK'
    BY Zenon, <1>2, Before DEF StoredOK
  <1>5. QED
    BY Zenon, <1>3, <1>4, Before, ControllerStep

\* Cron jobs are looked for, and all but one deleted.
LEMMA FindStep == ASSUME ClaimInv, Find PROVE ClaimInv'
  <1>0. mode = "pvc" /\ pc = "find" /\ Steady /\ mode' = mode /\ UNCHANGED <<claim, namespace, class>>
    BY Zenon DEF Find, Step, Steady
  <1> DEFINE op == loc.op
             jobs == CachedKids(op)
  <1>1. op \in Ops /\ jobs \subseteq Names /\ Own \in Names
        /\ \A n \in Names : cache.child[op][n] \in Children
    BY Before DEF CachedKids, Names, Caches
  <1>2. PICK n \in (IF jobs = {} THEN {Own} ELSE jobs) :
          /\ child' = [child EXCEPT ![op] =
                         [k \in Names |-> IF k \in jobs \ {n} THEN Absent ELSE child[op][k]]]
          /\ Decide([loc EXCEPT !.name = n, !.child = cache.child[op][n],
                                !.sched = determineSchedule(op)])
    BY Zenon, Before DEF Find
  <1>3. n \in Names
    BY Zenon, <1>1, <1>2
  <1> DEFINE here == [loc EXCEPT !.name = n, !.child = cache.child[op][n],
                                 !.sched = determineSchedule(op)]
  <1>4. here \in Locals /\ here.op = op /\ here.child = cache.child[op][n]
    BY Zenon, <1>1, <1>3, Before, Schedule DEF Locals
  <1>5. Decide(here)
    BY Zenon, <1>2
  <1> HIDE DEF here
  <1>6. /\ ControlOK'
        /\ pc' \in {"annotate", "create"} => loc'.op = op /\ cache.child[op][n] = Absent
    BY Zenon, <1>0, <1>4, <1>5, Before, Decides
  <1>7. child' \in [Ops -> [Names -> Children]] /\ \A o \in Ops : Kids(o)' \subseteq Kids(o)
    BY Zenon, <1>1, <1>2, Before, ChildTypes DEF Kids
  <1>8. /\ history' \subseteq Irregularities /\ history \subseteq history' /\ faults' \in 0..MaxFaults
        /\ Regularly' => cache.child[op] = child[op]
    BY Zenon, Before, FaultCount DEF Find, Regular, Regularly, Irregularities
  <1>9. ASSUME NEW o \in Ops, Regularly', pc' \in {"annotate", "create"}, loc'.op = o
        PROVE  Kids(o)' = {}
    <2>1. o = op /\ cache.child[op][n] = Absent /\ cache.child[op] = child[op]
      BY Zenon, <1>6, <1>8, <1>9
    <2>2. n \notin jobs
      BY Zenon, <2>1 DEF CachedKids
    <2>3. jobs = {}
      BY Zenon, <1>2, <2>2
    <2>4. Kids(op) = {}
      BY Zenon, <2>1, <2>3 DEF Kids, CachedKids
    <2>5. QED
      BY Zenon, <1>7, <2>1, <2>4
  <1>10. ChildInv'
    BY Zenon, <1>0, <1>7, <1>8, <1>9, Before, NoMoreChildren
  <1>11. StoredOK'
    BY Zenon, <1>0, <1>7, Before DEF StoredOK
  <1>12. QED
    BY Zenon, <1>0, <1>6, <1>8, <1>10, <1>11, ControllerStep
\* The cron job is deleted.
LEMMA DeleteStep == ASSUME ClaimInv, deleteChildCronJob PROVE ClaimInv'
  <1>0. /\ mode = "pvc" /\ Steady /\ mode' = mode
        /\ UNCHANGED <<claim, namespace, class, history, faults>>
        /\ child' = [child EXCEPT ![loc.op][loc.name] = Absent]
    BY Zenon DEF deleteChildCronJob, Step, Steady, Regular
  <1>1. ControlOK' /\ pc' \notin {"annotate", "create"}
    <2>1. CASE Goto("forget", loc)
      BY <1>0, <2>1, Before, Goes DEF StepsPVC
    <2>2. CASE Finish(loc)
      BY Zenon, <1>0, <2>2, Before, Finishes
    <2>3. QED
      BY Zenon, <2>1, <2>2 DEF deleteChildCronJob
  <1>2. QED
    BY Zenon, <1>0, <1>1, Before, ChildTypes, ChildStep

\* Its name is taken off the claim, or its schedule put there.
LEMMA ClaimWrites ==
  ASSUME ClaimInv, Forget \/ patchAnnotationsToResource PROVE ClaimInv'
  <1>0. /\ mode = "pvc" /\ Steady /\ mode' = mode
        /\ UNCHANGED <<namespace, class, child, history, faults>>
    BY Zenon DEF Forget, patchAnnotationsToResource, Step, Steady, Regular
  <1>1. claim \in Claims
    BY Zenon, Before DEF StoredOK
  <1>2. CASE Forget
    <2>1. claim' \in Claims
      BY Zenon, <1>1, <1>2, Before, ClaimEditTypes DEF Forget
    <2>2. ControlOK' /\ pc' \notin {"annotate", "create"}
      BY Zenon, <1>0, <1>2, Before, Finishes DEF Forget
    <2>3. QED
      BY Zenon, <1>0, <2>1, <2>2, Before, QuietStep
  <1>3. CASE patchAnnotationsToResource
    <2>1. claim' \in Claims
      BY Zenon, <1>1, <1>3, Before, ClaimEditTypes, Writes DEF patchAnnotationsToResource
    <2>2. [loc EXCEPT !.claim = claim'] \in Locals
      BY Zenon, <2>1, Before, LocalEdits
    <2>3. ControlOK' /\ pc' \notin {"annotate", "create"}
      BY Zenon, <1>0, <1>3, <2>2, Before, Finishes DEF patchAnnotationsToResource
    <2>4. QED
      BY <1>0, <2>1, <2>3, Before, QuietStep
  <1>4. QED
    BY Zenon, <1>2, <1>3

\* The cron job is updated.
LEMMA UpdateStep == ASSUME ClaimInv, Update PROVE ClaimInv'
  <1>0. /\ mode = "pvc" /\ pc = "update" /\ Steady /\ mode' = mode
        /\ UNCHANGED <<claim, namespace, class, history, faults>>
        /\ loc.child.managed /\ loc.sched # "none" /\ loc.sched \in Annotations
    BY Zenon, Before DEF Update, Step, Steady, Regular, TypeOK
  <1>1. CASE /\ child[loc.op][loc.name] = loc.child
             /\ child' = [child EXCEPT ![loc.op][loc.name].sched = loc.sched]
             /\ Goto("patch", loc)
    <2>1. loc.child # Absent
      BY Zenon, <1>0, ChildTypes
    <2>2. child' = [child EXCEPT ![loc.op][loc.name] = [loc.child EXCEPT !.sched = loc.sched]]
      BY Zenon, <1>1, Before
    <2>3. [loc.child EXCEPT !.sched = loc.sched] \in Children
      BY Zenon, <1>0, <2>1, Before, ChildEdits
    <2>4. ControlOK' /\ pc' \notin {"annotate", "create"}
      BY <1>0, <1>1, Before, Goes DEF StepsPVC
    <2>5. child[loc.op][loc.name] # Absent /\ loc.op \in Ops /\ loc.name \in Names
      BY Zenon, <1>1, <2>1, Before
    <2>6. QED
      BY Zenon, <1>0, <2>2, <2>3, <2>4, <2>5, ChildStep
  <1>2. CASE Failed /\ UNCHANGED child
    <2>1. ControlOK' /\ pc' \notin {"annotate", "create"}
      BY Zenon, <1>0, <1>2, Before, Fails
    <2>2. QED
      BY Zenon, <1>0, <1>2, <2>1, Before, QuietStep DEF StoredOK
  <1>3. QED
    BY Zenon, <1>1, <1>2 DEF Update

\* The claim gets the name and the schedule of the cron job to be.
LEMMA AnnotateStep == ASSUME ClaimInv, Annotate PROVE ClaimInv'
  <1>0. /\ mode = "pvc" /\ pc = "annotate" /\ Steady /\ mode' = mode
        /\ UNCHANGED <<namespace, class, child, history>>
        /\ loc.sched # "none" /\ loc.sched \in Annotations
    BY Zenon, Before DEF Annotate, Step, Steady, TypeOK
  <1>1. PICK n \in Generated :
          /\ generateCronJobName(loc.op, n)
          /\ Write([claim EXCEPT !.sched[loc.op] = loc.sched, !.name[loc.op] = n])
          /\ Goto("create", [loc EXCEPT !.name = n, !.claim = claim'])
    BY Zenon DEF Annotate
  <1>2. faults' \in 0..MaxFaults
    BY Zenon, <1>1, Before, FaultCount DEF generateCronJobName
  <1>3. claim' \in Claims
    <2>1. [claim EXCEPT !.sched[loc.op] = loc.sched, !.name[loc.op] = n] \in Claims
      BY Zenon, <1>0, Before, ClaimEditTypes DEF StoredOK, Names
    <2>2. QED
      BY Zenon, <1>1, <2>1, Before, Writes
  <1>4. /\ [loc EXCEPT !.name = n, !.claim = claim'] \in Locals
        /\ [loc EXCEPT !.name = n, !.claim = claim'].op = loc.op
        /\ [loc EXCEPT !.name = n, !.claim = claim'].sched = loc.sched
    BY Zenon, <1>3, Before DEF Locals, Names
  <1>5. ControlOK' /\ loc'.op = loc.op
    BY Zenon, <1>0, <1>1, <1>4, Before, Goes DEF StepsPVC
  <1>6. ASSUME NEW o \in Ops, Regularly', loc'.op = o PROVE Kids(o)' = {}
    BY Zenon, <1>0, <1>5, <1>6, Before, SameKids DEF ChildInv, Regularly
  <1>7. ChildInv'
    BY Zenon, <1>0, <1>6, Before, SameKids, NoMoreChildren
  <1>8. StoredOK'
    BY Zenon, <1>0, <1>3, Before DEF StoredOK
  <1>9. QED
    BY Zenon, <1>0, <1>2, <1>5, <1>7, <1>8, Before, ControllerStep

\* A cron job is created where there is none.
LEMMA NewChild ==
  ASSUME ClaimInv, Steady, ControlOK', pc' \notin {"annotate", "create"},
         NEW op \in Ops, NEW n \in Names, NEW c \in Children,
         child' = [child EXCEPT ![op][n] = c],
         Regularly => Kids(op) \subseteq {n}, mode = "storageclass" => n = Own,
         UNCHANGED <<claim, namespace, class, history, faults>>
  PROVE  ClaimInv'
  <1>1. mode' = mode
    BY Zenon DEF Steady
  <1>2. child' \in [Ops -> [Names -> Children]]
        /\ Kids(op)' \subseteq Kids(op) \cup {n}
        /\ \A o \in Ops : o # op => Kids(o)' = Kids(o)
    BY Zenon, Before DEF Kids
  <1>3. ChildInv'
    <2>. SUFFICES ASSUME Regularly', NEW o \in Ops
                  PROVE  /\ \E m \in Names : Kids(o)' \subseteq {m}
                         /\ mode' = "storageclass" => Kids(o)' \subseteq {Own}
      BY Zenon DEF ChildInv
    <2>1. Regularly
      BY Zenon DEF Regularly
    <2>2. CASE o = op
      BY Zenon, <1>1, <1>2, <2>1, <2>2
    <2>3. CASE o # op
      BY Zenon, <1>1, <1>2, <2>1, <2>3, Before DEF ChildInv
    <2>4. QED
      BY Zenon, <2>2, <2>3
  <1>4. StoredOK'
    BY Zenon, <1>2, Before DEF StoredOK
  <1>5. QED
    BY Zenon, <1>3, <1>4, Before, ControllerStep

\* The cron job is created.
LEMMA CreateStep == ASSUME ClaimInv, Create PROVE ClaimInv'
  <1>0. /\ mode = "pvc" /\ pc = "create" /\ Steady /\ mode' = mode
        /\ UNCHANGED <<claim, namespace, class, history, faults>>
        /\ loc.sched # "none" /\ loc.sched \in Annotations
    BY Zenon, Before DEF Create, Step, Steady, Regular, TypeOK
  <1>1. CASE /\ child' = [child EXCEPT ![loc.op][loc.name] = constructCronJob(loc.sched)]
             /\ Finish(loc)
    <2>1. constructCronJob(loc.sched) \in Children
      BY Zenon, <1>0, ChildTypes DEF constructCronJob
    <2>2. Regularly => Kids(loc.op) = {}
      BY Zenon, <1>0, Before DEF ChildInv
    <2>3. ControlOK' /\ pc' \notin {"annotate", "create"}
      BY Zenon, <1>0, <1>1, Before, Finishes
    <2>4. QED
      BY Zenon, <1>0, <1>1, <2>1, <2>2, <2>3, Before, NewChild
  <1>2. CASE Failed /\ UNCHANGED child
    <2>1. ControlOK' /\ pc' \notin {"annotate", "create"}
      BY Zenon, <1>0, <1>2, Before, Fails
    <2>2. QED
      BY Zenon, <1>0, <1>2, <2>1, Before, QuietStep DEF StoredOK
  <1>3. QED
    BY Zenon, <1>1, <1>2 DEF Create

-----------------------------------------------------------------------------
(* PVCReconiler, failures and restarts.                                    *)

\* The next operation, or the end.
LEMMA NextFeatures ==
  ASSUME TypeOK, mode = "storageclass", mode' = mode, NEW here \in Locals, NextFeature(here)
  PROVE  ControlOK' /\ pc' \in {"feature", "idle"}
  <1>1. CASE Goto("feature", [here EXCEPT !.op = "reclaimspace"])
    BY Zenon, <1>1, LocalEdits, Goes DEF StepsSC
  <1>2. CASE Return(FALSE)
    BY Zenon, <1>2, ReturnEnds
  <1>3. QED
    BY Zenon, <1>1, <1>2 DEF NextFeature

\* Claim and class are read, and it is decided what to do.
LEMMA FeatureStep ==
  ASSUME ClaimInv, ReconcilePVC \/ reconcileFeature PROVE ClaimInv'
  <1>0. mode = "storageclass" /\ Steady /\ mode' = mode /\ UNCHANGED <<stored, history, faults>>
    BY Zenon DEF ReconcilePVC, reconcileFeature, Steady, Regular
  <1>1. CASE ReconcilePVC
    <2>1. ControlOK' /\ pc' \in {"feature", "idle"}
      <3>1. CASE /\ pc' = "feature" /\ queued' = FALSE
                 /\ loc' = [loc EXCEPT !.claim = cache.claim, !.class = cache.class,
                                       !.op = "keyrotation"]
        <4>1. cache.claim \in Claims /\ cache.class \in Classes
          BY Zenon, Before DEF Caches
        <4>2. loc' \in Locals
          BY Zenon, <3>1, <4>1, Before DEF Locals, Ops
        <4>3. QED
          BY Zenon, <1>0, <3>1, <4>2 DEF ControlOK, StepsSC
      <3>2. CASE queued' = (cache.claim.phase = "Pending") /\ UNCHANGED <<pc, loc>>
        BY Zenon, <1>0, <1>1, <3>2, Before DEF ControlOK, ReconcilePVC
      <3>3. QED
        BY Zenon, <1>1, <3>1, <3>2 DEF ReconcilePVC
    <2>2. QED
      BY Zenon, <1>0, <2>1, Before, QuietStep DEF StoredOK, stored
  <1>2. CASE reconcileFeature
    <2> DEFINE op == loc.op
               found == cache.child[op][Own]
               here == [loc EXCEPT !.child = found, !.sched = loc.class.sched[op]]
    <2>1. found \in Children /\ loc.class.sched[op] \in Annotations
      <3>1. loc.class \in Classes /\ Own \in Names
        BY Zenon, Before, LocalEdits DEF Names
      <3>2. QED
        BY <3>1, Before DEF Caches, Classes
    <2>2. here \in Locals /\ here.child = found /\ here.sched = loc.class.sched[op]
      BY Zenon, <2>1, Before DEF Locals
    <2>3. CASE NextFeature(loc)
      <3>1. ControlOK' /\ pc' \notin {"annotate", "create"}
        BY Zenon, <1>0, <2>3, Before, NextFeatures
      <3>2. QED
        BY Zenon, <1>0, <3>1, Before, QuietStep DEF StoredOK, stored
    <2>4. ASSUME NEW step \in {"make", "collect", "change"}, Goto(step, here),
                 step # "make" => found # Absent /\ ~Unmanaged(found),
                 step # "collect" => here.sched # "none"
          PROVE  ClaimInv'
      <3>1. step # "make" => found.managed
        BY Zenon, <2>1, <2>4, ChildTypes DEF Unmanaged
      <3>2. ControlOK' /\ pc' = step
        <4> HIDE DEF here
        <4>1. QED
          BY Zenon, <1>0, <2>2, <2>4, <3>1, Before, Goes DEF StepsSC
      <3>3. QED
        BY Zenon, <1>0, <2>4, <3>2, Before, QuietStep DEF StoredOK, stored
    <2>5. QED
      BY Zenon, <1>2, <2>2, <2>3, <2>4 DEF reconcileFeature
  <1>3. QED
    BY <1>1, <1>2

\* The write.
LEMMA FeatureWrites == ASSUME ClaimInv, writeFeature PROVE ClaimInv'
  <1>0. /\ mode = "storageclass" /\ Steady /\ mode' = mode
        /\ UNCHANGED <<claim, namespace, class, history, faults>>
        /\ pc \in {"make", "change"} => loc.sched # "none" /\ loc.sched \in Annotations
        /\ Own \in Names
    BY Zenon, Before DEF writeFeature, Steady, Regular, TypeOK, Names
  <1> DEFINE now == child[loc.op][Own]
  <1>1. ASSUME NEW c \in Children, child' = [child EXCEPT ![loc.op][Own] = c], NextFeature(loc)
        PROVE  ClaimInv'
    <2>1. ControlOK' /\ pc' \notin {"annotate", "create"}
      BY Zenon, <1>0, <1>1, Before, NextFeatures
    <2>2. Regularly => Kids(loc.op) \subseteq {Own}
      BY Zenon, <1>0, Before DEF ChildInv
    <2>3. QED
      BY Zenon, <1>0, <1>1, <2>1, <2>2, Before, NewChild
  <1>2. pc \in {"make", "change"} => SetSpec(loc.sched) \in Children
    BY Zenon, <1>0, ChildTypes DEF SetSpec
  <1>3. now \in Children
    BY Zenon, <1>0, Before
  <1>4. CASE Return(TRUE) /\ UNCHANGED child
    <2>1. ControlOK' /\ pc' \notin {"annotate", "create"}
      BY Zenon, <1>0, <1>4, ReturnEnds
    <2>2. QED
      BY Zenon, <1>0, <1>4, <2>1, Before, QuietStep DEF StoredOK
  <1>5. QED
    BY Zenon, <1>1, <1>2, <1>3, <1>4, ChildTypes DEF writeFeature

\* A call fails.
LEMMA ErrorStep == ASSUME ClaimInv, ApiError PROVE ClaimInv'
  <1>0. Steady /\ mode' = mode /\ UNCHANGED <<stored, history>>
    BY Zenon DEF ApiError, Steady
  <1>1. faults' \in 0..MaxFaults
    BY Zenon, Before, FaultCount DEF ApiError
  <1>2. ControlOK' /\ pc' \notin {"annotate", "create"}
    BY Zenon, <1>0, Before, Fails, ReturnEnds DEF ApiError
  <1>3. QED
    BY Zenon, <1>0, <1>1, <1>2, Before, QuietStep DEF StoredOK, stored

\* The manager restarts.
LEMMA RestartStep == ASSUME ClaimInv, Restart PROVE ClaimInv'
  <1>0. "keyrotation" \in Ops /\ claim \in Claims /\ namespace \in Namespaces /\ class \in Classes
        /\ child \in [Ops -> [Names -> Children]] /\ claim' = [claim EXCEPT !.news = FALSE]
    BY Zenon, Before DEF Ops, StoredOK, Restart
  <1>1. /\ claim' \in Claims /\ pc' = "idle" /\ queued' = TRUE /\ loc' \in Locals
        /\ UNCHANGED <<volume, namespace, class, child, capable, edits>>
    BY Zenon, <1>0, NoLocalsType, ClaimEditTypes DEF Restart
  <1>2. cache' \in Caches
    <2>1. cache' = [claim |-> claim', namespace |-> namespace, class |-> class, child |-> child]
      BY Zenon DEF Restart
    <2>2. QED
      BY Zenon, <1>0, <1>1, <2>1 DEF Caches
  <1>3. faults' \in 0..MaxFaults /\ history' \subseteq Irregularities /\ mode' \in Modes
    <2>1. mode \in Modes /\ history \subseteq Irregularities /\ "switch" \in Irregularities
      BY Zenon, Before DEF TypeOK, Irregularities
    <2>2. QED
      BY Zenon, <2>1, Before, FaultCount DEF Restart
  <1>4. TypeOK'
    BY Zenon, <1>1, <1>2, <1>3, Before DEF TypeOK
  <1>5. ChildInv'
    <2>1. CASE "switch" \in history'
      BY Zenon, <2>1 DEF ChildInv, Regularly
    <2>2. CASE UNCHANGED <<mode, history>>
      BY Zenon, <1>1, <2>2, Before, SameKids, NoMoreChildren
    <2>3. QED
      BY Zenon, <2>1, <2>2 DEF Restart
  <1>6. QED
    BY Zenon, <1>4, <1>5 DEF ClaimInv
-----------------------------------------------------------------------------
(* The theorems.                                                           *)

\* The inductive invariant.
LEMMA ClaimInvariant == Spec => []ClaimInv
  <1>1. Init => ClaimInv
    <2>. SUFFICES ASSUME Init PROVE ClaimInv
      BY Zenon
    <2>1. /\ mode \in Modes /\ volume \in Volumes /\ claim \in Claims /\ namespace \in Namespaces
          /\ class \in Classes /\ capable \subseteq Ops
      BY Zenon, ClaimAssumption DEF Init
    <2>2. child \in [Ops -> [Names -> Children]]
      BY Zenon, ChildTypes DEF Init
    <2>3. cache = [claim |-> claim, namespace |-> namespace, class |-> class, child |-> child]
      BY Zenon DEF Init
    <2>4. cache \in Caches
      BY Zenon, <2>1, <2>2, <2>3 DEF Caches
    <2>5. 0 \in 0..MaxEdits /\ 0 \in 0..MaxFaults
      BY ClaimAssumption
    <2>6. TypeOK
      BY Zenon, <2>1, <2>2, <2>4, <2>5, NoLocalsType DEF Init, TypeOK
    <2>7. \A op \in Ops : Kids(op) = {}
      BY Zenon DEF Init, Kids
    <2>8. ChildInv
      BY Zenon, <2>7 DEF ChildInv, Names
    <2>9. QED
      BY Zenon, <2>6, <2>8 DEF ClaimInv
  <1>2. ClaimInv /\ [Next]_vars => ClaimInv'
    <2>. SUFFICES ASSUME ClaimInv, [Next]_vars PROVE ClaimInv'
      BY Zenon
    <2>1. CASE UNCHANGED vars
      <3>1. UNCHANGED <<mode, volume, claim, namespace, class, child, cache, capable, queued, pc, loc,
                        history, edits, faults>>
        BY Zenon, <2>1 DEF vars, stored, control, counts
      <3>2. TypeOK'
        BY Zenon, <3>1, Before DEF TypeOK
      <3>3. QED
        BY Zenon, <3>1, <3>2, Before, SameChildren DEF ClaimInv
    <2>2. CASE Controller
      BY Zenon, <2>2, ReconcileStep, FindStep, DeleteStep, ClaimWrites, UpdateStep, AnnotateStep,
         CreateStep,
         FeatureStep, FeatureWrites DEF Controller, processKeyRotation, processReclaimSpace
    <2>3. QED
      BY Zenon, <2>1, <2>2, UsersStep, InformerStep, ErrorStep, RestartStep DEF Next
  <1>3. QED
    BY <1>1, <1>2, PTL DEF Spec

\* Type correctness: in particular, no write is under way for a cron job that was
\* unmanaged when it was read, or without a schedule.
THEOREM TypeCorrect == Spec => []TypeOK
  <1>1. ClaimInv => TypeOK
    BY Zenon DEF ClaimInv
  <1>2. QED
    BY <1>1, ClaimInvariant, PTL

\* As long as the lists have been up to date, a claim has at most one cron job for
\* each operation (findChildCronJob, processReclaimSpace, reconcileFeature).
THEOREM AtMostOneChild == Spec => []OneChild
  <1>1. ClaimInv => OneChild
    <2>. SUFFICES ASSUME ClaimInv, Regularly, NEW op \in Ops PROVE Cardinality(Kids(op)) <= 1
      BY Zenon DEF OneChild, Regularly
    <2>1. PICK n \in Names : Kids(op) \subseteq {n}
      BY Zenon DEF ClaimInv, ChildInv
    <2>2. Kids(op) = {} \/ Kids(op) = {n}
      BY Zenon, <2>1
    <2>3. Cardinality({}) = 0 /\ Cardinality({n}) = 1
      BY Zenon, FS_EmptySet, FS_Singleton
    <2>4. QED
      BY <2>2, <2>3
  <1>2. QED
    BY <1>1, ClaimInvariant, PTL

\* Only users change the schedule of a cron job that is unmanaged at that moment
\* (processReclaimSpace, processKeyRotation, reconcileFeature).
THEOREM UnmanagedIsLeft == Spec => UnmanagedNotUpdated
  <1>1. ClaimInv /\ [Next]_vars =>
          [\A op \in Ops, n \in Names :
             /\ Unmanaged(child[op][n])
             /\ child'[op][n] \notin {Absent, child[op][n]}
             => edits' # edits]_vars
    <2>. SUFFICES ASSUME ClaimInv, [Next]_vars, NEW op \in Ops, NEW n \in Names,
                         Unmanaged(child[op][n]), child'[op][n] \notin {Absent, child[op][n]}
                  PROVE  edits' # edits
      BY Zenon
    <2>0. child \in [Ops -> [Names -> Children]] /\ loc.op \in Ops /\ loc.name \in Names /\ TypeOK
      BY Zenon, Before
    <2>1. child' # child
      BY Zenon
    <2>2. ASSUME NEW kind, Edit(kind) PROVE edits' # edits
      <3>0. edits \in 0..MaxEdits
        BY <2>0, Zenon DEF TypeOK
      <3>1. edits \in Int
        BY <3>0
      <3>2. edits' = edits + 1
        BY Zenon, <2>2 DEF Edit
      <3>3. QED
        BY <3>1, <3>2
    <2>3. CASE Users
      BY Zenon, <2>1, <2>2, <2>3
      DEF Users, EditClaim, EditClass, EditNamespace, EditChild, EditEnable,
         EditClasses, BindClaim, DeleteClaim
    <2>4. CASE Find
      <3>1. PICK jobs, m :
              child' = [child EXCEPT ![loc.op] =
                          [k \in Names |-> IF k \in jobs \ {m} THEN Absent ELSE child[loc.op][k]]]
        BY <2>0, <2>4 DEF Find
      <3>2. QED
        BY Zenon, <2>0, <3>1
    <2>5. CASE deleteChildCronJob
      BY Zenon, <2>0, <2>5 DEF deleteChildCronJob
    <2>6. CASE Update
      <3>1. pc = "update" /\ loc.child.managed
        BY Zenon, <2>0, <2>6 DEF Update, Step, TypeOK
      <3>2. /\ child[loc.op][loc.name] = loc.child
            /\ child' = [child EXCEPT ![loc.op][loc.name].sched = loc.sched]
        BY Zenon, <2>1, <2>6 DEF Update
      <3>3. op = loc.op /\ n = loc.name
        BY Zenon, <2>0, <3>2
      <3>4. QED
        BY Zenon, <3>1, <3>2, <3>3 DEF Unmanaged
    <2>7. CASE Create
      <3>1. /\ child[loc.op][loc.name] = Absent
            /\ child' = [child EXCEPT ![loc.op][loc.name] = constructCronJob(loc.sched)]
        BY Zenon, <2>1, <2>7 DEF Create
      <3>2. QED
        BY Zenon, <2>0, <3>1 DEF Unmanaged
    <2>8. CASE writeFeature
      <3>0. Own \in Names
        BY Zenon DEF Names
      <3>1. CASE pc = "collect"
        <4>1. child' = [child EXCEPT ![loc.op][Own] = Absent]
          BY Zenon, <2>8, <3>1 DEF writeFeature
        <4>2. QED
          BY Zenon, <2>0, <3>0, <4>1
      <3>2. CASE pc = "make"
        <4>1. child' = [child EXCEPT ![loc.op][Own] =
                          IF child[loc.op][Own] = Absent THEN SetSpec(loc.sched)
                          ELSE child[loc.op][Own]]
          BY Zenon, <2>8, <3>2 DEF writeFeature
        <4>2. op = loc.op /\ n = Own /\ child[loc.op][Own] = Absent
          BY Zenon, <2>0, <3>0, <4>1
        <4>3. QED
          BY Zenon, <4>2 DEF Unmanaged
      <3>3. CASE pc = "change"
        <4>1. loc.child.managed
          BY Zenon, <2>0, <3>3 DEF TypeOK
        <4>2. /\ child[loc.op][Own] = loc.child
              /\ child' = [child EXCEPT ![loc.op][Own] = SetSpec(loc.sched)]
          BY Zenon, <2>1, <2>8, <3>3 DEF writeFeature
        <4>3. op = loc.op /\ n = Own
          BY Zenon, <2>0, <3>0, <4>2
        <4>4. QED
          BY Zenon, <4>1, <4>2, <4>3 DEF Unmanaged
      <3>4. QED
        BY Zenon, <2>8, <3>1, <3>2, <3>3 DEF writeFeature
    <2>9. CASE Forget \/ patchAnnotationsToResource \/ Annotate \/ Reconcile \/ ReconcilePVC
               \/ reconcileFeature
      BY Zenon, <2>1, <2>9
      DEF Forget, patchAnnotationsToResource, Annotate, Reconcile, ReconcilePVC,
         reconcileFeature, stored
    <2>10. CASE Informers \/ ApiError \/ Restart \/ (\E o \in Ops : ChangeDriver(o)) \/ UNCHANGED vars
      BY Zenon, <2>1, <2>10
      DEF Informers, SyncClaim, SyncNamespace, SyncClass, SyncChild, ApiError, Restart,
         ChangeDriver, vars, stored
    <2>11. QED
      BY Zenon, <2>3, <2>4, <2>5, <2>6, <2>7, <2>8, <2>9, <2>10
      DEF Next, Controller, processKeyRotation,
         processReclaimSpace
  <1>2. QED
    BY <1>1, ClaimInvariant, PTL DEF Spec, UnmanagedNotUpdated
=============================================================================
