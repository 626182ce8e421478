--------------------------- MODULE ClaimSchedule ---------------------------
(***************************************************************************)
(* The cron jobs of a PersistentVolumeClaim.  Users set the schedules of   *)
(* the two operations by annotations of the claim, of its namespace and of *)
(* its storage class; one of two controllers keeps a cron job for each     *)
(* operation.  Which one runs is the schedule-precedence of the manager:   *)
(*   "pvc"           PersistentVolumeClaimReconciler: cron jobs have names *)
(*                   of their own and are found by their owner; the        *)
(*                   schedule found is written to the claim;               *)
(*   "storageclass"  PVCReconiler: cron jobs are named after the claim and *)
(*                   only the storage class counts.                        *)
(* Either reads the informers' copies and writes to the API server.        *)
(***************************************************************************)
EXTENDS Integers, FiniteSets, FiniteSetsExt

CONSTANTS Own,           \* name of the cron job with a name after the claim
          Generated,     \* the other names a cron job may get
          Schedules,     \* valid schedules
          Invalid,       \* what is not a schedule
          Initial,       \* the configurations a behaviour may start in
          Edits, MaxEdits,    \* what users do, and how often
          Faults, MaxFaults   \* what goes wrong, and how often

Ops == {"keyrotation", "reclaimspace"}
Names == Generated \cup {Own}
Weekly == "@weekly"
Modes == {"pvc", "storageclass"}
Volumes == {"csi", "static", "other"}

ClaimEdits == {"claim", "class", "namespace", "enable", "classes", "child", "delete"}
ClaimFaults == {"api", "crash", "switch", "lag", "second", "driver"}

VARIABLES mode,       \* schedule-precedence of the running manager
          volume,     \* provisioned by CSI, static, or of another kind
          claim, namespace, class,
          child,      \* the cron jobs of each operation, by name
          cache,      \* the informers' copies of these
          capable,    \* operations of which the pool has a capable connection
          queued, pc, loc,
          history,    \* what happened that properties make an exception for
          edits, faults

stored == <<claim, namespace, class, child>>
control == <<queued, pc, loc>>
counts == <<history, edits, faults>>
vars == <<mode, volume, stored, cache, capable, control, counts>>

Annotations == {Invalid, Weekly, "none"} \cup Schedules
Absent == [sched |-> "none", managed |-> FALSE]
Children == [sched : Annotations \ {"none"}, managed : BOOLEAN] \cup {Absent}

\* "off" is the annotation that sets keyrotation enable to false; "news" that
\* the informer has a change of the annotations to deliver.
Claims == [phase : {"Pending", "Bound", "Deleting"}, off : BOOLEAN, news : BOOLEAN,
           sched : [Ops -> Annotations], name : [Ops -> Names \cup {"none"}]]
Namespaces == [off : BOOLEAN, sched : [Ops -> Annotations]]
Classes == [exists : BOOLEAN, off : BOOLEAN, sched : [Ops -> Annotations]]
Caches == [claim : Claims, namespace : Namespaces, class : Classes,
           child : [Ops -> [Names -> Children]]]

\* What Reconcile holds: its copy of the claim (and of the class, for the
\* controller that reads it first), the operation it is at, the cron job found
\* for it, the schedule it is to have, and whether the first operation failed.
Locals == [claim : Claims, class : Classes, op : Ops, name : Names,
           child : Children, sched : Annotations, failed : BOOLEAN]

NoLocals ==
  [claim |-> [phase |-> "Pending", off |-> FALSE, news |-> FALSE, 
              sched |-> [op \in Ops |-> "none"], name |-> [op \in Ops |-> "none"]],
   class |-> [exists |-> FALSE, off |-> FALSE, sched |-> [op \in Ops |-> "none"]],
   op |-> "keyrotation", name |-> Own, child |-> Absent, sched |-> "none", failed |-> FALSE]

\* A list was behind, the precedence was switched, or a managed cron job of an
\* operation was edited.
Irregularities == {"lag", "switch"} \cup Ops

ASSUME ClaimAssumption ==
  /\ Own \notin Generated /\ Generated # {}
  /\ Invalid \notin Schedules \cup {Weekly, "none"} /\ "none" \notin Schedules
  /\ \A i \in Initial : /\ i.mode \in Modes /\ i.volume \in Volumes
                        /\ i.claim \in Claims /\ i.namespace \in Namespaces
                        /\ i.class \in Classes /\ i.capable \subseteq Ops
  /\ Edits \subseteq ClaimEdits /\ MaxEdits \in Nat
  /\ Faults \subseteq ClaimFaults /\ MaxFaults \in Nat

Kids(op) == {n \in Names : child[op][n] # Absent}

\* Those the index by owner gives; of a variant, that looks for another kind of owner.
CachedKids_none(op) == {}

CachedKids(op) == {n \in Names : cache.child[op][n] # Absent}

Unmanaged(c) == c # Absent /\ ~c.managed

AnnotationValueChanged(old, new) == old.sched # new.sched \/ old.off # new.off

\* The claim is changed to this.
Write(new) == claim' = [new EXCEPT !.news = @ \/ AnnotationValueChanged(claim, new)]

Edit(kind) ==
  /\ kind \in Edits
  /\ edits < MaxEdits
  /\ edits' = edits + 1

Fault(kind) ==
  /\ kind \in Faults
  /\ faults < MaxFaults
  /\ faults' = faults + 1

-----------------------------------------------------------------------------
(* Users.                                                                  *)

User == UNCHANGED <<mode, volume, cache, capable, pc, loc, faults>>
Edited == User /\ UNCHANGED <<queued, history>>

\* A schedule is set, changed or removed, on any of the three.
EditClaim(op, value) ==
  /\ Edit("claim")
  /\ claim.sched[op] # value
  /\ Write([claim EXCEPT !.sched[op] = value])
  /\ Edited /\ UNCHANGED <<namespace, class, child>>

EditClass(op, value) ==
  /\ Edit("class")
  /\ class.exists /\ class.sched[op] # value
  /\ class' = [class EXCEPT !.sched[op] = value]
  /\ Edited /\ UNCHANGED <<claim, namespace, child>>

EditNamespace(op, value) ==
  /\ Edit("namespace")
  /\ namespace.sched[op] # value
  /\ namespace' = [namespace EXCEPT !.sched[op] = value]
  /\ Edited /\ UNCHANGED <<claim, class, child>>

\* Key rotation is switched off, or on again, for the claim, or off for the class.
EditEnable ==
  /\ Edit("enable")
  /\ \/ Write([claim EXCEPT !.off = ~@]) /\ UNCHANGED class
     \/ /\ class.exists /\ ~class.off
        /\ class' = [class EXCEPT !.off = TRUE] /\ UNCHANGED claim
  /\ Edited /\ UNCHANGED <<namespace, child>>

\* The storage class is deleted, or created.
EditClasses ==
  /\ Edit("classes")
  /\ class' = [class EXCEPT !.exists = ~@]
  /\ Edited /\ UNCHANGED <<claim, namespace, child>>

\* A cron job is marked unmanaged, gets a schedule of its own, or is deleted; if
\* the informer has not seen it yet, it sees both changes together.
EditChild(op, n) ==
  /\ Edit("child")
  /\ n \in Kids(op)
  /\ \/ child' = [child EXCEPT ![op][n].managed = ~@]
     \/ \E s \in (Schedules \cup {Weekly}) \ {child[op][n].sched} :
          child' = [child EXCEPT ![op][n].sched = s]
     \/ child' = [child EXCEPT ![op][n] = Absent]
  /\ history' = history \cup {o \in {op} : child'[op][n].managed}
  /\ queued' = (queued \/ /\ child'[op][n] = cache.child[op][n]
                          /\ mode = "storageclass" \/ child'[op][n] = Absent)
  /\ User /\ UNCHANGED <<claim, namespace, class>>

BindClaim ==
  /\ claim.phase = "Pending"
  /\ claim' = [claim EXCEPT !.phase = "Bound"]
  /\ Edited /\ UNCHANGED <<namespace, class, child, edits>>

DeleteClaim ==
  /\ Edit("delete")
  /\ claim.phase # "Deleting"
  /\ claim' = [claim EXCEPT !.phase = "Deleting"]
  /\ Edited /\ UNCHANGED <<namespace, class, child>>

\* The node controller gets or loses a connection to the driver.
ChangeDriver(op) ==
  /\ Fault("driver")
  /\ capable' = (capable \ {op}) \cup ({op} \ capable)
  /\ UNCHANGED <<mode, volume, stored, cache, control, history, edits>>

-----------------------------------------------------------------------------
(* The informers and the event filters.                                    *)

Informer == UNCHANGED <<mode, volume, capable, pc, loc, counts>>

\* PersistentVolumeClaimReconciler looks at updates of the annotations only;
\* PVCReconiler at all of them.
SyncClaim ==
  /\ cache.claim # claim
  /\ claim' = [claim EXCEPT !.news = FALSE]
  /\ cache' = [cache EXCEPT !.claim = claim']
  /\ queued' = (queued \/ mode = "storageclass" \/ claim.news)
  /\ Informer /\ UNCHANGED <<namespace, class, child>>

\* Nobody watches namespaces: the copy is there to be read.
SyncNamespace ==
  /\ cache.namespace # namespace
  /\ cache' = [cache EXCEPT !.namespace = namespace]
  /\ Informer /\ UNCHANGED <<queued, stored>>

\* An annotation of the class which the claim has not, or has another value of.
annotationValueMissingOrDiff(cls, clm) ==
  \/ \E op \in Ops : cls.sched[op] \notin {"none", clm.sched[op]}
  \/ cls.off /\ ~clm.off

\* The claims a change of the class queues, of the two controllers.
storageClassEventHandler ==
  annotationValueMissingOrDiff(IF class.exists THEN class ELSE cache.class, cache.claim)

StorageClassPredicate ==
  \/ class.exists # cache.class.exists
  \/ AnnotationValueChanged(cache.class, class)

SyncClass ==
  /\ cache.class # class
  /\ cache' = [cache EXCEPT !.class = class]
  /\ queued' = (queued \/ /\ volume # "static"
                          /\ StorageClassPredicate
                          /\ mode = "pvc" => storageClassEventHandler)
  /\ Informer /\ UNCHANGED stored

SyncChild_filtered(op, n) ==
  /\ cache.child[op][n] # child[op][n]
  /\ cache' = [cache EXCEPT !.child[op][n] = child[op][n]]
  /\ queued' = (queued \/ Absent \in {child[op][n], cache.child[op][n]})
  /\ Informer /\ UNCHANGED stored

\* The annotation filter holds for the cron jobs as well: the creation and the
\* deletion of one queue its claim, and updates do for PVCReconiler alone.
SyncChild(op, n) ==
  /\ cache.child[op][n] # child[op][n]
  /\ cache' = [cache EXCEPT !.child[op][n] = child[op][n]]
  /\ queued' = (queued \/ mode = "storageclass"
                       \/ Absent \in {child[op][n], cache.child[op][n]})
  /\ Informer /\ UNCHANGED stored

-----------------------------------------------------------------------------
(* PersistentVolumeClaimReconciler.                                        *)

Steady == UNCHANGED <<mode, volume, cache, capable, edits>>
Regular == UNCHANGED <<history, faults>>

Return(again) ==
  /\ pc' = "idle"
  /\ loc' = NoLocals
  /\ queued' = (queued \/ again)

Finish_forgets(here) ==
  IF here.op = "keyrotation"
  THEN /\ pc' = "find"
       /\ loc' = [here EXCEPT !.op = "reclaimspace"]
       /\ UNCHANGED queued
  ELSE Return(FALSE)

\* Key rotation goes first; its failure is remembered, the other's is returned.
Finish(here) ==
  IF here.op = "keyrotation"
  THEN /\ pc' = "find"
       /\ loc' = [here EXCEPT !.op = "reclaimspace"]
       /\ UNCHANGED queued
  ELSE Return(here.failed)

Failed ==
  IF loc.op = "keyrotation"
  THEN Finish([loc EXCEPT !.failed = TRUE])
  ELSE Return(TRUE)

Goto(step, here) ==
  /\ pc' = step
  /\ loc' = here
  /\ UNCHANGED queued

\* The claim is read; one that is not bound yet is looked at again and again.
\* That the copy is behind counts as a fault.
Reconcile ==
  /\ mode = "pvc" /\ pc = "idle" /\ queued
  /\ \/ cache.claim = claim /\ UNCHANGED faults
     \/ cache.claim # claim /\ Fault("lag")
  /\ IF cache.claim.phase = "Bound" /\ volume # "other"
     THEN /\ pc' = "find"
          /\ queued' = FALSE
          /\ loc' = [loc EXCEPT !.claim = cache.claim, !.op = "keyrotation", !.failed = FALSE]
     ELSE /\ queued' = (cache.claim.phase = "Pending")
          /\ UNCHANGED <<pc, loc>>
  /\ Steady /\ UNCHANGED <<stored, history>>

\* A schedule that cannot be parsed is replaced by the default.
getScheduleFromAnnotation(value) == IF value = Invalid THEN Weekly ELSE value

getScheduleFromPVC(op) == getScheduleFromAnnotation(loc.claim.sched[op])

\* The schedule of the namespace is for drivers that are known to be capable.
\* The wish for another look at the rest of them is never expressed: the list
\* of drivers is searched for the key of the annotation, not for the driver.
getScheduleFromNS(op) ==
  IF op \in capable THEN getScheduleFromAnnotation(cache.namespace.sched[op]) ELSE "none"

getScheduleFromSC(op) ==
  IF volume # "static" /\ cache.class.exists
  THEN getScheduleFromAnnotation(cache.class.sched[op])
  ELSE "none"

\* The claim goes before its namespace, and the namespace before the class.
determineSchedule(op) ==
  LET order == <<getScheduleFromPVC(op), getScheduleFromNS(op), getScheduleFromSC(op)>>
      found == {i \in 1..3 : order[i] # "none"}
  IN  IF found = {} THEN "none" ELSE order[Min(found)]

\* Only key rotation can be disabled; to know, it needs the class of the claim.
checkDisabledByAnnotation(op) ==
  /\ op = "keyrotation"
  /\ \/ loc.claim.off
     \/ cache.namespace.off
     \/ volume # "static" /\ cache.class.exists /\ cache.class.off

ClassMissing(op) ==
  /\ op = "keyrotation"
  /\ ~loc.claim.off /\ ~cache.namespace.off
  /\ volume # "static" /\ ~cache.class.exists

\* What is to be done about the cron job found, or about there being none.  The
\* specification found is never the one constructed: the API server fills in a
\* concurrency policy.  So a cron job that is there is updated in any case.
Decide(here) ==
  IF Unmanaged(here.child) THEN Finish(here)
  ELSE IF ClassMissing(here.op) THEN Failed
  ELSE IF checkDisabledByAnnotation(here.op) \/ here.sched = "none"
  THEN IF here.child # Absent THEN Goto("delete", here)
       ELSE IF here.op = "reclaimspace" /\ here.claim.name[here.op] # "none"
            THEN Goto("forget", here)
            ELSE Finish(here)
  ELSE Goto(IF here.child # Absent THEN "update" ELSE "annotate", here)

Step(at) == mode = "pvc" /\ pc = at /\ Steady

\* The cron jobs of the claim are listed, in no particular order; the first one
\* stays and the rest is deleted.  A list that is behind counts as a fault.
Find ==
  /\ Step("find")
  /\ \/ cache.child[loc.op] = child[loc.op] /\ Regular
     \/ /\ cache.child[loc.op] # child[loc.op]
        /\ Fault("lag") /\ history' = history \cup {"lag"}
  /\ LET op == loc.op
         jobs == CachedKids(op)
     IN  \E n \in IF jobs = {} THEN {Own} ELSE jobs :
           /\ child' = [child EXCEPT ![op] =
                          [k \in Names |-> IF k \in jobs \ {n} THEN Absent ELSE @[k]]]
           /\ Decide([loc EXCEPT !.name = n, !.child = cache.child[op][n],
                                 !.sched = determineSchedule(op)])
  /\ UNCHANGED <<claim, namespace, class>>

deleteChildCronJob ==
  /\ Step("delete")
  /\ child' = [child EXCEPT ![loc.op][loc.name] = Absent]
  /\ IF loc.op = "reclaimspace" /\ loc.claim.name[loc.op] # "none"
     THEN Goto("forget", loc)
     ELSE Finish(loc)
  /\ Regular /\ UNCHANGED <<claim, namespace, class>>

\* The annotation with the name of the cron job is removed; the one of key
\* rotation is not.
Forget ==
  /\ Step("forget")
  /\ claim' = [claim EXCEPT !.name[loc.op] = "none"]
  /\ Finish(loc)
  /\ Regular /\ UNCHANGED <<namespace, class, child>>

Update_blind ==
  /\ Step("update")
  /\ child' = [child EXCEPT ![loc.op][loc.name].sched = loc.sched]
  /\ Goto("patch", loc)
  /\ Regular /\ UNCHANGED <<claim, namespace, class>>

\* The update fails unless the copy it is made from is the current one.
Update ==
  /\ Step("update")
  /\ IF child[loc.op][loc.name] = loc.child
     THEN /\ child' = [child EXCEPT ![loc.op][loc.name].sched = loc.sched]
          /\ Goto("patch", loc)
     ELSE Failed /\ UNCHANGED child
  /\ Regular /\ UNCHANGED <<claim, namespace, class>>

\* A patch puts the schedule on the claim, whatever is there by now, and returns
\* the claim as it is then.
patchAnnotationsToResource ==
  /\ Step("patch")
  /\ Write([claim EXCEPT !.sched[loc.op] = loc.sched])
  /\ Finish([loc EXCEPT !.claim = claim'])
  /\ Regular /\ UNCHANGED <<namespace, class, child>>

\* The name has the time in seconds: it may be the name of a cron job made just
\* before, and is a new one otherwise.
generateCronJobName(op, n) ==
  \/ n \in Kids(op) /\ Fault("second")
  \/ /\ n = CHOOSE m \in Generated : m \notin Kids(op) \cup CachedKids(op)
     /\ UNCHANGED faults

Annotate ==
  /\ Step("annotate")
  /\ \E n \in Generated :
       /\ generateCronJobName(loc.op, n)
       /\ Write([claim EXCEPT !.sched[loc.op] = loc.sched, !.name[loc.op] = n])
       /\ Goto("create", [loc EXCEPT !.name = n, !.claim = claim'])
  /\ UNCHANGED <<namespace, class, child, history>>

constructCronJob(schedule) == [sched |-> schedule, managed |-> TRUE]

Create ==
  /\ Step("create")
  /\ IF child[loc.op][loc.name] = Absent
     THEN /\ child' = [child EXCEPT ![loc.op][loc.name] = constructCronJob(loc.sched)]
          /\ Finish(loc)
     ELSE Failed /\ UNCHANGED child
  /\ Regular /\ UNCHANGED <<claim, namespace, class>>

processKeyRotation ==
  /\ loc.op = "keyrotation"
  /\ Find \/ deleteChildCronJob \/ Update \/ patchAnnotationsToResource \/ Annotate \/ Create

processReclaimSpace ==
  /\ loc.op = "reclaimspace"
  /\ \/ Find \/ deleteChildCronJob \/ Forget
     \/ Update \/ patchAnnotationsToResource \/ Annotate \/ Create

-----------------------------------------------------------------------------
(* PVCReconiler.                                                           *)

\* The claim and its class are read; without class nothing is done, or undone.
ReconcilePVC ==
  /\ mode = "storageclass" /\ pc = "idle" /\ queued
  /\ IF cache.claim.phase = "Bound" /\ volume = "csi" /\ cache.class.exists
     THEN /\ pc' = "feature"
          /\ queued' = FALSE
          /\ loc' = [loc EXCEPT !.claim = cache.claim, !.class = cache.class,
                                !.op = "keyrotation"]
     ELSE /\ queued' = (cache.claim.phase = "Pending")
          /\ UNCHANGED <<pc, loc>>
  /\ Steady /\ Regular /\ UNCHANGED stored

NextFeature(here) ==
  IF here.op = "keyrotation"
  THEN Goto("feature", [here EXCEPT !.op = "reclaimspace"])
  ELSE Return(FALSE)

\* Whether there should be a cron job, and whether there is one.
reconcileFeature ==
  /\ mode = "storageclass" /\ pc = "feature"
  /\ LET op == loc.op
         found == cache.child[op][Own]
         here == [loc EXCEPT !.child = found, !.sched = loc.class.sched[op]]
         shouldExist == here.sched # "none" /\ ~(op = "keyrotation" /\ loc.class.off)
     IN  IF Unmanaged(found) THEN NextFeature(loc)
         ELSE IF found = Absent
         THEN IF shouldExist THEN Goto("make", here) ELSE NextFeature(loc)
         ELSE IF ~shouldExist THEN Goto("collect", here)
         ELSE IF found.sched = here.sched THEN NextFeature(loc) ELSE Goto("change", here)
  /\ Steady /\ Regular /\ UNCHANGED stored

SetSpec(schedule) == [sched |-> schedule, managed |-> TRUE]

\* The write, and its outcome: that the object is gone when it is to be deleted,
\* or there when it is to be created, is no error.
writeFeature ==
  /\ mode = "storageclass" /\ pc \in {"make", "collect", "change"}
  /\ LET now == child[loc.op][Own]
         put(c) == child' = [child EXCEPT ![loc.op][Own] = c]
     IN  \/ pc = "collect" /\ put(Absent) /\ NextFeature(loc)
         \/ /\ pc = "make"
            /\ put(IF now = Absent THEN SetSpec(loc.sched) ELSE now)
            /\ NextFeature(loc)
         \/ /\ pc = "change"
            /\ IF now = loc.child
               THEN put(SetSpec(loc.sched)) /\ NextFeature(loc)
               ELSE Return(TRUE) /\ UNCHANGED child
  /\ Steady /\ Regular /\ UNCHANGED <<claim, namespace, class>>

-----------------------------------------------------------------------------
(* Failures.                                                               *)

\* A call fails: an error of PVCReconiler ends the reconcile.
ApiError ==
  /\ Fault("api")
  /\ pc # "idle"
  /\ IF mode = "pvc" THEN Failed ELSE Return(TRUE)
  /\ Steady /\ UNCHANGED <<stored, history>>

\* The manager restarts, maybe with another precedence: informers are filled
\* and every claim is queued.
Restart ==
  /\ \/ Fault("crash") /\ UNCHANGED <<mode, history>>
     \/ Fault("switch") /\ mode' \in Modes \ {mode} /\ history' = history \cup {"switch"}
  /\ claim' = [claim EXCEPT !.news = FALSE]
  /\ cache' = [claim |-> claim', namespace |-> namespace, class |-> class, child |-> child]
  /\ queued' = TRUE
  /\ pc' = "idle"
  /\ loc' = NoLocals
  /\ UNCHANGED <<volume, namespace, class, child, capable, edits>>

-----------------------------------------------------------------------------

Init ==
  /\ \E i \in Initial :
       /\ mode = i.mode /\ volume = i.volume
       /\ claim = i.claim /\ namespace = i.namespace /\ class = i.class
       /\ capable = i.capable
  /\ child = [op \in Ops |-> [n \in Names |-> Absent]]
  /\ cache = [claim |-> claim, namespace |-> namespace, class |-> class, child |-> child]
  /\ queued = TRUE
  /\ pc = "idle"
  /\ loc = NoLocals
  /\ history = {}
  /\ edits = 0 /\ faults = 0

Users ==
  \/ \E op \in Ops, value \in Annotations \ {Weekly} :
       EditClaim(op, value) \/ EditClass(op, value) \/ EditNamespace(op, value)
  \/ \E op \in Ops, n \in Names : EditChild(op, n)
  \/ EditEnable \/ EditClasses \/ BindClaim \/ DeleteClaim

Informers ==
  \/ SyncClaim \/ SyncNamespace \/ SyncClass
  \/ \E op \in Ops, n \in Names : SyncChild(op, n)

Controller ==
  \/ Reconcile \/ processKeyRotation \/ processReclaimSpace
  \/ ReconcilePVC \/ reconcileFeature \/ writeFeature

Next ==
  \/ Users \/ Informers \/ Controller
  \/ ApiError \/ Restart
  \/ \E op \in Ops : ChangeDriver(op)

Spec == Init /\ [][Next]_vars

\* Informers deliver every change and the controller does what is queued.
Fairness ==
  /\ WF_vars(Controller)
  /\ WF_vars(SyncClaim) /\ WF_vars(SyncNamespace) /\ WF_vars(SyncClass)
  /\ \A op \in Ops, n \in Names : WF_vars(SyncChild(op, n))

FairSpec == Spec /\ Fairness

-----------------------------------------------------------------------------
(* Properties.                                                             *)

\* Type correctness.  A write is only done for a cron job, or a schedule, that
\* was found: the create, update and patch steps of either controller have one.
TypeOK ==
  /\ mode \in Modes /\ volume \in Volumes
  /\ claim \in Claims /\ namespace \in Namespaces /\ class \in Classes
  /\ child \in [Ops -> [Names -> Children]]
  /\ cache \in Caches
  /\ capable \subseteq Ops
  /\ queued \in BOOLEAN
  /\ pc \in {"idle"} \cup (IF mode = "pvc"
                           THEN {"find", "delete", "forget", "update", "patch", "annotate", "create"}
                           ELSE {"feature", "make", "collect", "change"})
  /\ loc \in Locals
  /\ history \subseteq Irregularities
  /\ edits \in 0..MaxEdits /\ faults \in 0..MaxFaults
  /\ pc \in {"delete", "update", "patch", "collect", "change"} => loc.child.managed
  /\ pc \in {"update", "patch", "annotate", "create", "make", "change"} => loc.sched # "none"

\* As long as the lists of cron jobs have been up to date, a claim has at most
\* one cron job for each operation, whatever calls fail and wherever the manager
\* stops (findChildCronJob, processReclaimSpace, processKeyRotation).
OneChild ==
  history \cap {"lag", "switch"} = {} => \A op \in Ops : Cardinality(Kids(op)) <= 1

\* Neither controller changes the schedule of a cron job that is unmanaged at
\* that moment: they write only what they have read, and then to no other version
\* (processReclaimSpace, processKeyRotation, reconcileFeature).
UnmanagedNotUpdated ==
  [][\A op \in Ops, n \in Names :
       /\ Unmanaged(child[op][n])
       /\ child'[op][n] \notin {Absent, child[op][n]}
       => edits' # edits]_vars

Managed(op) == \A n \in Names : ~Unmanaged(child[op][n])

\* With precedence "pvc": when the users are done, a bound claim with a schedule
\* has in the end exactly one cron job, with that schedule or the default one;
\* one without a schedule anywhere has none; and the schedule of the class gets
\* to a claim without.  Exceptions are cron jobs that users edited, key rotation
\* that the namespace or the class disable or for which the class is missing,
\* and the schedule of the namespace, which nobody watches.
FollowsClaim ==
  <>[](\A op \in Ops :
         LET inClass == volume # "static" /\ class.exists /\ class.sched[op] # "none"
         IN  /\ mode = "pvc" /\ volume # "other" /\ claim.phase = "Bound"
             /\ Managed(op) /\ op \notin history
             /\ op = "keyrotation" => /\ ~namespace.off /\ ~class.off
                                      /\ class.exists \/ volume = "static"
             => IF op = "keyrotation" /\ claim.off
                THEN Kids(op) = {}
                ELSE /\ claim.sched[op] # "none" =>
                          \E n \in Names :
                            /\ Kids(op) = {n}
                            /\ child[op][n].sched = getScheduleFromAnnotation(claim.sched[op])
                     /\ claim.sched[op] = "none" /\ namespace.sched[op] = "none" =>
                          ~inClass /\ Kids(op) = {})

\* With precedence "pvc": once the users are done and have left a claim without a
\* schedule, and there is none elsewhere, its cron job is deleted
\* (docs/reclaimspace.md: "deleted when the annotation is removed").
RemovalDeletes ==
  \A op \in Ops :
    /\ mode = "pvc" /\ edits = MaxEdits /\ Managed(op)
    /\ claim.sched[op] = "none" /\ namespace.sched[op] = "none" /\ class.sched[op] = "none"
    ~> Kids(op) = {}

\* With precedence "storageclass": when the users are done, a bound claim of a
\* class that exists has in the end the cron jobs that the class asks for, with
\* the schedules that are there, and no others under these names, unless they
\* are unmanaged.
FollowsClass ==
  <>[](\A op \in Ops :
         /\ mode = "storageclass" /\ volume = "csi" /\ claim.phase = "Bound"
         /\ class.exists
         /\ ~Unmanaged(child[op][Own])
         => child[op][Own] = IF class.sched[op] # "none" /\ ~(op = "keyrotation" /\ class.off)
                             THEN SetSpec(class.sched[op])
                             ELSE Absent)
=============================================================================
