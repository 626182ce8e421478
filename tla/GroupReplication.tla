-------------------------- MODULE GroupReplication --------------------------
(***************************************************************************)
(* A VolumeGroupReplication and what depends on it: the claims that its    *)
(* selector matches, the VolumeGroupReplicationContent that groups their   *)
(* volumes, and the VolumeReplication that replicates the group.  Three    *)
(* controllers of one manager work on these objects, each with the copies  *)
(* it read when it began, and tie them together with finalizers, with the  *)
(* names in the specification and with owner annotations on the            *)
(* VolumeGroupReplication.                                                 *)
(*                                                                         *)
(* What the VolumeReplication controller does with the volumes is in       *)
(* VolumeReplication; here it is one call that enables and one that        *)
(* disables the replication of the group.                                  *)
(***************************************************************************)
EXTENDS Integers, FiniteSets

CONSTANTS Claims,
          Initial,            \* the claims and the limit of a behaviour, what users do and
                              \* how often, and how often something goes wrong
          Faults              \* what goes wrong

GroupEdits == {"delete", "state", "label", "claim", "content", "vr"}
GroupFaults == {"error", "crash"}
Controllers == {"group", "content", "replication"}
States == {"primary", "secondary"}

VARIABLES vgr, content, vr, pvc,    \* the objects
          maxGroupPVCCount,         \* the limit on the claims of a group
          storage,                  \* the group, its members and its replication
          queued,                   \* controllers whose object is to be reconciled
          pc, fresh, loc,           \* of each controller: where it is, which of its copies
                                    \* are up to date, and what it keeps of the others
          unrecorded,               \* the group was created and its handle not stored
          lapsed,                   \* claims let go by the controller
          unheeded,                 \* the finalizer of the group could not be removed
          edits, faults             \* what may still happen

objects == <<vgr, content, vr, pvc>>
vars == <<objects, maxGroupPVCCount, storage, queued, pc, fresh, loc, unrecorded, lapsed, unheeded,
          edits, faults>>

\* "named", "vrNamed": the specification has the names of the dependents; "owner",
\* "vrOwner": these have put their annotation on it; "selector": the annotation.
Groups == [here : BOOLEAN, deleting : BOOLEAN, finalizer : BOOLEAN, state : States,
           refs : SUBSET Claims, selector : BOOLEAN, named : BOOLEAN, vrNamed : BOOLEAN,
           owner : BOOLEAN, vrOwner : BOOLEAN, observed : States \cup {"none", "failed"}]
Contents == [here : BOOLEAN, deleting : BOOLEAN, finalizer : BOOLEAN, vrFinalizer : BOOLEAN,
             handle : BOOLEAN, members : SUBSET Claims, provisioned : BOOLEAN]
Replications == [here : BOOLEAN, deleting : BOOLEAN, finalizer : BOOLEAN, state : States,
                 observed : States \cup {"none", "failed"}]
\* "label": the selector matches; "bound": to a volume of the driver.
ClaimObjects == [here : BOOLEAN, deleting : BOOLEAN, label : BOOLEAN, bound : BOOLEAN,
                 owner : {"none", "this", "other"}, finalizer : BOOLEAN]

NoGroup == [here |-> FALSE, deleting |-> FALSE, finalizer |-> FALSE, state |-> "primary",
            refs |-> {}, selector |-> FALSE, named |-> FALSE, vrNamed |-> FALSE,
            owner |-> FALSE, vrOwner |-> FALSE, observed |-> "none"]
NoContent == [here |-> FALSE, deleting |-> FALSE, finalizer |-> FALSE, vrFinalizer |-> FALSE,
              handle |-> FALSE, members |-> {}, provisioned |-> FALSE]
NoReplication == [here |-> FALSE, deleting |-> FALSE, finalizer |-> FALSE, state |-> "primary",
                  observed |-> "none"]
NoClaim == [here |-> FALSE, deleting |-> FALSE, label |-> FALSE, bound |-> FALSE,
            owner |-> "none", finalizer |-> FALSE]
NewClaim == [NoClaim EXCEPT !.here = TRUE, !.label = TRUE]
NoStorage == [here |-> FALSE, members |-> {}, role |-> "none"]

\* What a controller keeps: the state asked for, whether there are no owner
\* annotations, the claims that match and whether all are bound, those still to be
\* protected and released, whether there is a handle, the status observed, the members,
\* and whether the group was there.
NoLocals == [state |-> "primary", safe |-> FALSE, list |-> {}, bound |-> FALSE,
             add |-> {}, remove |-> {}, handle |-> FALSE, observed |-> "none",
             members |-> {}, vgr |-> FALSE]
Locals == [state : States, safe : BOOLEAN, list : SUBSET Claims, bound : BOOLEAN,
           add : SUBSET Claims, remove : SUBSET Claims, handle : BOOLEAN,
           observed : States \cup {"none", "failed"}, members : SUBSET Claims, vgr : BOOLEAN]

ASSUME GroupAssumption ==
  /\ Initial \subseteq [pvc : [Claims -> ClaimObjects], max : Nat,
                        kinds : SUBSET GroupEdits, edits : Nat, faults : Nat]
  /\ Claims \cap {"vgr", "content", "vr"} = {}
  /\ Faults \subseteq GroupFaults

Init ==
  /\ vgr = [NoGroup EXCEPT !.here = TRUE]
  /\ content = NoContent /\ vr = NoReplication /\ storage = NoStorage
  /\ \E i \in Initial : /\ pvc = i.pvc /\ maxGroupPVCCount = i.max
                        /\ edits = [kinds |-> i.kinds, left |-> i.edits] /\ faults = i.faults
  /\ queued = {"group"}
  /\ pc = [c \in Controllers |-> "idle"]
  /\ fresh = [c \in Controllers |-> {}]
  /\ loc = [c \in Controllers |-> NoLocals]
  /\ unrecorded = FALSE /\ lapsed = {} /\ unheeded = FALSE

At(c, step) == pc[c] = step

-----------------------------------------------------------------------------
(* The API server: what a write does to the copies and to the queues.      *)

Written ==
  {o \in {"vgr", "content", "vr"} :
     CASE o = "vgr" -> vgr' # vgr [] o = "content" -> content' # content [] OTHER -> vr' # vr}
  \cup {p \in Claims : pvc'[p] # pvc[p]}

\* A change of the group that is not in its specification queues nothing.
VGREvents ==
  IF \/ <<vgr'.here, vgr'.deleting, vgr'.state>> # <<vgr.here, vgr.deleting, vgr.state>>
     \/ <<vgr'.named, vgr'.vrNamed>> # <<vgr.named, vgr.vrNamed>>
  THEN {"group"} ELSE {}

\* Variant: the group does not watch the content.
ContentEvents_own ==
  (IF content' # content THEN {"content"} ELSE {})
  \cup (IF /\ content.here
           /\ <<content'.here, content.handle, content.members>>
                # <<content.here, content.handle, content.members>>
        THEN {"group"} ELSE {})

\* The content is watched by its controller, and its specification and removal by
\* that of the group.
ContentEvents ==
  (IF content' # content THEN {"content"} ELSE {})
  \cup (IF /\ content.here
           /\ <<content'.here, content'.handle, content'.members>>
                # <<content.here, content.handle, content.members>>
        THEN {"group"} ELSE {})

\* The specification of the VolumeReplication is watched by its controller, its
\* status and removal by that of the group.
VREvents ==
  (IF <<vr'.here, vr'.deleting, vr'.state>> # <<vr.here, vr.deleting, vr.state>>
   THEN {"replication"} ELSE {})
  \cup (IF vr.here /\ <<vr'.here, vr'.observed>> # <<vr.here, vr.observed>>
        THEN {"group"} ELSE {})

\* Claims have no generation, so that only new ones and those that are gone count,
\* if their labels match the annotation of the group.
PVCEvents ==
  IF vgr.selector /\ \E p \in Claims : /\ pvc'[p].here # pvc[p].here
                                       /\ pvc[p].label \/ pvc'[p].label
  THEN {"group"} ELSE {}

Events == VGREvents \cup ContentEvents \cup VREvents \cup PVCEvents

\* An object with finalizers is marked, and one without is gone.
Delete(obj, held, none) == IF held THEN [obj EXCEPT !.deleting = TRUE] ELSE none

\* The last finalizer of an object that is marked has been removed.
Unhold(obj, held, none) == IF obj.deleting /\ ~held THEN none ELSE obj

-----------------------------------------------------------------------------
(* Users, the binder of volumes and the garbage collector.                 *)

Edit(kind) ==
  /\ kind \in edits.kinds /\ edits.left > 0
  /\ edits' = [edits EXCEPT !.left = @ - 1]

External ==
  /\ fresh' = [c \in Controllers |-> fresh[c] \ Written]
  /\ queued' = queued \cup Events
  /\ UNCHANGED <<maxGroupPVCCount, storage, pc, loc, unrecorded, lapsed, unheeded, faults>>

EditGroup ==
  /\ vgr.here /\ ~vgr.deleting
  /\ \/ Edit("delete") /\ vgr' = Delete(vgr, vgr.finalizer, NoGroup)
     \/ Edit("state") /\ \E s \in States \ {vgr.state} : vgr' = [vgr EXCEPT !.state = s]
  /\ UNCHANGED <<content, vr, pvc>> /\ External

EditClaim(p) ==
  /\ \/ /\ Edit("label") /\ pvc[p].here
        /\ pvc' = [pvc EXCEPT ![p].label = ~@]
     \/ /\ Edit("claim") /\ pvc[p].here /\ ~pvc[p].deleting
        /\ pvc' = [pvc EXCEPT ![p] = Delete(@, @.finalizer, NoClaim)]
     \/ /\ Edit("claim") /\ ~pvc[p].here
        /\ pvc' = [pvc EXCEPT ![p] = NewClaim]
  /\ UNCHANGED <<vgr, content, vr>> /\ External

DeleteDependent ==
  /\ \/ /\ Edit("content") /\ content.here /\ ~content.deleting /\ UNCHANGED vr
        /\ content' = Delete(content, content.finalizer \/ content.vrFinalizer, NoContent)
     \/ /\ Edit("vr") /\ vr.here /\ ~vr.deleting /\ UNCHANGED content
        /\ vr' = Delete(vr, vr.finalizer, NoReplication)
  /\ UNCHANGED <<vgr, pvc>> /\ External

BindVolume(p) ==
  /\ pvc[p].here /\ ~pvc[p].bound
  /\ pvc' = [pvc EXCEPT ![p].bound = TRUE]
  /\ UNCHANGED <<vgr, content, vr, edits>> /\ External

\* The owner reference of the VolumeReplication.
CollectGarbage ==
  /\ vr.here /\ ~vr.deleting /\ ~vgr.here
  /\ vr' = Delete(vr, vr.finalizer, NoReplication)
  /\ UNCHANGED <<vgr, content, pvc, edits>> /\ External

\* The informers repeat the objects every ten hours, and of the three controllers
\* only that of the content does not filter what has not changed.  It matters to one
\* that was deleted before its group: deleting it once more is no event.
Resync ==
  /\ content.deleting /\ At("content", "idle") /\ "content" \notin queued
  /\ queued' = queued \cup {"content"}
  /\ UNCHANGED <<objects, maxGroupPVCCount, storage, pc, fresh, loc, unrecorded, lapsed, unheeded,
                 edits, faults>>
-----------------------------------------------------------------------------
(* A reconcile by controller c.                                            *)

Begin(c) == At(c, "idle") /\ c \in queued

\* The reconcile goes on at a step, with new local values and new copies.
Proceed(c, step, locals, copies) ==
  /\ pc' = [pc EXCEPT ![c] = step]
  /\ loc' = [loc EXCEPT ![c] = locals]
  /\ fresh' = [d \in Controllers |-> IF d = c THEN fresh[c] \cup copies ELSE fresh[d] \ Written]
  /\ queued' = (IF At(c, "idle") THEN queued \ {c} ELSE queued) \cup Events
  /\ UNCHANGED <<maxGroupPVCCount, edits, faults>>

\* The reconcile is over, and the request is queued again or not.
Over(c, again) ==
  /\ pc' = [pc EXCEPT ![c] = "idle"]
  /\ loc' = [loc EXCEPT ![c] = NoLocals]
  /\ fresh' = [d \in Controllers |-> IF d = c THEN {} ELSE fresh[d] \ Written]
  /\ queued' = (queued \ (IF At(c, "idle") THEN {c} ELSE {}))
                 \cup Events \cup (IF again THEN {c} ELSE {})
  /\ UNCHANGED <<maxGroupPVCCount, edits>>

Return(c, again) == Over(c, again) /\ UNCHANGED faults

\* An update of an object of which the controller has an outdated copy is refused.
Conflict(c, object) ==
  /\ object \notin fresh[c]
  /\ UNCHANGED <<objects, storage, unrecorded, lapsed, unheeded>>
  /\ Return(c, TRUE)

-----------------------------------------------------------------------------
(* The VolumeGroupReplication controller.                                  *)

G == loc["group"]

\* The status is written as well, if the copy is up to date.
setGroupReplicationFailure ==
  /\ vgr' = IF "vgr" \in fresh["group"] THEN [vgr EXCEPT !.observed = "failed"] ELSE vgr
  /\ UNCHANGED <<content, vr, pvc, storage, unrecorded, lapsed, unheeded>>
  /\ Return("group", TRUE)

BeginGroup ==
  /\ Begin("group")
  /\ unheeded' = FALSE
  /\ UNCHANGED <<objects, storage, unrecorded, lapsed>>
  /\ IF ~vgr.here
     THEN Return("group", FALSE)
     ELSE Proceed("group",
                  IF vgr.deleting THEN "cleanupVR"
                  ELSE IF vgr.finalizer THEN "list" ELSE "finalizer",
                  [NoLocals EXCEPT !.state = vgr.state,
                                   !.safe = vgr.deleting /\ ~vgr.owner /\ ~vgr.vrOwner],
                  {"vgr"})

addFinalizerToVGR ==
  /\ At("group", "finalizer")
  /\ \/ Conflict("group", "vgr")
     \/ /\ "vgr" \in fresh["group"]
        /\ vgr' = [vgr EXCEPT !.finalizer = TRUE]
        /\ UNCHANGED <<content, vr, pvc, storage, unrecorded, lapsed, unheeded>>
        /\ Proceed("group", "list", G, {})

\* Claims that are being deleted count only if they are in a group already.
getMatchingPVCsFromSource ==
  {p \in Claims : pvc[p].here /\ pvc[p].label /\ (pvc[p].deleting => pvc[p].finalizer)}

getPVHandles(list) == \A p \in list : pvc[p].bound

\* The claims are listed, the annotation with the selector is stored, and the
\* claims that are not in the list any more are fetched.
ListClaims ==
  LET list == getMatchingPVCsFromSource
      old == vgr.refs \ list
      excess == Cardinality(list) > maxGroupPVCCount
      add == {p \in list \ vgr.refs : pvc[p].owner # "this" \/ ~pvc[p].finalizer}
      remove == {p \in old : pvc[p].owner # "none" \/ pvc[p].finalizer}
  IN /\ At("group", "list")
     /\ \/ /\ excess \/ \E p \in old : ~pvc[p].here
           /\ setGroupReplicationFailure
        \/ /\ ~excess /\ ~vgr.selector
           /\ Conflict("group", "vgr")
        \/ /\ ~excess /\ \A p \in old : pvc[p].here
           /\ vgr.selector \/ "vgr" \in fresh["group"]
           /\ vgr' = [vgr EXCEPT !.selector = TRUE]
           /\ UNCHANGED <<content, vr, pvc, storage, unrecorded, lapsed, unheeded>>
           /\ Proceed("group",
                      IF add \cup remove = {} /\ list = vgr.refs THEN "content" ELSE "claims",
                      [G EXCEPT !.list = list, !.add = add, !.remove = remove,
                                !.bound = getPVHandles(list)],
                      add \cup remove)

\* Variant: the finalizer is forgotten.
annotatePVCWithOwner_only(p) ==
  /\ At("group", "claims") /\ p \in G.add
  /\ IF p \notin fresh["group"] \/ pvc[p].owner = "other"
     THEN setGroupReplicationFailure
     ELSE /\ pvc[p].owner = "none"
          /\ pvc' = [pvc EXCEPT ![p].owner = "this"]
          /\ UNCHANGED <<vgr, content, vr, storage, unrecorded, lapsed, unheeded>>
          /\ Proceed("group", "claims",
                     [G EXCEPT !.add = @ \ {p}], {})

\* A new claim gets the annotation, and then the finalizer.
annotatePVCWithOwner(p) ==
  /\ At("group", "claims") /\ p \in G.add
  /\ IF p \notin fresh["group"] \/ pvc[p].owner = "other"
     THEN setGroupReplicationFailure
     ELSE /\ pvc[p].owner = "none"
          /\ pvc' = [pvc EXCEPT ![p].owner = "this"]
          /\ UNCHANGED <<vgr, content, vr, storage, unrecorded, lapsed, unheeded>>
          /\ Proceed("group", "claims",
                     [G EXCEPT !.add = IF pvc[p].finalizer THEN @ \ {p} ELSE @], {})

addFinalizerToPVC(p) ==
  /\ At("group", "claims") /\ p \in G.add
  /\ p \in fresh["group"] /\ pvc[p].owner = "this"
  /\ pvc' = [pvc EXCEPT ![p].finalizer = TRUE]
  /\ lapsed' = lapsed \ {p}
  /\ UNCHANGED <<vgr, content, vr, storage, unrecorded, unheeded>>
  /\ Proceed("group", "claims", [G EXCEPT !.add = @ \ {p}], {})

\* A claim that leaves the group loses the annotation, and then the finalizer.
removeOwnerFromPVCAnnotation(p) ==
  /\ At("group", "claims") /\ G.add = {} /\ p \in G.remove
  /\ IF p \notin fresh["group"]
     THEN IF G.safe THEN Conflict("group", p) ELSE setGroupReplicationFailure
     ELSE /\ pvc[p].owner # "none"
          /\ pvc' = [pvc EXCEPT ![p].owner = "none"]
          /\ UNCHANGED <<vgr, content, vr, storage, unrecorded, lapsed, unheeded>>
          /\ Proceed("group", "claims",
                     [G EXCEPT !.remove = IF pvc[p].finalizer THEN @ ELSE @ \ {p}], {})

removeFinalizerFromPVC(p) ==
  /\ At("group", "claims") /\ G.add = {} /\ p \in G.remove
  /\ p \in fresh["group"] /\ pvc[p].owner = "none"
  /\ pvc' = [pvc EXCEPT ![p] = Unhold([@ EXCEPT !.finalizer = FALSE], FALSE, NoClaim)]
  /\ lapsed' = lapsed \cup {p}
  /\ UNCHANGED <<vgr, content, vr, storage, unrecorded, unheeded>>
  /\ Proceed("group", "claims", [G EXCEPT !.remove = @ \ {p}], {})

\* The claims of the group are stored in its status.
StoreClaims ==
  /\ At("group", "claims") /\ ~G.safe /\ G.add = {} /\ G.remove = {}
  /\ IF vgr.refs # G.list /\ "vgr" \notin fresh["group"]
     THEN Conflict("group", "vgr")
     ELSE /\ vgr' = [vgr EXCEPT !.refs = G.list]
          /\ UNCHANGED <<content, vr, pvc, storage, unrecorded, lapsed, unheeded>>
          /\ Proceed("group", "content", G, {})
\* Without a handle the rest has to wait.
createOrUpdateVolumeGroupReplicationContentCR ==
  LET stored == IF content.here
                THEN [content EXCEPT !.members = G.list, !.provisioned = TRUE]
                ELSE [NoContent EXCEPT !.here = TRUE, !.members = G.list]
  IN /\ At("group", "content")
     /\ IF ~G.bound \/ (vgr.named /\ ~content.here)
        THEN setGroupReplicationFailure
        ELSE /\ content' = stored
             /\ UNCHANGED <<vgr, vr, pvc, storage, unrecorded, lapsed, unheeded>>
             /\ IF vgr.named /\ ~stored.handle
                THEN Return("group", FALSE)
                ELSE Proceed("group", IF vgr.named THEN "vr" ELSE "name",
                             [G EXCEPT !.handle = stored.handle], {})

\* The name of the content is stored.
NameContent ==
  /\ At("group", "name")
  /\ \/ Conflict("group", "vgr")
     \/ /\ "vgr" \in fresh["group"]
        /\ vgr' = [vgr EXCEPT !.named = TRUE]
        /\ UNCHANGED <<content, vr, pvc, storage, unrecorded, lapsed, unheeded>>
        /\ IF G.handle THEN Proceed("group", "vr", G, {}) ELSE Return("group", FALSE)

createOrUpdateVolumeReplicationCR ==
  LET stored == [(IF vr.here THEN vr ELSE [NoReplication EXCEPT !.here = TRUE])
                   EXCEPT !.state = G.state]
  IN /\ At("group", "vr")
     /\ vr' = stored
     /\ UNCHANGED <<vgr, content, pvc, storage, unrecorded, lapsed, unheeded>>
     /\ Proceed("group", IF vgr.vrNamed THEN "status" ELSE "vrName",
                [G EXCEPT !.observed = stored.observed], {})

NameReplication ==
  /\ At("group", "vrName")
  /\ \/ Conflict("group", "vgr")
     \/ /\ "vgr" \in fresh["group"]
        /\ vgr' = [vgr EXCEPT !.vrNamed = TRUE]
        /\ UNCHANGED <<content, vr, pvc, storage, unrecorded, lapsed, unheeded>>
        /\ Proceed("group", "status", G, {})

\* The status of the VolumeReplication is copied.
UpdateStatus ==
  /\ At("group", "status")
  /\ \/ Conflict("group", "vgr")
     \/ /\ "vgr" \in fresh["group"]
        /\ vgr' = [vgr EXCEPT !.observed = G.observed]
        /\ UNCHANGED <<content, vr, pvc, storage, unrecorded, lapsed, unheeded>>
        /\ Return("group", FALSE)

\* A group that is being deleted deletes the dependents of which it has the name.
cleanupVR ==
  /\ At("group", "cleanupVR")
  /\ vr' = IF vgr.vrNamed /\ vr.here THEN Delete(vr, vr.finalizer, NoReplication) ELSE vr
  /\ UNCHANGED <<vgr, content, pvc, storage, unrecorded, lapsed, unheeded>>
  /\ Proceed("group", "cleanupContent", G, {})

\* With an owner annotation the group is looked at again in ten seconds.
cleanupVGRContent ==
  /\ At("group", "cleanupContent")
  /\ content' = IF vgr.named /\ content.here
                THEN Delete(content, content.finalizer \/ content.vrFinalizer, NoContent)
                ELSE content
  /\ UNCHANGED <<vgr, vr, pvc, storage, unrecorded, lapsed, unheeded>>
  /\ IF G.safe
     THEN Proceed("group", "claims", [G EXCEPT !.list = vgr.refs], {})
     ELSE Return("group", TRUE)

\* The next claim in the status is fetched, to be released.
cleanupGroupPVC(p) ==
  /\ At("group", "claims") /\ G.safe /\ G.remove = {} /\ p \in G.list
  /\ UNCHANGED <<objects, storage, unrecorded, lapsed, unheeded>>
  /\ IF pvc[p].here
     THEN Proceed("group", "claims",
                  [G EXCEPT !.list = @ \ {p},
                            !.remove = IF pvc[p].owner # "none" \/ pvc[p].finalizer
                                       THEN {p} ELSE {}], {p})
     ELSE Return("group", TRUE)

Removing == At("group", "claims") /\ G.safe /\ G.remove = {} /\ G.list = {}

\* A conflict is logged, and the request is not queued again.
removeFinalizerFromVGR ==
  /\ Removing
  /\ vgr' = IF "vgr" \in fresh["group"] THEN NoGroup ELSE vgr
  /\ unheeded' = ("vgr" \notin fresh["group"])
  /\ UNCHANGED <<content, vr, pvc, storage, unrecorded, lapsed>>
  /\ Return("group", FALSE)

GroupController ==
  \/ BeginGroup \/ addFinalizerToVGR \/ ListClaims
  \/ \E p \in Claims : \/ annotatePVCWithOwner(p) \/ addFinalizerToPVC(p)
                       \/ removeOwnerFromPVCAnnotation(p) \/ removeFinalizerFromPVC(p)
                       \/ cleanupGroupPVC(p)
  \/ StoreClaims \/ createOrUpdateVolumeGroupReplicationContentCR \/ NameContent
  \/ createOrUpdateVolumeReplicationCR \/ NameReplication \/ UpdateStatus
  \/ cleanupVR \/ cleanupVGRContent \/ removeFinalizerFromVGR

-----------------------------------------------------------------------------
(* The VolumeGroupReplicationContent controller, and the storage.          *)

C == loc["content"]

\* The next step of a content that is not being deleted.
ContentStep(owner, finalizer, handle) ==
  IF ~owner THEN "annotate" ELSE IF ~finalizer THEN "finalizer"
  ELSE IF handle THEN "modify" ELSE "create"

\* Variant: the group in the storage is not deleted.
BeginContent_keep ==
  /\ Begin("content")
  /\ UNCHANGED <<objects, storage, unrecorded, lapsed, unheeded>>
  /\ IF ~content.here \/ (vgr.here /\ content.deleting /\ ~vgr.deleting)
     THEN Return("content", FALSE)
     ELSE IF ~vgr.here \/ (content.deleting /\ content.vrFinalizer)
     THEN Return("content", TRUE)
     ELSE Proceed("content",
                  IF ~content.deleting
                  THEN ContentStep(vgr.owner, content.finalizer, content.handle)
                  ELSE "unannotate",
                  [NoLocals EXCEPT !.handle = content.handle, !.members = content.members],
                  {"content", "vgr"})

\* A content that is being deleted waits for its group to be deleted, and for the
\* VolumeReplication to take its finalizer off.
BeginContent ==
  /\ Begin("content")
  /\ UNCHANGED <<objects, storage, unrecorded, lapsed, unheeded>>
  /\ IF ~content.here \/ (vgr.here /\ content.deleting /\ ~vgr.deleting)
     THEN Return("content", FALSE)
     ELSE IF ~vgr.here \/ (content.deleting /\ content.vrFinalizer)
     THEN Return("content", TRUE)
     ELSE Proceed("content",
                  IF ~content.deleting
                  THEN ContentStep(vgr.owner, content.finalizer, content.handle)
                  ELSE IF content.handle THEN "delete" ELSE "unannotate",
                  [NoLocals EXCEPT !.handle = content.handle, !.members = content.members],
                  {"content", "vgr"})

annotateVolumeGroupReplicationWithVGRContentOwner ==
  /\ At("content", "annotate")
  /\ \/ Conflict("content", "vgr")
     \/ /\ "vgr" \in fresh["content"]
        /\ vgr' = [vgr EXCEPT !.owner = TRUE]
        /\ UNCHANGED <<content, vr, pvc, storage, unrecorded, lapsed, unheeded>>
        /\ Proceed("content", ContentStep(TRUE, content.finalizer, C.handle), C, {})

addFinalizerToVGRContent ==
  /\ At("content", "finalizer")
  /\ \/ Conflict("content", "content")
     \/ /\ "content" \in fresh["content"]
        /\ content' = [content EXCEPT !.finalizer = TRUE]
        /\ UNCHANGED <<vgr, vr, pvc, storage, unrecorded, lapsed, unheeded>>
        /\ Proceed("content", ContentStep(TRUE, TRUE, C.handle), C, {})

\* A group is created by its name: one that exists is returned as it is.
CreateVolumeGroup(members) ==
  IF storage.here THEN storage ELSE [storage EXCEPT !.here = TRUE, !.members = members]

\* One that does not exist is not modified, and deleting it is no error.
ModifyVolumeGroupMembership(members) ==
  IF storage.here THEN [storage EXCEPT !.members = members] ELSE storage

DeleteVolumeGroup == [storage EXCEPT !.here = FALSE]

CreateGroup ==
  /\ At("content", "create")
  /\ storage' = CreateVolumeGroup(C.members)
  /\ unrecorded' = TRUE
  /\ UNCHANGED <<objects, lapsed, unheeded>>
  /\ Proceed("content", "record", C, {})

\* The handle is stored, and the status after it.
RecordHandle ==
  /\ At("content", "record")
  /\ \/ Conflict("content", "content")
     \/ /\ "content" \in fresh["content"]
        /\ content' = [content EXCEPT !.handle = TRUE]
        /\ unrecorded' = FALSE
        /\ UNCHANGED <<vgr, vr, pvc, storage, lapsed, unheeded>>
        /\ Return("content", FALSE)

\* The status is stored afterwards, which fails if the content has changed.
ModifyGroup ==
  /\ At("content", "modify")
  /\ storage' = ModifyVolumeGroupMembership(C.members)
  /\ UNCHANGED <<objects, unrecorded, lapsed, unheeded>>
  /\ Return("content", ~storage.here \/ "content" \notin fresh["content"])

\* The group is emptied, and then deleted.
DeleteGroup ==
  /\ At("content", "delete")
  /\ UNCHANGED <<objects, unrecorded, lapsed, unheeded>>
  /\ IF C.members # {}
     THEN /\ storage' = ModifyVolumeGroupMembership({})
          /\ Proceed("content", "delete", [C EXCEPT !.members = {}], {})
     ELSE /\ storage' = DeleteVolumeGroup
          /\ Proceed("content", "unannotate", C, {})

removeVGRContentOwnerFromVGRAnnotation ==
  /\ At("content", "unannotate")
  /\ IF vgr.owner /\ "vgr" \notin fresh["content"]
     THEN Conflict("content", "vgr")
     ELSE /\ vgr' = [vgr EXCEPT !.owner = FALSE]
          /\ UNCHANGED <<content, vr, pvc, storage, unrecorded, lapsed, unheeded>>
          /\ Proceed("content", "remove", C, {})

removeFinalizerFromVGRContent ==
  /\ At("content", "remove")
  /\ IF content.finalizer /\ "content" \notin fresh["content"]
     THEN Conflict("content", "content")
     ELSE /\ content' = Unhold([content EXCEPT !.finalizer = FALSE], content.vrFinalizer, NoContent)
          /\ UNCHANGED <<vgr, vr, pvc, storage, unrecorded, lapsed, unheeded>>
          /\ Return("content", FALSE)

ContentController ==
  \/ BeginContent \/ annotateVolumeGroupReplicationWithVGRContentOwner \/ addFinalizerToVGRContent
  \/ CreateGroup \/ RecordHandle \/ ModifyGroup \/ DeleteGroup
  \/ removeVGRContentOwnerFromVGRAnnotation \/ removeFinalizerFromVGRContent
-----------------------------------------------------------------------------
(* The VolumeReplication controller, for a group.                          *)

R == loc["replication"]

\* The status says that the reconcile failed.
ReplicationFailure ==
  /\ vr' = [vr EXCEPT !.observed = "failed"]
  /\ UNCHANGED <<vgr, content, pvc, storage, unrecorded, lapsed, unheeded>>
  /\ Return("replication", TRUE)

\* Variant: the content is not held.
ReplicationStep_unheld(finalizer, owner, held) ==
  IF ~finalizer THEN "finalizer" ELSE IF ~owner THEN "annotate" ELSE "enable"

\* The next step of a VolumeReplication that is not being deleted.
ReplicationStep(finalizer, owner, held) ==
  IF ~finalizer THEN "finalizer" ELSE IF ~owner THEN "annotate"
  ELSE IF ~held THEN "hold" ELSE "enable"

\* A group or content that is missing matters only if the VolumeReplication is not
\* being deleted; a group that has no name for its content always does.
BeginReplication ==
  LET missing == ~vgr.here \/ (vgr.named /\ ~content.here)
      unnamed == vgr.here /\ ~vgr.named
  IN /\ Begin("replication")
     /\ \/ /\ ~vr.here \/ (vr.deleting /\ ~vr.finalizer)
           /\ UNCHANGED <<objects, storage, unrecorded, lapsed, unheeded>>
           /\ Return("replication", FALSE)
        \/ /\ vr.here /\ (unnamed \/ (missing /\ ~vr.deleting))
           /\ ReplicationFailure
        \/ /\ vr.here /\ ~unnamed /\ (missing => vr.deleting)
           /\ UNCHANGED <<objects, storage, unrecorded, lapsed, unheeded>>
           /\ Proceed("replication",
                      IF ~vr.deleting
                      THEN ReplicationStep(vr.finalizer, vgr.vrOwner, content.vrFinalizer)
                      ELSE IF ~missing /\ content.handle THEN "disable" ELSE "release",
                      [NoLocals EXCEPT !.handle = ~missing /\ content.handle,
                                       !.vgr = vgr.here],
                      {"vr", "vgr", "content"})

addFinalizerToVR ==
  /\ At("replication", "finalizer")
  /\ \/ Conflict("replication", "vr")
     \/ /\ "vr" \in fresh["replication"]
        /\ vr' = [vr EXCEPT !.finalizer = TRUE]
        /\ UNCHANGED <<vgr, content, pvc, storage, unrecorded, lapsed, unheeded>>
        /\ Proceed("replication", ReplicationStep(TRUE, vgr.vrOwner, content.vrFinalizer), R, {})

annotateVolumeGroupReplicationWithOwner ==
  /\ At("replication", "annotate")
  /\ \/ Conflict("replication", "vgr")
     \/ /\ "vgr" \in fresh["replication"]
        /\ vgr' = [vgr EXCEPT !.vrOwner = TRUE]
        /\ UNCHANGED <<content, vr, pvc, storage, unrecorded, lapsed, unheeded>>
        /\ Proceed("replication", ReplicationStep(TRUE, TRUE, content.vrFinalizer), R, {})

\* No finalizer can be added to an object that is being deleted.
HoldContent ==
  /\ At("replication", "hold")
  /\ IF "content" \notin fresh["replication"] \/ content.deleting
     THEN /\ UNCHANGED <<objects, storage, unrecorded, lapsed, unheeded>>
          /\ Return("replication", TRUE)
     ELSE /\ content' = [content EXCEPT !.vrFinalizer = TRUE]
          /\ UNCHANGED <<vgr, vr, pvc, storage, unrecorded, lapsed, unheeded>>
          /\ Proceed("replication", "enable", R, {})

EnableVolumeReplication(state) == [storage EXCEPT !.role = state]
DisableVolumeReplication == [storage EXCEPT !.role = "none"]

\* The instance is updated first.  The storage refuses a group that is not there.
EnableGroup ==
  /\ At("replication", "enable")
  /\ \/ Conflict("replication", "vr")
     \/ "vr" \in fresh["replication"] /\ ~storage.here /\ ReplicationFailure
     \/ /\ "vr" \in fresh["replication"] /\ storage.here
        /\ storage' = EnableVolumeReplication(vr.state)
        /\ UNCHANGED <<objects, unrecorded, lapsed, unheeded>>
        /\ Proceed("replication", "status", R, {})

updateReplicationStatus ==
  /\ At("replication", "status")
  /\ \/ Conflict("replication", "vr")
     \/ /\ "vr" \in fresh["replication"]
        /\ vr' = [vr EXCEPT !.observed = vr.state]
        /\ UNCHANGED <<vgr, content, pvc, storage, unrecorded, lapsed, unheeded>>
        /\ Return("replication", FALSE)

disableVolumeReplication ==
  /\ At("replication", "disable")
  /\ storage' = DisableVolumeReplication
  /\ UNCHANGED <<objects, unrecorded, lapsed, unheeded>>
  /\ Proceed("replication", "release", R, {})

\* Variant: the finalizer stays on the content.
ReleaseContent_never ==
  /\ At("replication", "release")
  /\ IF content.vrFinalizer /\ "content" \notin fresh["replication"]
     THEN Conflict("replication", "content")
     ELSE /\ content' = content
          /\ UNCHANGED <<vgr, vr, pvc, storage, unrecorded, lapsed, unheeded>>
          /\ Proceed("replication", "unannotate", R, {})

ReleaseContent ==
  /\ At("replication", "release")
  /\ IF content.vrFinalizer /\ "content" \notin fresh["replication"]
     THEN Conflict("replication", "content")
     ELSE /\ content' = Unhold([content EXCEPT !.vrFinalizer = FALSE], content.finalizer, NoContent)
          /\ UNCHANGED <<vgr, vr, pvc, storage, unrecorded, lapsed, unheeded>>
          /\ Proceed("replication", "unannotate", R, {})

\* Without a group the annotation is looked up through a nil pointer: the panic is
\* an error to the manager.
removeOwnerFromVGRAnnotation ==
  /\ At("replication", "unannotate")
  /\ IF ~R.vgr \/ (vgr.vrOwner /\ "vgr" \notin fresh["replication"])
     THEN /\ UNCHANGED <<objects, storage, unrecorded, lapsed, unheeded>>
          /\ Return("replication", TRUE)
     ELSE /\ vgr' = [vgr EXCEPT !.vrOwner = FALSE]
          /\ UNCHANGED <<content, vr, pvc, storage, unrecorded, lapsed, unheeded>>
          /\ Proceed("replication", "remove", R, {})

removeFinalizerFromVR ==
  /\ At("replication", "remove")
  /\ \/ Conflict("replication", "vr")
     \/ /\ "vr" \in fresh["replication"]
        /\ vr' = NoReplication
        /\ UNCHANGED <<vgr, content, pvc, storage, unrecorded, lapsed, unheeded>>
        /\ Return("replication", FALSE)

ReplicationController ==
  \/ BeginReplication \/ addFinalizerToVR \/ annotateVolumeGroupReplicationWithOwner
  \/ HoldContent \/ EnableGroup \/ updateReplicationStatus
  \/ disableVolumeReplication \/ ReleaseContent \/ removeOwnerFromVGRAnnotation
  \/ removeFinalizerFromVR

-----------------------------------------------------------------------------
(* Faults, and the specification.                                          *)

Fault(kind) ==
  /\ kind \in Faults /\ faults > 0
  /\ faults' = faults - 1

\* A call fails and the request is queued again, other than the one that takes the
\* finalizer of the group off.
CallFails(c) ==
  /\ Fault("error")
  /\ ~At(c, "idle")
  /\ unheeded' = (unheeded \/ (c = "group" /\ Removing))
  /\ UNCHANGED <<objects, storage, unrecorded, lapsed>>
  /\ Over(c, ~(c = "group" /\ Removing))

\* The manager starts again, with all that exists in its queues.
Crash ==
  /\ Fault("crash")
  /\ pc' = [c \in Controllers |-> "idle"]
  /\ loc' = [c \in Controllers |-> NoLocals]
  /\ fresh' = [c \in Controllers |-> {}]
  /\ queued' = {c \in Controllers : CASE c = "group" -> vgr.here
                                      [] c = "content" -> content.here
                                      [] OTHER -> vr.here}
  /\ UNCHANGED <<objects, maxGroupPVCCount, storage, unrecorded, lapsed, unheeded, edits>>

Next ==
  \/ GroupController \/ ContentController \/ ReplicationController
  \/ EditGroup \/ DeleteDependent \/ CollectGarbage \/ Resync
  \/ \E p \in Claims : EditClaim(p) \/ BindVolume(p)
  \/ Crash \/ \E c \in Controllers : CallFails(c)

Spec == Init /\ [][Next]_vars

\* Each controller has its worker, and the binder, the garbage collector and the
\* informers keep running.
FairSpec ==
  /\ Spec
  /\ WF_vars(GroupController) /\ WF_vars(ContentController) /\ WF_vars(ReplicationController)
  /\ WF_vars(CollectGarbage) /\ WF_vars(Resync)
  /\ \A p \in Claims : WF_vars(BindVolume(p))

-----------------------------------------------------------------------------
(* Properties.                                                             *)

\* Type correctness.  A content with a handle has its finalizer, as long as it has not
\* been removed on purpose, so that it cannot vanish and leave its group behind.
TypeOK ==
  /\ vgr \in Groups /\ content \in Contents /\ vr \in Replications
  /\ pvc \in [Claims -> ClaimObjects]
  /\ storage \in [here : BOOLEAN, members : SUBSET Claims, role : States \cup {"none"}]
  /\ queued \subseteq Controllers
  /\ fresh \in [Controllers -> SUBSET (Claims \cup {"vgr", "content", "vr"})]
  /\ loc \in [Controllers -> Locals]
  /\ unrecorded \in BOOLEAN /\ lapsed \subseteq Claims /\ unheeded \in BOOLEAN
  /\ edits \in [kinds : SUBSET GroupEdits, left : Nat] /\ faults \in Nat
  /\ content.handle => content.finalizer

\* The storage never replicates a group that has been deleted: the finalizer
\* that the VolumeReplication has on the content, and the order in which it is taken
\* off, keep the group (HoldContent, ReleaseContent, BeginContent).
GroupOutlivesReplication == storage.role # "none" => storage.here

\* The volumes of the group belong to claims that the finalizer keeps, other than
\* those that the controller itself has let go.
MembersAreHeld ==
  \A p \in (vgr.refs \cup content.members \cup storage.members) \ lapsed :
    pvc[p].here /\ pvc[p].finalizer

\* When the group and the content are gone, so is the group in the storage, unless
\* its handle was never stored.
NoLeakedGroup == ~vgr.here /\ ~content.here /\ storage.here => unrecorded

\* A group that is being deleted goes in the end, but for the ways in which it is
\* known to stay: a dependent has its annotation on it that it has no name for or
\* that is gone, one of its claims is gone, or its finalizer could not be removed.
DeletionEnds ==
  vgr.deleting ~> \/ ~vgr.here
                  \/ vgr.owner /\ ~(vgr.named /\ content.here)
                  \/ vgr.vrOwner /\ ~(vgr.vrNamed /\ vr.here)
                  \/ \E p \in vgr.refs : ~pvc[p].here
                  \/ unheeded

\* In the end the group in the storage has the volumes of the claims that are listed
\* and the role that is asked for, and the status says so, but for a content that is
\* going or gone, a claim that is gone, too many claims, and a claim of another group.
GroupFollows ==
  <>[](/\ vgr.here /\ ~vgr.deleting
       /\ ~content.deleting /\ (vgr.named => content.here)
       /\ \A p \in vgr.refs : pvc[p].here
       /\ Cardinality(getMatchingPVCsFromSource) <= maxGroupPVCCount
       /\ \A p \in getMatchingPVCsFromSource : pvc[p].owner # "other"
       => /\ storage.here /\ storage.members = vgr.refs /\ storage.role = vgr.state
          /\ vgr.observed = vgr.state)

\* The group goes last (Reconcile: "This won't happen until the dependent VR and
\* VRContent is deleted").
NoOrphans == ~vgr.here => ~content.here /\ ~vr.here
=============================================================================
