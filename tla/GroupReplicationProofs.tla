----------------------- MODULE GroupReplicationProofs -----------------------
(***************************************************************************)
(* For any claims, edits and faults: the storage never replicates a group  *)
(* that has been deleted, no group stays behind in the storage, and the    *)
(* volumes of a group are of claims that the finalizer keeps, other than   *)
(* those that the controller has let go.                                   *)
(***************************************************************************)
EXTENDS GroupReplication, TLAPS

Steps == {"idle", "finalizer", "list", "claims", "content", "name", "vr", "vrName", "status",
          "cleanupVR", "cleanupContent", "annotate", "create", "record", "modify", "delete",
          "unannotate", "remove", "hold", "enable", "disable", "release"}

\* Finalizers, the handle and the mark are on a content that is there; the handle
\* comes after the finalizer; the mark is on a content that something holds.
SoundContent(x) ==
  /\ x.finalizer \/ x.vrFinalizer => x.here
  /\ x.handle => x.finalizer
  /\ x.deleting => x.finalizer \/ x.vrFinalizer

\* The content while its controller works on it.
ContentInv ==
  /\ SoundContent(content)
  /\ pc["content"] \in {"create", "record"} => content.finalizer
  /\ pc["content"] = "finalizer" /\ "content" \in fresh["content"] => content.here
  /\ pc["content"] = "annotate" /\ "content" \in fresh["content"] => content.here
  /\ pc["content"] \in {"delete", "unannotate", "remove"} =>
       content.deleting /\ content.finalizer /\ ~content.vrFinalizer
  /\ pc["content"] = "delete" => storage.role = "none"
  /\ pc["content"] \in {"unannotate", "remove"} => ~storage.here \/ unrecorded

\* The VolumeReplication holds the content when it enables, and lets it go when
\* it has disabled, or when the group is gone.
ReplicationInv ==
  /\ pc["replication"] = "enable" => content.vrFinalizer
  /\ pc["replication"] \in {"finalizer", "annotate", "hold"} /\ "content" \in fresh["replication"] =>
       content.here
  /\ pc["replication"] = "release" => storage.role = "none" \/ ~vgr.here

\* A group that replicates is there, and its content is held.
StorageInv ==
  /\ storage.role # "none" => storage.here /\ (vgr.here => content.vrFinalizer)
  /\ storage.here => unrecorded \/ content.handle

\* A VolumeReplication is created when the content has its handle and the group
\* has its name, so that there is no other content afterwards.
GroupInv ==
  /\ vgr.here /\ (vr.here \/ pc["group"] = "vr") =>
       vgr.named /\ (content.here => content.handle)
  /\ pc["group"] = "name" /\ G.handle => (content.here => content.handle)

Inv ==
  /\ TypeOK /\ pc \in [Controllers -> Steps]
  /\ ContentInv /\ ReplicationInv /\ StorageInv /\ GroupInv
-----------------------------------------------------------------------------
(* What a step of one controller does to the others.                       *)

Copies == Claims \cup {"vgr", "content", "vr"}

\* The controllers other than c stay where they are, and lose the copy of a
\* content that changes.
Moves(c) ==
  /\ pc' \in [Controllers -> Steps] /\ loc' \in [Controllers -> Locals]
  /\ fresh' \in [Controllers -> SUBSET Copies]
  /\ queued' \subseteq Controllers
  /\ edits' \in [kinds : SUBSET GroupEdits, left : Nat] /\ faults' \in Nat
  /\ \A d \in Controllers \ {c} :
       /\ pc'[d] = pc[d] /\ loc'[d] = loc[d] /\ fresh'[d] \subseteq fresh[d]
       /\ content' # content => "content" \notin fresh'[d]

\* The objects, the storage and the history keep their types.
ObjectTypes ==
  /\ vgr' \in Groups /\ content' \in Contents /\ vr' \in Replications
  /\ pvc' \in [Claims -> ClaimObjects]
  /\ storage' \in [here : BOOLEAN, members : SUBSET Claims, role : States \cup {"none"}]
  /\ unrecorded' \in BOOLEAN /\ lapsed' \subseteq Claims /\ unheeded' \in BOOLEAN

\* A content that is written is noticed.
LEMMA WrittenContent == ASSUME content' # content PROVE "content" \in Written
  BY Zenon DEF Written

\* Events are for the controllers.
LEMMA EventsType == Events \subseteq Controllers
  BY Zenon DEF Events, VGREvents, ContentEvents, VREvents, PVCEvents, Controllers

\* The types of what controllers hold.
LEMMA ControlTypes ==
  ASSUME Inv
  PROVE  /\ pc \in [Controllers -> Steps] /\ loc \in [Controllers -> Locals]
         /\ fresh \in [Controllers -> SUBSET Copies] /\ queued \subseteq Controllers
         /\ edits \in [kinds : SUBSET GroupEdits, left : Nat] /\ faults \in Nat
  BY Zenon DEF Inv, TypeOK, Copies

\* The objects that are not there have their types.
LEMMA NoneType ==
  /\ NoGroup \in Groups /\ NoContent \in Contents /\ NoReplication \in Replications
  /\ NoClaim \in ClaimObjects /\ NewClaim \in ClaimObjects /\ NoLocals \in Locals
  BY Zenon DEF NoGroup, Groups, NoContent, Contents, NoReplication, Replications, NoClaim, NewClaim,
         ClaimObjects, NoLocals, Locals, States

\* The fields of an absent content that matter.
LEMMA NoContentFields ==
  /\ ~NoContent.here /\ ~NoContent.finalizer /\ ~NoContent.vrFinalizer /\ ~NoContent.handle
  /\ ~NoContent.deleting
  BY Zenon DEF NoContent

\* A reconcile goes on.
LEMMA ProceedMoves ==
  ASSUME Inv, NEW c \in Controllers, NEW step \in Steps, NEW locals \in Locals,
         NEW copies \in SUBSET Copies, Proceed(c, step, locals, copies)
  PROVE  /\ Moves(c)
         /\ pc'[c] = step /\ loc'[c] = locals /\ fresh'[c] = fresh[c] \cup copies
  <1>1. UNCHANGED <<edits, faults>>
    BY Zenon DEF Proceed
  <1>2. /\ pc' \in [Controllers -> Steps] /\ pc'[c] = step
        /\ \A d \in Controllers \ {c} : pc'[d] = pc[d]
    BY Zenon, ControlTypes DEF Proceed
  <1>3. /\ loc' \in [Controllers -> Locals] /\ loc'[c] = locals
        /\ \A d \in Controllers \ {c} : loc'[d] = loc[d]
    BY Zenon, ControlTypes DEF Proceed
  <1>4. /\ fresh' \in [Controllers -> SUBSET Copies] /\ fresh'[c] = fresh[c] \cup copies
        /\ \A d \in Controllers \ {c} : fresh'[d] = fresh[d] \ Written
    BY Zenon, ControlTypes DEF Proceed
  <1>5. queued' \subseteq Controllers
    BY Zenon, ControlTypes, EventsType DEF Proceed
  <1>6. QED
    BY Zenon, <1>1, <1>2, <1>3, <1>4, <1>5, WrittenContent, ControlTypes DEF Moves

\* A reconcile is over.
LEMMA OverMoves ==
  ASSUME Inv, NEW c \in Controllers, NEW again, Over(c, again), faults' \in Nat
  PROVE  Moves(c) /\ pc'[c] = "idle"
  <1>1. UNCHANGED edits
    BY Zenon DEF Over
  <1>2. /\ pc' \in [Controllers -> Steps] /\ pc'[c] = "idle"
        /\ \A d \in Controllers \ {c} : pc'[d] = pc[d]
    BY Zenon, ControlTypes DEF Over, Steps
  <1>3. /\ loc' \in [Controllers -> Locals] /\ \A d \in Controllers \ {c} : loc'[d] = loc[d]
    BY Zenon, ControlTypes, NoneType DEF Over
  <1>4. /\ fresh' \in [Controllers -> SUBSET Copies]
        /\ \A d \in Controllers \ {c} : fresh'[d] = fresh[d] \ Written
    BY Zenon, ControlTypes DEF Over
  <1>5. queued' \subseteq Controllers
    BY Zenon, ControlTypes, EventsType DEF Over
  <1>6. QED
    BY <1>1, <1>2, <1>3, <1>4, <1>5, WrittenContent, ControlTypes DEF Moves

\* The number of edits stays natural.
LEMMA EditCount ==
  ASSUME Inv, NEW kind, Edit(kind) PROVE edits' \in [kinds : SUBSET GroupEdits, left : Nat]
  BY ControlTypes DEF Edit

\* A user, or a controller of Kubernetes, does something.
LEMMA ExternalMoves ==
  ASSUME Inv, External, edits' \in [kinds : SUBSET GroupEdits, left : Nat]
  PROVE  Moves("none") /\ UNCHANGED <<storage, unrecorded, lapsed, unheeded, pc, loc>>
  <1>1. UNCHANGED <<pc, loc, faults, storage, unrecorded, lapsed, unheeded>>
    BY Zenon DEF External
  <1>2. /\ fresh' \in [Controllers -> SUBSET Copies]
        /\ \A d \in Controllers : fresh'[d] = fresh[d] \ Written
    BY Zenon, ControlTypes DEF External
  <1>3. queued' \subseteq Controllers
    BY Zenon, ControlTypes, EventsType DEF External
  <1>4. QED
    BY Zenon, <1>1, <1>2, <1>3, WrittenContent, ControlTypes DEF Moves

-----------------------------------------------------------------------------
(* What a step must do to keep the invariant.                              *)

\* With types and a sound content, the type invariant holds.
LEMMA TypeStep ==
  ASSUME NEW c, Moves(c), ObjectTypes, SoundContent(content')
  PROVE  TypeOK' /\ pc' \in [Controllers -> Steps]
  BY Zenon DEF Moves, ObjectTypes, TypeOK, Copies, SoundContent

SameContent ==
  /\ content'.here = content.here /\ content'.deleting = content.deleting
  /\ content'.finalizer = content.finalizer /\ content'.vrFinalizer = content.vrFinalizer
  /\ content'.handle = content.handle

CreatedContent ==
  /\ ~content.here /\ content'.here
  /\ ~content'.deleting /\ ~content'.finalizer /\ ~content'.vrFinalizer /\ ~content'.handle

MarkedContent ==
  content.here /\ content' = Delete(content, content.finalizer \/ content.vrFinalizer, NoContent)

\* A content that is marked is gone, or the same but for the mark.
LEMMA MarkedFields ==
  ASSUME content \in Contents, MarkedContent
  PROVE  /\ content' \in Contents
         /\ \/ /\ ~content.finalizer /\ ~content.vrFinalizer /\ content' # content
               /\ ~content'.here /\ ~content'.finalizer /\ ~content'.vrFinalizer /\ ~content'.handle
               /\ ~content'.deleting
            \/ /\ content.finalizer \/ content.vrFinalizer
               /\ content'.here = content.here /\ content'.deleting
               /\ content'.finalizer = content.finalizer
               /\ content'.vrFinalizer = content.vrFinalizer /\ content'.handle = content.handle
  BY Zenon, NoneType, NoContentFields DEF MarkedContent, Delete, Contents

\* A step of the group's controller, or of a user.
LEMMA GroupStep ==
  ASSUME Inv, NEW c \in {"group", "none"}, Moves(c), ObjectTypes, UNCHANGED <<storage, unrecorded>>,
         vgr'.here => vgr.here,
         SameContent \/ CreatedContent \/ MarkedContent,
         GroupInv'
  PROVE  Inv'
  <1>1. /\ "content" \in Controllers \ {c} /\ "replication" \in Controllers \ {c}
    BY Zenon DEF Controllers
  <1>2. /\ pc'["content"] = pc["content"] /\ pc'["replication"] = pc["replication"]
        /\ fresh'["content"] \subseteq fresh["content"]
        /\ fresh'["replication"] \subseteq fresh["replication"]
        /\ content' # content => /\ "content" \notin fresh'["content"]
                                 /\ "content" \notin fresh'["replication"]
    BY Zenon, <1>1 DEF Moves
  <1>3. content \in Contents /\ ContentInv /\ ReplicationInv /\ StorageInv
    BY Zenon DEF Inv, TypeOK
  <1>4. SoundContent(content') /\ ContentInv' /\ ReplicationInv' /\ StorageInv'
    <2>1. CASE SameContent
      BY Zenon, <1>2, <1>3, <2>1
      DEF SameContent, ContentInv, ReplicationInv, StorageInv, SoundContent
    <2>2. CASE CreatedContent
      BY Zenon, <1>2, <1>3, <2>2
      DEF CreatedContent, ContentInv, ReplicationInv, StorageInv, SoundContent
    <2>3. CASE MarkedContent
      BY Zenon, <1>2, <1>3, <2>3, MarkedFields
      DEF ContentInv, ReplicationInv, StorageInv, SoundContent
    <2>4. QED
      BY Zenon, <2>1, <2>2, <2>3
  <1>5. TypeOK' /\ pc' \in [Controllers -> Steps]
    BY Zenon, <1>4, TypeStep
  <1>6. QED
    BY Zenon, <1>4, <1>5 DEF Inv

\* A step of the content's controller.
LEMMA ContentStepInv ==
  ASSUME Inv, Moves("content"), ObjectTypes, vgr'.here = vgr.here, vgr'.named = vgr.named, vr' = vr,
         storage'.role = storage.role, content'.vrFinalizer = content.vrFinalizer,
         content'.here => content.here, content.handle /\ content'.here => content'.handle,
         ContentInv', StorageInv'
  PROVE  Inv'
  <1>1. /\ "group" \in Controllers \ {"content"} /\ "replication" \in Controllers \ {"content"}
    BY Zenon DEF Controllers
  <1>2. /\ pc'["group"] = pc["group"] /\ loc'["group"] = loc["group"]
        /\ pc'["replication"] = pc["replication"]
        /\ fresh'["replication"] \subseteq fresh["replication"]
        /\ content' # content => "content" \notin fresh'["replication"]
    BY Zenon, <1>1 DEF Moves
  <1>3. ReplicationInv' /\ GroupInv'
    BY Zenon, <1>2 DEF Inv, ReplicationInv, GroupInv, G
  <1>4. TypeOK' /\ pc' \in [Controllers -> Steps]
    BY Zenon, TypeStep DEF ContentInv
  <1>5. QED
    BY Zenon, <1>3, <1>4 DEF Inv

\* A step of the VolumeReplication's controller.
LEMMA ReplicationStepInv ==
  ASSUME Inv, Moves("replication"), ObjectTypes, vgr'.here = vgr.here, vgr'.named = vgr.named,
         vr'.here => vr.here, storage'.here = storage.here, unrecorded' = unrecorded,
         SoundContent(content'), content'.here => content.here,
         content.handle /\ content'.here => content'.handle,
         content.finalizer => content'.finalizer,
         content.deleting /\ content.finalizer => content'.deleting,
         content.deleting /\ content'.vrFinalizer => content.vrFinalizer,
         storage'.role # "none" => storage.role # "none" \/ content.vrFinalizer,
         ReplicationInv', StorageInv'
  PROVE  Inv'
  <1>1. /\ "group" \in Controllers \ {"replication"} /\ "content" \in Controllers \ {"replication"}
    BY Zenon DEF Controllers
  <1>2. /\ pc'["group"] = pc["group"] /\ loc'["group"] = loc["group"]
        /\ pc'["content"] = pc["content"] /\ fresh'["content"] \subseteq fresh["content"]
        /\ content' # content => "content" \notin fresh'["content"]
    BY Zenon, <1>1 DEF Moves
  <1>3. ContentInv'
    BY Zenon, <1>2 DEF Inv, ContentInv, SoundContent
  <1>4. GroupInv'
    BY Zenon, <1>2 DEF Inv, GroupInv, G
  <1>5. TypeOK' /\ pc' \in [Controllers -> Steps]
    BY Zenon, TypeStep
  <1>6. QED
    BY Zenon, <1>3, <1>4, <1>5 DEF Inv
-----------------------------------------------------------------------------
(* Steps that change nothing, and returns.                                 *)

\* The types of the objects.
LEMMA ObjectTypesNow ==
  ASSUME Inv
  PROVE  /\ vgr \in Groups /\ content \in Contents /\ vr \in Replications
         /\ pvc \in [Claims -> ClaimObjects]
         /\ storage \in [here : BOOLEAN, members : SUBSET Claims, role : States \cup {"none"}]
         /\ unrecorded \in BOOLEAN /\ lapsed \subseteq Claims /\ unheeded \in BOOLEAN
  BY Zenon DEF Inv, TypeOK

\* A reconcile that ends without a change.
LEMMA QuietReturn ==
  ASSUME Inv, NEW c \in Controllers, NEW again, Over(c, again), faults' \in Nat,
         UNCHANGED <<objects, storage, unrecorded>>, lapsed' \subseteq Claims, unheeded' \in BOOLEAN
  PROVE  Inv'
  <1>1. Moves(c) /\ pc'[c] = "idle"
    BY Zenon, OverMoves
  <1>2. UNCHANGED <<vgr, content, vr, pvc, storage, unrecorded>> /\ ObjectTypes
    BY Zenon, ObjectTypesNow DEF objects, ObjectTypes
  <1>3. \A d \in Controllers : /\ pc'[d] = pc[d] /\ fresh'[d] \subseteq fresh[d] /\ loc'[d] = loc[d]
                               \/ pc'[d] = "idle"
    BY Zenon, <1>1 DEF Moves
  <1>4. "group" \in Controllers /\ "content" \in Controllers /\ "replication" \in Controllers
    BY Zenon DEF Controllers
  <1>5. ContentInv'
    BY <1>2, <1>3, <1>4 DEF Inv, ContentInv
  <1>6. ReplicationInv'
    BY Zenon, <1>2, <1>3, <1>4 DEF Inv, ReplicationInv
  <1>7. GroupInv' /\ StorageInv'
    BY <1>2, <1>3, <1>4 DEF Inv, GroupInv, StorageInv, G
  <1>8. TypeOK' /\ pc' \in [Controllers -> Steps]
    BY Zenon, <1>1, <1>2, <1>5, TypeStep DEF ContentInv
  <1>9. QED
    BY Zenon, <1>5, <1>6, <1>7, <1>8 DEF Inv

\* An update is refused.
LEMMA ConflictStep == ASSUME Inv, NEW c \in Controllers, NEW object, Conflict(c, object) PROVE Inv'
  BY Zenon, QuietReturn, ObjectTypesNow, ControlTypes DEF Conflict, Return

-----------------------------------------------------------------------------
(* The VolumeGroupReplication controller.                                  *)

\* A step of the group's controller that writes to neither the content nor the
\* VolumeReplication, and does not go on to create the latter.
LEMMA QuietGroup ==
  ASSUME Inv, NEW c \in {"group", "none"}, Moves(c), ObjectTypes,
         UNCHANGED <<content, vr, storage, unrecorded>>,
         vgr'.here => vgr.here /\ (vgr.named => vgr'.named),
         pc'["group"] \notin {"vr", "name"} \/ UNCHANGED <<pc, loc>>
  PROVE  Inv'
  <1>1. SameContent
    BY Zenon DEF SameContent
  <1>2. GroupInv'
    BY Zenon DEF Inv, GroupInv, G
  <1>3. QED
    BY Zenon, <1>1, <1>2, GroupStep

\* What the group's controller holds.
LEMMA GroupLocals == ASSUME Inv PROVE "group" \in Controllers /\ G \in Locals
  BY Zenon, ControlTypes DEF Controllers, G

\* The failure is stored in the status, and the reconcile is over.
LEMMA FailureStep == ASSUME Inv, setGroupReplicationFailure PROVE Inv'
  <1>1. UNCHANGED <<content, vr, pvc, storage, unrecorded, lapsed, unheeded>> /\ Return("group", TRUE)
    BY Zenon DEF setGroupReplicationFailure
  <1>2. vgr' \in Groups /\ vgr'.here = vgr.here /\ vgr'.named = vgr.named
    BY Zenon, ObjectTypesNow DEF setGroupReplicationFailure, Groups
  <1>3. ObjectTypes
    BY Zenon, <1>1, <1>2, ObjectTypesNow DEF ObjectTypes
  <1>4. Moves("group") /\ pc'["group"] = "idle"
    BY Zenon, <1>1, OverMoves, GroupLocals, ControlTypes DEF Return
  <1>5. QED
    BY Zenon, <1>1, <1>2, <1>3, <1>4, QuietGroup

\* A step of the group's controller that only writes to the group and the claims,
\* and goes on.
LEMMA GroupGoesOn ==
  ASSUME Inv, NEW step \in Steps \ {"vr", "name"}, NEW locals \in Locals, NEW copies \in SUBSET Copies,
         Proceed("group", step, locals, copies), UNCHANGED <<content, vr, storage, unrecorded>>,
         vgr' \in Groups, vgr'.here => vgr.here /\ (vgr.named => vgr'.named),
         pvc' \in [Claims -> ClaimObjects], lapsed' \subseteq Claims, unheeded' \in BOOLEAN
  PROVE  Inv'
  <1>1. Moves("group") /\ pc'["group"] = step
    BY Zenon, ProceedMoves, GroupLocals
  <1>2. ObjectTypes
    BY Zenon, ObjectTypesNow DEF ObjectTypes
  <1>3. QED
    BY Zenon, <1>1, <1>2, QuietGroup

\* The group is read.
LEMMA BeginGroupStep == ASSUME Inv, BeginGroup PROVE Inv'
  <1>1. CASE ~vgr.here
    BY Zenon, <1>1, QuietReturn, GroupLocals, ObjectTypesNow, ControlTypes DEF BeginGroup, Return
  <1>2. CASE vgr.here
    <2> DEFINE step == IF vgr.deleting THEN "cleanupVR" ELSE IF vgr.finalizer THEN "list" ELSE "finalizer"
               locals == [NoLocals EXCEPT !.state = vgr.state,
                                          !.safe = vgr.deleting /\ ~vgr.owner /\ ~vgr.vrOwner]
    <2>1. step \in Steps \ {"vr", "name"}
      BY Zenon DEF Steps
    <2>2. locals \in Locals
      BY Zenon, ObjectTypesNow, NoneType DEF Groups, Locals
    <2>3. {"vgr"} \in SUBSET Copies
      BY Zenon DEF Copies
    <2>4. Proceed("group", step, locals, {"vgr"})
      BY Zenon, <1>2 DEF BeginGroup
    <2>5. UNCHANGED <<vgr, content, vr, pvc, storage, unrecorded, lapsed>> /\ unheeded' \in BOOLEAN
      BY Zenon DEF BeginGroup, objects
    <2> HIDE DEF step, locals
    <2>6. QED
      BY Zenon, <2>1, <2>2, <2>3, <2>4, <2>5, GroupGoesOn, ObjectTypesNow
  <1>3. QED
    BY Zenon, <1>1, <1>2

\* The group gets its finalizer.
LEMMA AddFinalizerStep == ASSUME Inv, addFinalizerToVGR PROVE Inv'
  <1>1. CASE Conflict("group", "vgr")
    BY Zenon, <1>1, ConflictStep, GroupLocals
  <1>2. CASE /\ vgr' = [vgr EXCEPT !.finalizer = TRUE]
             /\ UNCHANGED <<content, vr, pvc, storage, unrecorded, lapsed, unheeded>>
             /\ Proceed("group", "list", G, {})
    <2>1. vgr' \in Groups /\ vgr'.here = vgr.here /\ vgr'.named = vgr.named
      BY Zenon, <1>2, ObjectTypesNow DEF Groups
    <2>2. "list" \in Steps \ {"vr", "name"} /\ {} \in SUBSET Copies
      BY Zenon DEF Steps
    <2>3. QED
      BY Zenon, <1>2, <2>1, <2>2, GroupGoesOn, GroupLocals, ObjectTypesNow
  <1>3. QED
    BY Zenon, <1>1, <1>2 DEF addFinalizerToVGR

\* The claims are listed.
LEMMA ListStep == ASSUME Inv, ListClaims PROVE Inv'
  <1> DEFINE list == getMatchingPVCsFromSource
             old == vgr.refs \ list
             add == {p \in list \ vgr.refs : pvc[p].owner # "this" \/ ~pvc[p].finalizer}
             remove == {p \in old : pvc[p].owner # "none" \/ pvc[p].finalizer}
             step == IF add \cup remove = {} /\ list = vgr.refs THEN "content" ELSE "claims"
             locals == [G EXCEPT !.list = list, !.add = add, !.remove = remove,
                                 !.bound = getPVHandles(list)]
  <1>1. CASE setGroupReplicationFailure
    BY Zenon, <1>1, FailureStep
  <1>2. CASE Conflict("group", "vgr")
    BY <1>2, ConflictStep, GroupLocals
  <1>3. CASE /\ vgr' = [vgr EXCEPT !.selector = TRUE]
             /\ UNCHANGED <<content, vr, pvc, storage, unrecorded, lapsed, unheeded>>
             /\ Proceed("group", step, locals, add \cup remove)
    <2>1. vgr' \in Groups /\ vgr'.here = vgr.here /\ vgr'.named = vgr.named
      BY Zenon, <1>3, ObjectTypesNow DEF Groups
    <2>2. step \in Steps \ {"vr", "name"}
      BY Zenon DEF Steps
    <2>3. list \in SUBSET Claims /\ vgr.refs \in SUBSET Claims
      BY Zenon, ObjectTypesNow DEF getMatchingPVCsFromSource, Groups
    <2>4. add \in SUBSET Claims /\ remove \in SUBSET Claims
      BY Zenon, <2>3
    <2>5. getPVHandles(list) \in BOOLEAN
      BY Zenon DEF getPVHandles
    <2>6. locals \in Locals
      <3> HIDE DEF list, add, remove
      <3>1. QED
        BY Zenon, <2>3, <2>4, <2>5, GroupLocals DEF Locals
    <2>7. add \cup remove \in SUBSET Copies
      BY Zenon, <2>4 DEF Copies
    <2> HIDE DEF step, locals, add, remove
    <2>8. QED
      BY Zenon, <1>3, <2>1, <2>2, <2>6, <2>7, GroupGoesOn, ObjectTypesNow
  <1>4. QED
    BY Zenon, <1>1, <1>2, <1>3 DEF ListClaims

\* A change of one claim by the group's controller.
LEMMA ClaimStep ==
  ASSUME Inv, NEW p \in Claims, NEW x \in ClaimObjects, pvc' = [pvc EXCEPT ![p] = x],
         NEW locals \in Locals, Proceed("group", "claims", locals, {}),
         UNCHANGED <<vgr, content, vr, storage, unrecorded, unheeded>>, lapsed' \subseteq Claims
  PROVE  Inv'
  <1>1. pvc' \in [Claims -> ClaimObjects]
    BY Zenon, ObjectTypesNow
  <1>2. "claims" \in Steps \ {"vr", "name"} /\ {} \in SUBSET Copies
    BY Zenon DEF Steps
  <1>3. QED
    BY Zenon, <1>1, <1>2, GroupGoesOn, ObjectTypesNow

\* A claim is annotated.
LEMMA AnnotateStep == ASSUME Inv, NEW p \in Claims, annotatePVCWithOwner(p) PROVE Inv'
  <1>1. CASE setGroupReplicationFailure
    BY Zenon, <1>1, FailureStep
  <1>2. CASE /\ pvc' = [pvc EXCEPT ![p].owner = "this"]
             /\ UNCHANGED <<vgr, content, vr, storage, unrecorded, lapsed, unheeded>>
             /\ Proceed("group", "claims",
                        [G EXCEPT !.add = IF pvc[p].finalizer THEN @ \ {p} ELSE @], {})
    <2> DEFINE x == [pvc[p] EXCEPT !.owner = "this"]
               locals == [G EXCEPT !.add = IF pvc[p].finalizer THEN @ \ {p} ELSE @]
    <2>1. x \in ClaimObjects /\ pvc' = [pvc EXCEPT ![p] = x]
      BY <1>2, ObjectTypesNow DEF ClaimObjects
    <2>2. locals \in Locals
      BY Zenon, GroupLocals DEF Locals
    <2>3. Proceed("group", "claims", locals, {})
      BY Zenon, <1>2
    <2> HIDE DEF x, locals
    <2>4. QED
      BY Zenon, <1>2, <2>1, <2>2, <2>3, ClaimStep, ObjectTypesNow
  <1>3. QED
    BY Zenon, <1>1, <1>2 DEF annotatePVCWithOwner

\* A claim gets the finalizer.
LEMMA AddClaimFinalizerStep == ASSUME Inv, NEW p \in Claims, addFinalizerToPVC(p) PROVE Inv'
  <1> DEFINE x == [pvc[p] EXCEPT !.finalizer = TRUE]
             locals == [G EXCEPT !.add = @ \ {p}]
  <1>1. x \in ClaimObjects /\ pvc' = [pvc EXCEPT ![p] = x]
    BY Zenon, ObjectTypesNow DEF addFinalizerToPVC, ClaimObjects
  <1>2. locals \in Locals
    BY Zenon, GroupLocals DEF Locals
  <1>3. /\ Proceed("group", "claims", locals, {}) /\ lapsed' \subseteq Claims
        /\ UNCHANGED <<vgr, content, vr, storage, unrecorded, unheeded>>
    BY Zenon, ObjectTypesNow DEF addFinalizerToPVC
  <1> HIDE DEF x, locals
  <1>4. QED
    BY Zenon, <1>1, <1>2, <1>3, ClaimStep

\* A claim loses the annotation.
LEMMA UnannotateClaimStep == ASSUME Inv, NEW p \in Claims, removeOwnerFromPVCAnnotation(p) PROVE Inv'
  <1>1. CASE setGroupReplicationFailure
    BY <1>1, FailureStep
  <1>2. CASE Conflict("group", p)
    BY Zenon, <1>2, ConflictStep, GroupLocals
  <1>3. CASE /\ pvc' = [pvc EXCEPT ![p].owner = "none"]
             /\ UNCHANGED <<vgr, content, vr, storage, unrecorded, lapsed, unheeded>>
             /\ Proceed("group", "claims",
                        [G EXCEPT !.remove = IF pvc[p].finalizer THEN @ ELSE @ \ {p}], {})
    <2> DEFINE x == [pvc[p] EXCEPT !.owner = "none"]
               locals == [G EXCEPT !.remove = IF pvc[p].finalizer THEN @ ELSE @ \ {p}]
    <2>1. x \in ClaimObjects /\ pvc' = [pvc EXCEPT ![p] = x]
      BY <1>3, ObjectTypesNow DEF ClaimObjects
    <2>2. locals \in Locals
      BY Zenon, GroupLocals DEF Locals
    <2>3. Proceed("group", "claims", locals, {})
      BY Zenon, <1>3
    <2> HIDE DEF x, locals
    <2>4. QED
      BY Zenon, <1>3, <2>1, <2>2, <2>3, ClaimStep, ObjectTypesNow
  <1>4. QED
    BY <1>1, <1>2, <1>3 DEF removeOwnerFromPVCAnnotation

\* A claim loses the finalizer, and may be gone.
LEMMA ReleaseClaimStep == ASSUME Inv, NEW p \in Claims, removeFinalizerFromPVC(p) PROVE Inv'
  <1> DEFINE x == Unhold([pvc[p] EXCEPT !.finalizer = FALSE], FALSE, NoClaim)
             locals == [G EXCEPT !.remove = @ \ {p}]
  <1>1. x \in ClaimObjects /\ pvc' = [pvc EXCEPT ![p] = x]
    BY Zenon, ObjectTypesNow, NoneType DEF removeFinalizerFromPVC, ClaimObjects, Unhold
  <1>2. locals \in Locals
    BY Zenon, GroupLocals DEF Locals
  <1>3. /\ Proceed("group", "claims", locals, {}) /\ lapsed' \subseteq Claims
        /\ UNCHANGED <<vgr, content, vr, storage, unrecorded, unheeded>>
    BY Zenon, ObjectTypesNow DEF removeFinalizerFromPVC
  <1> HIDE DEF x, locals
  <1>4. QED
    BY Zenon, <1>1, <1>2, <1>3, ClaimStep

\* The next claim to release is fetched.
LEMMA FetchClaimStep == ASSUME Inv, NEW p \in Claims, cleanupGroupPVC(p) PROVE Inv'
  <1>1. UNCHANGED <<objects, storage, unrecorded, lapsed, unheeded>>
        /\ UNCHANGED <<vgr, content, vr, pvc>>
    BY Zenon DEF cleanupGroupPVC, objects
  <1>2. CASE pvc[p].here
    <2> DEFINE locals == [G EXCEPT !.list = @ \ {p},
                                   !.remove = IF pvc[p].owner # "none" \/ pvc[p].finalizer
                                              THEN {p} ELSE {}]
    <2>1. locals \in Locals
      BY Zenon, GroupLocals DEF Locals
    <2>2. Proceed("group", "claims", locals, {p})
      BY Zenon, <1>2 DEF cleanupGroupPVC
    <2>3. "claims" \in Steps \ {"vr", "name"} /\ {p} \in SUBSET Copies
      BY Zenon DEF Steps, Copies
    <2> HIDE DEF locals
    <2>4. QED
      BY <1>1, <2>1, <2>2, <2>3, GroupGoesOn, ObjectTypesNow
  <1>3. CASE ~pvc[p].here
    BY Zenon, <1>1, <1>3, QuietReturn, GroupLocals, ObjectTypesNow, ControlTypes
    DEF cleanupGroupPVC, Return
  <1>4. QED
    BY Zenon, <1>2, <1>3

\* The claims are stored in the status.
LEMMA StoreClaimsStep == ASSUME Inv, StoreClaims PROVE Inv'
  <1>1. CASE Conflict("group", "vgr")
    BY <1>1, ConflictStep, GroupLocals
  <1>2. CASE /\ vgr' = [vgr EXCEPT !.refs = G.list]
             /\ UNCHANGED <<content, vr, pvc, storage, unrecorded, lapsed, unheeded>>
             /\ Proceed("group", "content", G, {})
    <2>1. vgr' \in Groups /\ vgr'.here = vgr.here /\ vgr'.named = vgr.named
      BY <1>2, ObjectTypesNow, GroupLocals DEF Groups, Locals
    <2>2. "content" \in Steps \ {"vr", "name"} /\ {} \in SUBSET Copies
      BY Zenon DEF Steps
    <2>3. QED
      BY <1>2, <2>1, <2>2, GroupGoesOn, GroupLocals, ObjectTypesNow
  <1>3. QED
    BY <1>1, <1>2 DEF StoreClaims

\* The content is created or updated.
LEMMA CreateContentStep ==
  ASSUME Inv, createOrUpdateVolumeGroupReplicationContentCR PROVE Inv'
  <1> DEFINE stored == IF content.here
                       THEN [content EXCEPT !.members = G.list, !.provisioned = TRUE]
                       ELSE [NoContent EXCEPT !.here = TRUE, !.members = G.list]
             step == IF vgr.named THEN "vr" ELSE "name"
             locals == [G EXCEPT !.handle = stored.handle]
  <1>1. CASE setGroupReplicationFailure
    BY <1>1, FailureStep
  <1>2. CASE /\ ~(vgr.named /\ ~content.here)
             /\ content' = stored
             /\ UNCHANGED <<vgr, vr, pvc, storage, unrecorded, lapsed, unheeded>>
             /\ IF vgr.named /\ ~stored.handle
                THEN Return("group", FALSE)
                ELSE Proceed("group", step, locals, {})
    <2>1. stored \in Contents
      BY Zenon, ObjectTypesNow, NoneType, GroupLocals DEF Contents, Locals
    <2>2. IF content.here THEN SameContent ELSE CreatedContent
      BY Zenon, <1>2, ObjectTypesNow, NoneType, NoContentFields
      DEF Contents, SameContent, CreatedContent
    <2>3. ObjectTypes
      BY <1>2, <2>1, ObjectTypesNow DEF ObjectTypes
    <2>4. vgr.here /\ vr.here => content'.here /\ content'.handle
      BY Zenon, <1>2, <2>2 DEF Inv, GroupInv, SameContent
    <2>5. vgr.here /\ vr.here => vgr.named
      BY Zenon DEF Inv, GroupInv
    <2>6. CASE Return("group", FALSE)
      <3>1. Moves("group") /\ pc'["group"] = "idle"
        BY Zenon, <2>6, OverMoves, GroupLocals, ControlTypes DEF Return
      <3>2. GroupInv'
        BY <1>2, <2>4, <2>5, <3>1 DEF GroupInv
      <3>3. QED
        BY <1>2, <2>2, <2>3, <3>1, <3>2, GroupStep
    <2>7. CASE ~(vgr.named /\ ~stored.handle) /\ Proceed("group", step, locals, {})
      <3>1. step \in Steps /\ {} \in SUBSET Copies
        BY Zenon DEF Steps
      <3>2. stored.handle \in BOOLEAN
        BY Zenon, <2>1 DEF Contents
      <3>3. locals \in Locals /\ locals.handle = stored.handle
        <4> HIDE DEF stored
        <4>1. QED
          BY Zenon, <3>2, GroupLocals DEF Locals
      <3>4. Moves("group") /\ pc'["group"] = step /\ loc'["group"] = locals
        <4> HIDE DEF step, locals
        <4>1. QED
          BY <2>7, <3>1, <3>3, ProceedMoves, GroupLocals
      <3>5. pc'["group"] = "vr" => vgr.named /\ content'.handle
        BY Zenon, <1>2, <2>7, <3>4
      <3>6. G'.handle = content'.handle
        BY Zenon, <1>2, <3>3, <3>4 DEF G
      <3>7. GroupInv'
        BY <1>2, <2>4, <2>5, <3>5, <3>6 DEF GroupInv
      <3>8. QED
        BY <1>2, <2>2, <2>3, <3>4, <3>7, GroupStep
    <2>8. QED
      BY Zenon, <1>2, <2>6, <2>7
  <1>3. QED
    BY Zenon, <1>1, <1>2 DEF createOrUpdateVolumeGroupReplicationContentCR

\* The content's name is stored.
LEMMA NameContentStep == ASSUME Inv, NameContent PROVE Inv'
  <1>1. CASE Conflict("group", "vgr")
    BY <1>1, ConflictStep, GroupLocals
  <1>2. CASE /\ vgr' = [vgr EXCEPT !.named = TRUE]
             /\ UNCHANGED <<content, vr, pvc, storage, unrecorded, lapsed, unheeded>>
             /\ IF G.handle THEN Proceed("group", "vr", G, {}) ELSE Return("group", FALSE)
    <2>1. vgr' \in Groups /\ vgr'.here = vgr.here /\ vgr'.named
      BY Zenon, <1>2, ObjectTypesNow DEF Groups
    <2>2. ObjectTypes
      BY <1>2, <2>1, ObjectTypesNow DEF ObjectTypes
    <2>3. pc["group"] = "name"
      BY Zenon DEF NameContent, At
    <2>4. Moves("group") /\ (pc'["group"] = "idle" \/ (pc'["group"] = "vr" /\ G.handle))
      <3>1. CASE G.handle
        <4>1. "vr" \in Steps /\ {} \in SUBSET Copies
          BY Zenon DEF Steps
        <4>2. QED
          BY Zenon, <1>2, <3>1, <4>1, ProceedMoves, GroupLocals
      <3>2. CASE ~G.handle
        BY Zenon, <1>2, <3>2, OverMoves, GroupLocals, ControlTypes DEF Return
      <3>3. QED
        BY <3>1, <3>2
    <2>5. GroupInv'
      BY Zenon, <1>2, <2>1, <2>3, <2>4 DEF Inv, GroupInv
    <2>6. SameContent
      BY Zenon, <1>2 DEF SameContent
    <2>7. QED
      BY <1>2, <2>1, <2>2, <2>4, <2>5, <2>6, GroupStep
  <1>3. QED
    BY Zenon, <1>1, <1>2 DEF NameContent

\* The VolumeReplication is created or updated.
LEMMA CreateReplicationStep == ASSUME Inv, createOrUpdateVolumeReplicationCR PROVE Inv'
  <1> DEFINE stored == [(IF vr.here THEN vr ELSE [NoReplication EXCEPT !.here = TRUE])
                          EXCEPT !.state = G.state]
             step == IF vgr.vrNamed THEN "status" ELSE "vrName"
             locals == [G EXCEPT !.observed = stored.observed]
  <1>1. stored \in Replications
    BY Zenon, ObjectTypesNow, NoneType, GroupLocals DEF Replications, Locals
  <1>2. locals \in Locals
    <2>1. stored.observed \in States \cup {"none", "failed"}
      BY Zenon, <1>1 DEF Replications
    <2> HIDE DEF stored
    <2>2. QED
      BY Zenon, <2>1, GroupLocals DEF Locals
  <1>3. /\ vr' = stored /\ pc["group"] = "vr"
        /\ UNCHANGED <<vgr, content, pvc, storage, unrecorded, lapsed, unheeded>>
        /\ Proceed("group", step, locals, {})
    BY Zenon DEF createOrUpdateVolumeReplicationCR, At
  <1>4. step \in Steps \ {"vr", "name"} /\ {} \in SUBSET Copies
    BY Zenon DEF Steps
  <1> HIDE DEF stored, step, locals
  <1>5. Moves("group") /\ pc'["group"] = step
    BY Zenon, <1>2, <1>3, <1>4, ProceedMoves, GroupLocals
  <1>6. ObjectTypes
    BY Zenon, <1>1, <1>3, ObjectTypesNow DEF ObjectTypes
  <1>7. GroupInv'
    BY Zenon, <1>3, <1>4, <1>5 DEF Inv, GroupInv
  <1>8. SameContent
    BY Zenon, <1>3 DEF SameContent
  <1>9. QED
    BY Zenon, <1>3, <1>5, <1>6, <1>7, <1>8, GroupStep

\* The name of the VolumeReplication is stored.
LEMMA NameReplicationStep == ASSUME Inv, NameReplication PROVE Inv'
  <1>1. CASE Conflict("group", "vgr")
    BY <1>1, ConflictStep, GroupLocals
  <1>2. CASE /\ vgr' = [vgr EXCEPT !.vrNamed = TRUE]
             /\ UNCHANGED <<content, vr, pvc, storage, unrecorded, lapsed, unheeded>>
             /\ Proceed("group", "status", G, {})
    <2>1. vgr' \in Groups /\ vgr'.here = vgr.here /\ vgr'.named = vgr.named
      BY Zenon, <1>2, ObjectTypesNow DEF Groups
    <2>2. "status" \in Steps \ {"vr", "name"} /\ {} \in SUBSET Copies
      BY Zenon DEF Steps
    <2>3. QED
      BY Zenon, <1>2, <2>1, <2>2, GroupGoesOn, GroupLocals, ObjectTypesNow
  <1>3. QED
    BY Zenon, <1>1, <1>2 DEF NameReplication

\* A reconcile that ends with a write to the group.
LEMMA GroupEnds ==
  ASSUME Inv, Return("group", FALSE), vgr' \in Groups,
         vgr'.here => vgr.here /\ (vgr.named => vgr'.named),
         UNCHANGED <<content, vr, pvc, storage, unrecorded, lapsed>>, unheeded' \in BOOLEAN
  PROVE  Inv'
  <1>1. Moves("group") /\ pc'["group"] = "idle"
    BY Zenon, OverMoves, GroupLocals, ControlTypes DEF Return
  <1>2. ObjectTypes
    BY Zenon, ObjectTypesNow DEF ObjectTypes
  <1>3. QED
    BY Zenon, <1>1, <1>2, QuietGroup

\* The status is stored.
LEMMA UpdateStatusStep == ASSUME Inv, UpdateStatus PROVE Inv'
  <1>1. CASE Conflict("group", "vgr")
    BY <1>1, ConflictStep, GroupLocals
  <1>2. CASE /\ vgr' = [vgr EXCEPT !.observed = G.observed]
             /\ UNCHANGED <<content, vr, pvc, storage, unrecorded, lapsed, unheeded>>
             /\ Return("group", FALSE)
    <2>1. vgr' \in Groups /\ vgr'.here = vgr.here /\ vgr'.named = vgr.named
      BY Zenon, <1>2, ObjectTypesNow, GroupLocals DEF Groups, Locals
    <2>2. QED
      BY Zenon, <1>2, <2>1, GroupEnds, ObjectTypesNow
  <1>3. QED
    BY Zenon, <1>1, <1>2 DEF UpdateStatus

\* A VolumeReplication that is deleted is of its type.
LEMMA DeletedReplication ==
  ASSUME Inv, NEW x, x = Delete(vr, vr.finalizer, NoReplication)
  PROVE  x \in Replications /\ (x.here => vr.here)
  BY Zenon, ObjectTypesNow, NoneType DEF Delete, Replications, NoReplication

\* The VolumeReplication is deleted.
LEMMA CleanupReplicationStep == ASSUME Inv, cleanupVR PROVE Inv'
  <1>1. vr' \in Replications /\ (vr'.here => vr.here)
    BY Zenon, DeletedReplication, ObjectTypesNow DEF cleanupVR
  <1>2. /\ UNCHANGED <<vgr, content, pvc, storage, unrecorded, lapsed, unheeded>>
        /\ Proceed("group", "cleanupContent", G, {})
    BY Zenon DEF cleanupVR
  <1>3. "cleanupContent" \in Steps /\ {} \in SUBSET Copies
    BY Zenon DEF Steps
  <1>4. Moves("group") /\ pc'["group"] = "cleanupContent"
    BY Zenon, <1>2, <1>3, ProceedMoves, GroupLocals
  <1>5. ObjectTypes
    BY Zenon, <1>1, <1>2, ObjectTypesNow DEF ObjectTypes
  <1>6. GroupInv'
    BY Zenon, <1>1, <1>2, <1>4 DEF Inv, GroupInv
  <1>7. SameContent
    BY Zenon, <1>2 DEF SameContent
  <1>8. QED
    BY Zenon, <1>2, <1>4, <1>5, <1>6, <1>7, GroupStep

\* The content is deleted.
LEMMA CleanupContentStep == ASSUME Inv, cleanupVGRContent PROVE Inv'
  <1>1. MarkedContent \/ content' = content
    BY Zenon DEF cleanupVGRContent, MarkedContent
  <1>2. UNCHANGED <<vgr, vr, pvc, storage, unrecorded, lapsed, unheeded>>
    BY Zenon DEF cleanupVGRContent
  <1>3. Moves("group") /\ pc'["group"] \in {"claims", "idle"}
    <2> DEFINE locals == [G EXCEPT !.list = vgr.refs]
    <2>1. locals \in Locals
      BY Zenon, GroupLocals, ObjectTypesNow DEF Locals, Groups
    <2>2. Proceed("group", "claims", locals, {}) \/ Return("group", TRUE)
      BY Zenon DEF cleanupVGRContent
    <2>3. "claims" \in Steps /\ {} \in SUBSET Copies
      BY Zenon DEF Steps
    <2> HIDE DEF locals
    <2>4. CASE Proceed("group", "claims", locals, {})
      BY Zenon, <2>1, <2>3, <2>4, ProceedMoves, GroupLocals
    <2>5. CASE Return("group", TRUE)
      BY Zenon, <2>5, OverMoves, GroupLocals, ControlTypes DEF Return
    <2>6. QED
      BY Zenon, <2>2, <2>4, <2>5
  <1>4. /\ content' \in Contents
        /\ content'.here => content.here /\ content'.handle = content.handle
    BY Zenon, <1>1, MarkedFields, ObjectTypesNow
  <1>5. ObjectTypes
    BY Zenon, <1>2, <1>4, ObjectTypesNow DEF ObjectTypes
  <1>6. GroupInv'
    BY Zenon, <1>2, <1>3, <1>4 DEF Inv, GroupInv
  <1>7. SameContent \/ MarkedContent
    BY Zenon, <1>1 DEF SameContent
  <1>8. QED
    BY Zenon, <1>2, <1>3, <1>5, <1>6, <1>7, GroupStep

\* The group is let go.
LEMMA RemoveGroupStep == ASSUME Inv, removeFinalizerFromVGR PROVE Inv'
  <1>1. ~NoGroup.here
    BY Zenon DEF NoGroup
  <1>2. QED
    BY Zenon, <1>1, GroupEnds, NoneType, ObjectTypesNow DEF removeFinalizerFromVGR

\* Every step of the group's controller.
LEMMA GroupControllerStep == ASSUME Inv, GroupController PROVE Inv'
  <1>1. CASE BeginGroup \/ addFinalizerToVGR \/ ListClaims
    BY Zenon, <1>1, BeginGroupStep, AddFinalizerStep, ListStep
  <1>2. ASSUME NEW p \in Claims, \/ annotatePVCWithOwner(p) \/ addFinalizerToPVC(p)
                                 \/ removeOwnerFromPVCAnnotation(p) \/ removeFinalizerFromPVC(p)
                                 \/ cleanupGroupPVC(p)
        PROVE  Inv'
    BY <1>2, AnnotateStep, AddClaimFinalizerStep, UnannotateClaimStep, ReleaseClaimStep,
       FetchClaimStep
  <1>3. CASE StoreClaims \/ createOrUpdateVolumeGroupReplicationContentCR \/ NameContent
    BY <1>3, StoreClaimsStep, CreateContentStep, NameContentStep
  <1>4. CASE createOrUpdateVolumeReplicationCR \/ NameReplication \/ UpdateStatus
    BY <1>4, CreateReplicationStep, NameReplicationStep, UpdateStatusStep
  <1>5. CASE cleanupVR \/ cleanupVGRContent \/ removeFinalizerFromVGR
    BY <1>5, CleanupReplicationStep, CleanupContentStep, RemoveGroupStep
  <1>6. QED
    BY Zenon, <1>1, <1>2, <1>3, <1>4, <1>5 DEF GroupController

-----------------------------------------------------------------------------
(* The VolumeGroupReplicationContent controller.                           *)

\* What the content's controller holds.
LEMMA ContentLocals == ASSUME Inv PROVE "content" \in Controllers /\ C \in Locals
  BY Zenon, ControlTypes DEF Controllers, C

\* The next step of a content that is there.
LEMMA NextContentStep ==
  ASSUME NEW owner \in BOOLEAN, NEW finalizer \in BOOLEAN, NEW handle \in BOOLEAN
  PROVE  /\ ContentStep(owner, finalizer, handle) \in {"annotate", "finalizer", "modify", "create"}
         /\ ContentStep(owner, finalizer, handle) = "create" => finalizer
  BY Zenon DEF ContentStep

\* The content is read.
LEMMA BeginContentStep == ASSUME Inv, BeginContent PROVE Inv'
  <1> DEFINE step == IF ~content.deleting
                     THEN ContentStep(vgr.owner, content.finalizer, content.handle)
                     ELSE IF content.handle THEN "delete" ELSE "unannotate"
             locals == [NoLocals EXCEPT !.handle = content.handle, !.members = content.members]
  <1>1. UNCHANGED <<objects, storage, unrecorded, lapsed, unheeded>>
    BY Zenon DEF BeginContent
  <1>2. CASE \E again \in BOOLEAN : Return("content", again)
    BY Zenon, <1>1, <1>2, QuietReturn, ContentLocals, ObjectTypesNow, ControlTypes DEF Return
  <1>3. CASE /\ content.here /\ vgr.here /\ (content.deleting => ~content.vrFinalizer)
             /\ Proceed("content", step, locals, {"content", "vgr"})
    <2>1. locals \in Locals
      BY Zenon, NoneType, ObjectTypesNow DEF Locals, Contents
    <2>2. /\ step \in {"annotate", "finalizer", "modify", "create", "delete", "unannotate"}
          /\ step = "create" => content.finalizer
          /\ step \in {"delete", "unannotate"} => content.deleting
          /\ step = "unannotate" => ~content.handle
      BY NextContentStep, ObjectTypesNow DEF Contents, Groups
    <2>3. Proceed("content", step, locals, {"content", "vgr"})
      BY Zenon, <1>3
    <2>4. {"content", "vgr"} \in SUBSET Copies
      BY Zenon DEF Copies
    <2> HIDE DEF step, locals
    <2>5. step \in Steps
      BY Zenon, <2>2 DEF Steps
    <2>6. Moves("content") /\ pc'["content"] = step
      BY Zenon, <2>1, <2>3, <2>4, <2>5, ProceedMoves, ContentLocals
    <2>7. UNCHANGED <<vgr, content, vr, pvc, storage, unrecorded, lapsed, unheeded>> /\ ObjectTypes
      BY Zenon, <1>1, ObjectTypesNow DEF objects, ObjectTypes
    <2>8. ContentInv'
      BY Zenon, <1>3, <2>2, <2>6, <2>7 DEF Inv, ContentInv, StorageInv, SoundContent
    <2>9. StorageInv'
      BY Zenon, <2>7 DEF Inv, StorageInv
    <2>10. QED
      BY Zenon, <2>6, <2>7, <2>8, <2>9, ContentStepInv
  <1>4. QED
    BY Zenon, <1>2, <1>3 DEF BeginContent

\* The annotation is put on the group.
LEMMA AnnotateGroupStep ==
  ASSUME Inv, annotateVolumeGroupReplicationWithVGRContentOwner PROVE Inv'
  <1> DEFINE step == ContentStep(TRUE, content.finalizer, C.handle)
  <1>1. CASE Conflict("content", "vgr")
    BY Zenon, <1>1, ConflictStep, ContentLocals
  <1>2. CASE /\ vgr' = [vgr EXCEPT !.owner = TRUE]
             /\ UNCHANGED <<content, vr, pvc, storage, unrecorded, lapsed, unheeded>>
             /\ Proceed("content", step, C, {})
    <2>1. /\ step \in {"finalizer", "modify", "create"} /\ {} \in SUBSET Copies
          /\ step = "create" => content.finalizer
      BY Zenon DEF ContentStep
    <2>2. Proceed("content", step, C, {}) /\ pc["content"] = "annotate"
      BY Zenon, <1>2 DEF annotateVolumeGroupReplicationWithVGRContentOwner, At
    <2> HIDE DEF step
    <2>3. step \in Steps
      BY Zenon, <2>1 DEF Steps
    <2>4. Moves("content") /\ pc'["content"] = step /\ fresh'["content"] = fresh["content"] \cup {}
      BY Zenon, <2>1, <2>2, <2>3, ProceedMoves, ContentLocals
    <2>5. vgr' \in Groups /\ vgr'.here = vgr.here /\ vgr'.named = vgr.named
      BY Zenon, <1>2, ObjectTypesNow DEF Groups
    <2>6. ObjectTypes
      BY Zenon, <1>2, <2>5, ObjectTypesNow DEF ObjectTypes
    <2>7. ContentInv'
      BY Zenon, <1>2, <2>1, <2>2, <2>4 DEF Inv, ContentInv, SoundContent
    <2>8. StorageInv'
      BY Zenon, <1>2, <2>5 DEF Inv, StorageInv
    <2>9. QED
      BY Zenon, <1>2, <2>4, <2>5, <2>6, <2>7, <2>8, ContentStepInv
  <1>3. QED
    BY Zenon, <1>1, <1>2 DEF annotateVolumeGroupReplicationWithVGRContentOwner

\* The content gets its finalizer.
LEMMA HoldByGroupStep == ASSUME Inv, addFinalizerToVGRContent PROVE Inv'
  <1> DEFINE step == ContentStep(TRUE, TRUE, C.handle)
  <1>1. CASE Conflict("content", "content")
    BY Zenon, <1>1, ConflictStep, ContentLocals
  <1>2. CASE /\ "content" \in fresh["content"]
             /\ content' = [content EXCEPT !.finalizer = TRUE]
             /\ UNCHANGED <<vgr, vr, pvc, storage, unrecorded, lapsed, unheeded>>
             /\ Proceed("content", step, C, {})
    <2>1. step \in {"modify", "create"} /\ {} \in SUBSET Copies
      BY Zenon DEF ContentStep
    <2>2. Proceed("content", step, C, {}) /\ pc["content"] = "finalizer"
      BY Zenon, <1>2 DEF addFinalizerToVGRContent, At
    <2> HIDE DEF step
    <2>3. step \in Steps
      BY Zenon, <2>1 DEF Steps
    <2>4. Moves("content") /\ pc'["content"] = step
      BY Zenon, <2>1, <2>2, <2>3, ProceedMoves, ContentLocals
    <2>5. /\ content' \in Contents /\ content'.finalizer
          /\ content'.here = content.here /\ content'.deleting = content.deleting
          /\ content'.vrFinalizer = content.vrFinalizer /\ content'.handle = content.handle
      BY Zenon, <1>2, ObjectTypesNow DEF Contents
    <2>6. ObjectTypes
      BY Zenon, <1>2, <2>5, ObjectTypesNow DEF ObjectTypes
    <2>7. ContentInv'
      BY Zenon, <1>2, <2>1, <2>2, <2>4, <2>5 DEF Inv, ContentInv, SoundContent
    <2>8. StorageInv'
      BY Zenon, <1>2, <2>5 DEF Inv, StorageInv
    <2>9. QED
      BY Zenon, <1>2, <2>4, <2>5, <2>6, <2>7, <2>8, ContentStepInv
  <1>3. QED
    BY Zenon, <1>1, <1>2 DEF addFinalizerToVGRContent

\* The group is created in the storage.
LEMMA CreateGroupStep == ASSUME Inv, CreateGroup PROVE Inv'
  <1>1. /\ pc["content"] = "create" /\ UNCHANGED <<vgr, content, vr, pvc, lapsed, unheeded>>
        /\ unrecorded' = TRUE /\ Proceed("content", "record", C, {})
    BY Zenon DEF CreateGroup, objects, At
  <1>2. /\ storage' \in [here : BOOLEAN, members : SUBSET Claims, role : States \cup {"none"}]
        /\ storage'.here /\ storage'.role = storage.role
    BY Zenon, ObjectTypesNow, ContentLocals DEF CreateGroup, CreateVolumeGroup, Locals
  <1>3. "record" \in Steps /\ {} \in SUBSET Copies
    BY Zenon DEF Steps
  <1>4. Moves("content") /\ pc'["content"] = "record"
    BY Zenon, <1>1, <1>3, ProceedMoves, ContentLocals
  <1>5. ObjectTypes
    BY Zenon, <1>1, <1>2, ObjectTypesNow DEF ObjectTypes
  <1>6. ContentInv'
    BY Zenon, <1>1, <1>4 DEF Inv, ContentInv, SoundContent
  <1>7. StorageInv'
    BY Zenon, <1>1, <1>2 DEF Inv, StorageInv
  <1>8. QED
    BY Zenon, <1>1, <1>2, <1>4, <1>5, <1>6, <1>7, ContentStepInv

\* The handle is stored.
LEMMA RecordHandleStep == ASSUME Inv, RecordHandle PROVE Inv'
  <1>1. CASE Conflict("content", "content")
    BY <1>1, ConflictStep, ContentLocals
  <1>2. CASE /\ content' = [content EXCEPT !.handle = TRUE]
             /\ unrecorded' = FALSE
             /\ UNCHANGED <<vgr, vr, pvc, storage, lapsed, unheeded>>
             /\ Return("content", FALSE)
    <2>1. /\ content' \in Contents /\ content'.handle
          /\ content'.here = content.here /\ content'.deleting = content.deleting
          /\ content'.vrFinalizer = content.vrFinalizer /\ content'.finalizer = content.finalizer
      BY Zenon, <1>2, ObjectTypesNow DEF Contents
    <2>2. Moves("content") /\ pc'["content"] = "idle" /\ pc["content"] = "record"
      BY Zenon, <1>2, OverMoves, ContentLocals, ControlTypes DEF Return, RecordHandle, At
    <2>3. ObjectTypes
      BY Zenon, <1>2, <2>1, ObjectTypesNow DEF ObjectTypes
    <2>4. ContentInv'
      BY Zenon, <2>1, <2>2 DEF Inv, ContentInv, SoundContent
    <2>5. StorageInv'
      BY Zenon, <1>2, <2>1 DEF Inv, StorageInv
    <2>6. QED
      BY Zenon, <1>2, <2>1, <2>2, <2>3, <2>4, <2>5, ContentStepInv
  <1>3. QED
    BY Zenon, <1>1, <1>2 DEF RecordHandle

\* The members of the group are modified in the storage.
LEMMA ModifyGroupStep == ASSUME Inv, ModifyGroup PROVE Inv'
  <1>1. UNCHANGED <<vgr, content, vr, pvc, unrecorded, lapsed, unheeded>>
    BY Zenon DEF ModifyGroup, objects
  <1>2. /\ storage' \in [here : BOOLEAN, members : SUBSET Claims, role : States \cup {"none"}]
        /\ storage'.here = storage.here /\ storage'.role = storage.role
    BY Zenon, ObjectTypesNow, ContentLocals DEF ModifyGroup, ModifyVolumeGroupMembership, Locals
  <1>3. Moves("content") /\ pc'["content"] = "idle"
    BY Zenon, OverMoves, ContentLocals, ControlTypes DEF ModifyGroup, Return
  <1>4. ObjectTypes
    BY Zenon, <1>1, <1>2, ObjectTypesNow DEF ObjectTypes
  <1>5. ContentInv' /\ StorageInv'
    BY Zenon, <1>1, <1>2, <1>3 DEF Inv, ContentInv, SoundContent, StorageInv
  <1>6. QED
    BY Zenon, <1>1, <1>2, <1>3, <1>4, <1>5, ContentStepInv

\* The group in the storage is emptied, and deleted.
LEMMA DeleteGroupStep == ASSUME Inv, DeleteGroup PROVE Inv'
  <1>1. pc["content"] = "delete" /\ UNCHANGED <<vgr, content, vr, pvc, unrecorded, lapsed, unheeded>>
    BY Zenon DEF DeleteGroup, objects, At
  <1>2. CASE storage' = ModifyVolumeGroupMembership({})
             /\ Proceed("content", "delete", [C EXCEPT !.members = {}], {})
    <2> DEFINE locals == [C EXCEPT !.members = {}]
    <2>1. /\ storage' \in [here : BOOLEAN, members : SUBSET Claims, role : States \cup {"none"}]
          /\ storage'.here = storage.here /\ storage'.role = storage.role
      BY Zenon, <1>2, ObjectTypesNow DEF ModifyVolumeGroupMembership
    <2>2. locals \in Locals /\ "delete" \in Steps /\ {} \in SUBSET Copies
      BY Zenon, ContentLocals DEF Locals, Steps
    <2>3. Proceed("content", "delete", locals, {})
      BY Zenon, <1>2
    <2> HIDE DEF locals
    <2>4. Moves("content") /\ pc'["content"] = "delete"
      BY Zenon, <2>2, <2>3, ProceedMoves, ContentLocals
    <2>5. ObjectTypes
      BY Zenon, <1>1, <2>1, ObjectTypesNow DEF ObjectTypes
    <2>6. ContentInv' /\ StorageInv'
      BY Zenon, <1>1, <2>1, <2>4 DEF Inv, ContentInv, SoundContent, StorageInv
    <2>7. QED
      BY Zenon, <1>1, <2>1, <2>4, <2>5, <2>6, ContentStepInv
  <1>3. CASE storage' = DeleteVolumeGroup /\ Proceed("content", "unannotate", C, {})
    <2>1. /\ storage' \in [here : BOOLEAN, members : SUBSET Claims, role : States \cup {"none"}]
          /\ ~storage'.here /\ storage'.role = storage.role
      BY Zenon, <1>3, ObjectTypesNow DEF DeleteVolumeGroup
    <2>2. "unannotate" \in Steps /\ {} \in SUBSET Copies
      BY Zenon DEF Steps
    <2>3. Moves("content") /\ pc'["content"] = "unannotate"
      BY Zenon, <1>3, <2>2, ProceedMoves, ContentLocals
    <2>4. ObjectTypes
      BY Zenon, <1>1, <2>1, ObjectTypesNow DEF ObjectTypes
    <2>5. ContentInv' /\ StorageInv'
      BY Zenon, <1>1, <2>1, <2>3 DEF Inv, ContentInv, SoundContent, StorageInv
    <2>6. QED
      BY Zenon, <1>1, <2>1, <2>3, <2>4, <2>5, ContentStepInv
  <1>4. QED
    BY Zenon, <1>2, <1>3 DEF DeleteGroup

\* The annotation of the content is taken off the group.
LEMMA UnannotateGroupStep == ASSUME Inv, removeVGRContentOwnerFromVGRAnnotation PROVE Inv'
  <1>1. CASE Conflict("content", "vgr")
    BY <1>1, ConflictStep, ContentLocals
  <1>2. CASE /\ vgr' = [vgr EXCEPT !.owner = FALSE]
             /\ UNCHANGED <<content, vr, pvc, storage, unrecorded, lapsed, unheeded>>
             /\ Proceed("content", "remove", C, {})
    <2>1. vgr' \in Groups /\ vgr'.here = vgr.here /\ vgr'.named = vgr.named
      BY Zenon, <1>2, ObjectTypesNow DEF Groups
    <2>2. "remove" \in Steps /\ {} \in SUBSET Copies
      BY Zenon DEF Steps
    <2>3. Moves("content") /\ pc'["content"] = "remove" /\ pc["content"] = "unannotate"
      BY Zenon, <1>2, <2>2, ProceedMoves, ContentLocals
      DEF removeVGRContentOwnerFromVGRAnnotation, At
    <2>4. ObjectTypes
      BY Zenon, <1>2, <2>1, ObjectTypesNow DEF ObjectTypes
    <2>5. ContentInv' /\ StorageInv'
      BY <1>2, <2>1, <2>3 DEF Inv, ContentInv, SoundContent, StorageInv
    <2>6. QED
      BY Zenon, <1>2, <2>1, <2>3, <2>4, <2>5, ContentStepInv
  <1>3. QED
    BY Zenon, <1>1, <1>2 DEF removeVGRContentOwnerFromVGRAnnotation

\* The content is let go, and is gone.
LEMMA RemoveContentStep == ASSUME Inv, removeFinalizerFromVGRContent PROVE Inv'
  <1>1. CASE Conflict("content", "content")
    BY <1>1, ConflictStep, ContentLocals
  <1>2. CASE /\ content' = Unhold([content EXCEPT !.finalizer = FALSE], content.vrFinalizer, NoContent)
             /\ UNCHANGED <<vgr, vr, pvc, storage, unrecorded, lapsed, unheeded>>
             /\ Return("content", FALSE)
    <2>1. pc["content"] = "remove" /\ Moves("content") /\ pc'["content"] = "idle"
      BY Zenon, <1>2, OverMoves, ContentLocals, ControlTypes
      DEF Return, removeFinalizerFromVGRContent, At
    <2>2. content.deleting /\ ~content.vrFinalizer /\ (~storage.here \/ unrecorded)
      BY Zenon, <2>1 DEF Inv, ContentInv
    <2>3. content' = NoContent
      BY Zenon, <1>2, <2>2, ObjectTypesNow DEF Unhold, Contents
    <2>4. ObjectTypes
      BY Zenon, <1>2, <2>3, NoneType, ObjectTypesNow DEF ObjectTypes
    <2>5. content.vrFinalizer = FALSE /\ content'.vrFinalizer = FALSE
      BY Zenon, <2>2, <2>3, NoneType, NoContentFields, ObjectTypesNow DEF Contents
    <2>6. ContentInv' /\ StorageInv'
      BY <1>2, <2>1, <2>2, <2>3, NoContentFields DEF Inv, ContentInv, SoundContent, StorageInv
    <2>7. QED
      BY Zenon, <1>2, <2>1, <2>3, <2>4, <2>5, <2>6, NoContentFields, ContentStepInv
  <1>3. QED
    BY Zenon, <1>1, <1>2 DEF removeFinalizerFromVGRContent

\* Every step of the content's controller.
LEMMA ContentControllerStep == ASSUME Inv, ContentController PROVE Inv'
  BY BeginContentStep, AnnotateGroupStep, HoldByGroupStep, CreateGroupStep, RecordHandleStep,
     ModifyGroupStep, DeleteGroupStep, UnannotateGroupStep, RemoveContentStep DEF ContentController

-----------------------------------------------------------------------------
(* The VolumeReplication controller.                                       *)

\* What the VolumeReplication's controller holds.
LEMMA ReplicationLocals == ASSUME Inv PROVE "replication" \in Controllers /\ R \in Locals
  BY Zenon, ControlTypes DEF Controllers, R

\* A step that changes neither the content nor the storage.
LEMMA QuietReplication ==
  ASSUME Inv, Moves("replication"), vgr' \in Groups, vgr'.here = vgr.here, vgr'.named = vgr.named,
         vr' \in Replications, vr'.here => vr.here,
         UNCHANGED <<content, pvc, storage, unrecorded, lapsed, unheeded>>,
         ReplicationInv'
  PROVE  Inv'
  <1>1. ObjectTypes
    BY Zenon, ObjectTypesNow DEF ObjectTypes
  <1>2. SoundContent(content') /\ StorageInv'
    BY Zenon DEF Inv, ContentInv, StorageInv
  <1>3. QED
    BY Zenon, <1>1, <1>2, ReplicationStepInv

\* The failure is stored in the status, and the reconcile is over.
LEMMA ReplicationFailureStep == ASSUME Inv, ReplicationFailure PROVE Inv'
  <1>1. vr' \in Replications /\ vr'.here = vr.here
    BY Zenon, ObjectTypesNow DEF ReplicationFailure, Replications
  <1>2. Moves("replication") /\ pc'["replication"] = "idle"
    BY Zenon, OverMoves, ReplicationLocals, ControlTypes DEF ReplicationFailure, Return
  <1>3. UNCHANGED <<vgr, content, pvc, storage, unrecorded, lapsed, unheeded>>
    BY Zenon DEF ReplicationFailure
  <1>4. ReplicationInv'
    BY Zenon, <1>2 DEF ReplicationInv
  <1>5. QED
    BY Zenon, <1>1, <1>2, <1>3, <1>4, QuietReplication, ObjectTypesNow

\* The next step of a VolumeReplication that is there.
LEMMA NextReplicationStep ==
  ASSUME NEW finalizer \in BOOLEAN, NEW owner \in BOOLEAN, NEW held \in BOOLEAN
  PROVE  /\ ReplicationStep(finalizer, owner, held) \in {"finalizer", "annotate", "hold", "enable"}
         /\ ReplicationStep(finalizer, owner, held) = "enable" => held
  BY Zenon DEF ReplicationStep

\* The VolumeReplication, its group and its content are read.
LEMMA BeginReplicationStep == ASSUME Inv, BeginReplication PROVE Inv'
  <1> DEFINE missing == ~vgr.here \/ (vgr.named /\ ~content.here)
             step == IF ~vr.deleting
                     THEN ReplicationStep(vr.finalizer, vgr.vrOwner, content.vrFinalizer)
                     ELSE IF ~missing /\ content.handle THEN "disable" ELSE "release"
             locals == [NoLocals EXCEPT !.handle = ~missing /\ content.handle, !.vgr = vgr.here]
  <1>1. CASE UNCHANGED <<objects, storage, unrecorded, lapsed, unheeded>> /\ Return("replication", FALSE)
    BY Zenon, <1>1, QuietReturn, ReplicationLocals, ObjectTypesNow, ControlTypes DEF Return
  <1>2. CASE ReplicationFailure
    BY <1>2, ReplicationFailureStep
  <1>3. CASE /\ vr.here /\ ~(vgr.here /\ ~vgr.named) /\ (missing => vr.deleting)
             /\ UNCHANGED <<objects, storage, unrecorded, lapsed, unheeded>>
             /\ Proceed("replication", step, locals, {"vr", "vgr", "content"})
    <2>1. locals \in Locals
      <3>1. (~missing /\ content.handle) \in BOOLEAN /\ vgr.here \in BOOLEAN
        BY Zenon, ObjectTypesNow DEF Groups
      <3>2. QED
        BY Zenon, <3>1, NoneType DEF Locals
    <2>2. /\ step \in {"finalizer", "annotate", "hold", "enable", "disable", "release"}
          /\ step = "enable" => content.vrFinalizer
          /\ step \in {"finalizer", "annotate", "hold"} => ~vr.deleting
          /\ step = "release" => missing \/ ~content.handle
      BY NextReplicationStep, ObjectTypesNow DEF Contents, Groups, Replications
    <2>3. Proceed("replication", step, locals, {"vr", "vgr", "content"})
      BY Zenon, <1>3
    <2>4. {"vr", "vgr", "content"} \in SUBSET Copies
      BY Zenon DEF Copies
    <2> HIDE DEF step, locals
    <2>5. step \in Steps
      BY Zenon, <2>2 DEF Steps
    <2>6. Moves("replication") /\ pc'["replication"] = step
      BY Zenon, <2>1, <2>3, <2>4, <2>5, ProceedMoves, ReplicationLocals
    <2>7. UNCHANGED <<vgr, content, vr, pvc, storage, unrecorded, lapsed, unheeded>>
      BY Zenon, <1>3 DEF objects
    <2>8. ReplicationInv'
      <3>1. vgr.here => vgr.named /\ (content.here => content.handle)
        BY Zenon, <1>3 DEF Inv, GroupInv
      <3>2. storage.role # "none" => (vgr.here => content.here)
        BY Zenon DEF Inv, StorageInv, ContentInv, SoundContent
      <3>3. QED
        BY Zenon, <1>3, <2>2, <2>6, <2>7, <3>1, <3>2 DEF ReplicationInv
    <2>9. QED
      BY Zenon, <2>6, <2>7, <2>8, QuietReplication, ObjectTypesNow
  <1>4. QED
    BY Zenon, <1>1, <1>2, <1>3 DEF BeginReplication

\* The VolumeReplication gets its finalizer.
LEMMA AddReplicationFinalizerStep == ASSUME Inv, addFinalizerToVR PROVE Inv'
  <1> DEFINE step == ReplicationStep(TRUE, vgr.vrOwner, content.vrFinalizer)
  <1>1. CASE Conflict("replication", "vr")
    BY Zenon, <1>1, ConflictStep, ReplicationLocals
  <1>2. CASE /\ vr' = [vr EXCEPT !.finalizer = TRUE]
             /\ UNCHANGED <<vgr, content, pvc, storage, unrecorded, lapsed, unheeded>>
             /\ Proceed("replication", step, R, {})
    <2>1. /\ step \in {"annotate", "hold", "enable"} /\ {} \in SUBSET Copies
          /\ step = "enable" => content.vrFinalizer
      BY Zenon DEF ReplicationStep
    <2>2. Proceed("replication", step, R, {}) /\ pc["replication"] = "finalizer"
      BY Zenon, <1>2 DEF addFinalizerToVR, At
    <2> HIDE DEF step
    <2>3. step \in Steps
      BY Zenon, <2>1 DEF Steps
    <2>4. /\ Moves("replication") /\ pc'["replication"] = step
          /\ fresh'["replication"] = fresh["replication"] \cup {}
      BY Zenon, <2>1, <2>2, <2>3, ProceedMoves, ReplicationLocals
    <2>5. vr' \in Replications /\ vr'.here = vr.here
      BY Zenon, <1>2, ObjectTypesNow DEF Replications
    <2>6. ReplicationInv'
      BY Zenon, <1>2, <2>1, <2>2, <2>4 DEF Inv, ReplicationInv
    <2>7. QED
      BY Zenon, <1>2, <2>4, <2>5, <2>6, QuietReplication, ObjectTypesNow
  <1>3. QED
    BY Zenon, <1>1, <1>2 DEF addFinalizerToVR

\* The annotation of the VolumeReplication is put on the group.
LEMMA AnnotateByReplicationStep ==
  ASSUME Inv, annotateVolumeGroupReplicationWithOwner PROVE Inv'
  <1> DEFINE step == ReplicationStep(TRUE, TRUE, content.vrFinalizer)
  <1>1. CASE Conflict("replication", "vgr")
    BY Zenon, <1>1, ConflictStep, ReplicationLocals
  <1>2. CASE /\ vgr' = [vgr EXCEPT !.vrOwner = TRUE]
             /\ UNCHANGED <<content, vr, pvc, storage, unrecorded, lapsed, unheeded>>
             /\ Proceed("replication", step, R, {})
    <2>1. /\ step \in {"hold", "enable"} /\ {} \in SUBSET Copies
          /\ step = "enable" => content.vrFinalizer
      BY Zenon DEF ReplicationStep
    <2>2. Proceed("replication", step, R, {}) /\ pc["replication"] = "annotate"
      BY Zenon, <1>2 DEF annotateVolumeGroupReplicationWithOwner, At
    <2> HIDE DEF step
    <2>3. step \in Steps
      BY Zenon, <2>1 DEF Steps
    <2>4. /\ Moves("replication") /\ pc'["replication"] = step
          /\ fresh'["replication"] = fresh["replication"] \cup {}
      BY Zenon, <2>1, <2>2, <2>3, ProceedMoves, ReplicationLocals
    <2>5. vgr' \in Groups /\ vgr'.here = vgr.here /\ vgr'.named = vgr.named
      BY Zenon, <1>2, ObjectTypesNow DEF Groups
    <2>6. ReplicationInv'
      BY Zenon, <1>2, <2>1, <2>2, <2>4 DEF Inv, ReplicationInv
    <2>7. QED
      BY Zenon, <1>2, <2>4, <2>5, <2>6, QuietReplication, ObjectTypesNow
  <1>3. QED
    BY Zenon, <1>1, <1>2 DEF annotateVolumeGroupReplicationWithOwner

\* The VolumeReplication takes hold of the content.
LEMMA HoldContentStep == ASSUME Inv, HoldContent PROVE Inv'
  <1>1. CASE UNCHANGED <<objects, storage, unrecorded, lapsed, unheeded>> /\ Return("replication", TRUE)
    BY Zenon, <1>1, QuietReturn, ReplicationLocals, ObjectTypesNow, ControlTypes DEF Return
  <1>2. CASE /\ "content" \in fresh["replication"] /\ ~content.deleting
             /\ content' = [content EXCEPT !.vrFinalizer = TRUE]
             /\ UNCHANGED <<vgr, vr, pvc, storage, unrecorded, lapsed, unheeded>>
             /\ Proceed("replication", "enable", R, {})
    <2>1. "enable" \in Steps /\ {} \in SUBSET Copies
      BY Zenon DEF Steps
    <2>2. Moves("replication") /\ pc'["replication"] = "enable" /\ pc["replication"] = "hold"
      BY Zenon, <1>2, <2>1, ProceedMoves, ReplicationLocals DEF HoldContent, At
    <2>3. /\ content' \in Contents /\ content'.vrFinalizer
          /\ content'.here = content.here /\ content'.deleting = content.deleting
          /\ content'.finalizer = content.finalizer /\ content'.handle = content.handle
      BY Zenon, <1>2, ObjectTypesNow DEF Contents
    <2>4. ObjectTypes
      BY Zenon, <1>2, <2>3, ObjectTypesNow DEF ObjectTypes
    <2>5. content.here
      BY Zenon, <1>2, <2>2 DEF Inv, ReplicationInv
    <2>6. SoundContent(content')
      BY Zenon, <1>2, <2>3, <2>5 DEF Inv, ContentInv, SoundContent
    <2>7. ReplicationInv' /\ StorageInv'
      BY Zenon, <1>2, <2>2, <2>3 DEF Inv, ReplicationInv, StorageInv
    <2>8. QED
      BY Zenon, <1>2, <2>2, <2>3, <2>4, <2>6, <2>7, ReplicationStepInv
  <1>3. QED
    BY Zenon, <1>1, <1>2 DEF HoldContent

\* A step that changes only the role of the group in the storage, and goes on.
LEMMA RoleStep ==
  ASSUME Inv, NEW step \in Steps \ {"finalizer", "annotate", "hold", "enable"},
         Proceed("replication", step, R, {}),
         UNCHANGED <<objects, unrecorded, lapsed, unheeded>>,
         NEW role \in States \cup {"none"}, storage' = [storage EXCEPT !.role = role],
         role # "none" => storage.here /\ content.vrFinalizer /\ step # "release"
  PROVE  Inv'
  <1>1. {} \in SUBSET Copies /\ UNCHANGED <<vgr, content, vr, pvc, unrecorded, lapsed, unheeded>>
    BY Zenon DEF objects
  <1>2. Moves("replication") /\ pc'["replication"] = step
    BY Zenon, <1>1, ProceedMoves, ReplicationLocals
  <1>3. /\ storage' \in [here : BOOLEAN, members : SUBSET Claims, role : States \cup {"none"}]
        /\ storage'.here = storage.here /\ storage'.role = role
    BY Zenon, ObjectTypesNow
  <1>4. ObjectTypes
    BY Zenon, <1>1, <1>3, ObjectTypesNow DEF ObjectTypes
  <1>5. SoundContent(content')
    BY Zenon, <1>1 DEF Inv, ContentInv
  <1>6. ReplicationInv' /\ StorageInv'
    BY <1>1, <1>2, <1>3 DEF Inv, ReplicationInv, StorageInv
  <1>7. QED
    BY Zenon, <1>1, <1>2, <1>3, <1>4, <1>5, <1>6, ReplicationStepInv

\* The group is replicated.
LEMMA EnableGroupStep == ASSUME Inv, EnableGroup PROVE Inv'
  <1>1. CASE Conflict("replication", "vr")
    BY <1>1, ConflictStep, ReplicationLocals
  <1>2. CASE ReplicationFailure
    BY <1>2, ReplicationFailureStep
  <1>3. CASE /\ storage.here /\ storage' = EnableVolumeReplication(vr.state)
             /\ UNCHANGED <<objects, unrecorded, lapsed, unheeded>>
             /\ Proceed("replication", "status", R, {})
    <2>1. content.vrFinalizer
      BY Zenon DEF EnableGroup, At, Inv, ReplicationInv
    <2>2. "status" \in Steps \ {"finalizer", "annotate", "hold", "enable"}
      BY Zenon DEF Steps
    <2>3. vr.state \in States \cup {"none"}
      BY Zenon, ObjectTypesNow DEF Replications
    <2>4. storage' = [storage EXCEPT !.role = vr.state]
      BY Zenon, <1>3 DEF EnableVolumeReplication
    <2>5. QED
      BY Zenon, <1>3, <2>1, <2>2, <2>3, <2>4, RoleStep
  <1>4. QED
    BY Zenon, <1>1, <1>2, <1>3 DEF EnableGroup

\* The group is not replicated any more.
LEMMA DisableGroupStep == ASSUME Inv, disableVolumeReplication PROVE Inv'
  <1>1. "release" \in Steps \ {"finalizer", "annotate", "hold", "enable"}
    BY Zenon DEF Steps
  <1>2. /\ storage' = [storage EXCEPT !.role = "none"]
        /\ UNCHANGED <<objects, unrecorded, lapsed, unheeded>>
        /\ Proceed("replication", "release", R, {})
    BY Zenon DEF disableVolumeReplication, DisableVolumeReplication
  <1>3. QED
    BY Zenon, <1>1, <1>2, RoleStep

\* The status of the VolumeReplication is stored.
LEMMA ReplicationStatusStep == ASSUME Inv, updateReplicationStatus PROVE Inv'
  <1>1. CASE Conflict("replication", "vr")
    BY <1>1, ConflictStep, ReplicationLocals
  <1>2. CASE /\ vr' = [vr EXCEPT !.observed = vr.state]
             /\ UNCHANGED <<vgr, content, pvc, storage, unrecorded, lapsed, unheeded>>
             /\ Return("replication", FALSE)
    <2>1. vr' \in Replications /\ vr'.here = vr.here
      BY Zenon, <1>2, ObjectTypesNow DEF Replications
    <2>2. Moves("replication") /\ pc'["replication"] = "idle"
      BY Zenon, <1>2, OverMoves, ReplicationLocals, ControlTypes DEF Return
    <2>3. ReplicationInv'
      BY <2>2 DEF ReplicationInv
    <2>4. QED
      BY Zenon, <1>2, <2>1, <2>2, <2>3, QuietReplication, ObjectTypesNow
  <1>3. QED
    BY Zenon, <1>1, <1>2 DEF updateReplicationStatus

\* The VolumeReplication lets the content go.
LEMMA ReleaseContentStep == ASSUME Inv, ReleaseContent PROVE Inv'
  <1>1. CASE Conflict("replication", "content")
    BY Zenon, <1>1, ConflictStep, ReplicationLocals
  <1>2. CASE /\ content' = Unhold([content EXCEPT !.vrFinalizer = FALSE], content.finalizer, NoContent)
             /\ UNCHANGED <<vgr, vr, pvc, storage, unrecorded, lapsed, unheeded>>
             /\ Proceed("replication", "unannotate", R, {})
    <2>1. "unannotate" \in Steps /\ {} \in SUBSET Copies
      BY DEF Steps
    <2>2. /\ Moves("replication") /\ pc'["replication"] = "unannotate"
          /\ pc["replication"] = "release"
      BY Zenon, <1>2, <2>1, ProceedMoves, ReplicationLocals DEF ReleaseContent, At
    <2>3. /\ content' \in Contents /\ ~content'.vrFinalizer
          /\ \/ /\ content.deleting /\ ~content.finalizer
                /\ ~content'.here /\ ~content'.deleting /\ ~content'.finalizer /\ ~content'.handle
             \/ /\ content.deleting => content.finalizer
                /\ content'.here = content.here /\ content'.deleting = content.deleting
                /\ content'.finalizer = content.finalizer /\ content'.handle = content.handle
      BY Zenon, <1>2, ObjectTypesNow, NoneType, NoContentFields DEF Contents, Unhold
    <2>4. ObjectTypes
      BY Zenon, <1>2, <2>3, ObjectTypesNow DEF ObjectTypes
    <2>5. SoundContent(content')
      BY Zenon, <2>3 DEF Inv, ContentInv, SoundContent
    <2>6. ReplicationInv'
      BY Zenon, <2>2 DEF ReplicationInv
    <2>7. StorageInv'
      BY <1>2, <2>2, <2>3 DEF Inv, StorageInv, ReplicationInv, ContentInv, SoundContent
    <2>8. QED
      BY Zenon, <1>2, <2>2, <2>3, <2>4, <2>5, <2>6, <2>7, ReplicationStepInv
  <1>3. QED
    BY Zenon, <1>1, <1>2 DEF ReleaseContent

\* The annotation of the VolumeReplication is taken off the group.
LEMMA UnannotateByReplicationStep == ASSUME Inv, removeOwnerFromVGRAnnotation PROVE Inv'
  <1>1. CASE UNCHANGED <<objects, storage, unrecorded, lapsed, unheeded>> /\ Return("replication", TRUE)
    BY Zenon, <1>1, QuietReturn, ReplicationLocals, ObjectTypesNow, ControlTypes DEF Return
  <1>2. CASE /\ vgr' = [vgr EXCEPT !.vrOwner = FALSE]
             /\ UNCHANGED <<content, vr, pvc, storage, unrecorded, lapsed, unheeded>>
             /\ Proceed("replication", "remove", R, {})
    <2>1. vgr' \in Groups /\ vgr'.here = vgr.here /\ vgr'.named = vgr.named
      BY Zenon, <1>2, ObjectTypesNow DEF Groups
    <2>2. "remove" \in Steps /\ {} \in SUBSET Copies
      BY DEF Steps
    <2>3. Moves("replication") /\ pc'["replication"] = "remove"
      BY Zenon, <1>2, <2>2, ProceedMoves, ReplicationLocals
    <2>4. ReplicationInv'
      BY Zenon, <2>3 DEF ReplicationInv
    <2>5. QED
      BY Zenon, <1>2, <2>1, <2>3, <2>4, QuietReplication, ObjectTypesNow
  <1>3. QED
    BY Zenon, <1>1, <1>2 DEF removeOwnerFromVGRAnnotation

\* The VolumeReplication is let go, and is gone.
LEMMA RemoveReplicationStep == ASSUME Inv, removeFinalizerFromVR PROVE Inv'
  <1>1. CASE Conflict("replication", "vr")
    BY <1>1, ConflictStep, ReplicationLocals
  <1>2. CASE /\ vr' = NoReplication
             /\ UNCHANGED <<vgr, content, pvc, storage, unrecorded, lapsed, unheeded>>
             /\ Return("replication", FALSE)
    <2>1. vr' \in Replications /\ ~vr'.here
      BY Zenon, <1>2, NoneType DEF NoReplication
    <2>2. Moves("replication") /\ pc'["replication"] = "idle"
      BY Zenon, <1>2, OverMoves, ReplicationLocals, ControlTypes DEF Return
    <2>3. ReplicationInv'
      BY <2>2 DEF ReplicationInv
    <2>4. QED
      BY Zenon, <1>2, <2>1, <2>2, <2>3, QuietReplication, ObjectTypesNow
  <1>3. QED
    BY Zenon, <1>1, <1>2 DEF removeFinalizerFromVR

\* Every step of the VolumeReplication's controller.
LEMMA ReplicationControllerStep == ASSUME Inv, ReplicationController PROVE Inv'
  BY Zenon, BeginReplicationStep, AddReplicationFinalizerStep, AnnotateByReplicationStep,
     HoldContentStep,
     EnableGroupStep, ReplicationStatusStep, DisableGroupStep, ReleaseContentStep,
     UnannotateByReplicationStep, RemoveReplicationStep DEF ReplicationController

-----------------------------------------------------------------------------
(* Users, Kubernetes and faults.                                           *)

\* The group is deleted or asked for another state.
LEMMA EditGroupStep == ASSUME Inv, EditGroup PROVE Inv'
  <1>1. edits' \in [kinds : SUBSET GroupEdits, left : Nat]
    BY Zenon, EditCount DEF EditGroup
  <1>2. /\ Moves("none") /\ UNCHANGED <<storage, unrecorded, lapsed, unheeded, pc, loc>>
        /\ UNCHANGED <<content, vr, pvc>>
    BY Zenon, <1>1, ExternalMoves DEF EditGroup
  <1>3. vgr' \in Groups /\ (vgr'.here => vgr.here /\ vgr'.named = vgr.named)
    <2>1. CASE vgr' = NoGroup
      BY Zenon, <2>1, NoneType DEF NoGroup
    <2>2. CASE vgr' = [vgr EXCEPT !.deleting = TRUE]
      BY Zenon, <2>2, ObjectTypesNow DEF Groups
    <2>3. ASSUME NEW s \in States, vgr' = [vgr EXCEPT !.state = s]
          PROVE  vgr' \in Groups /\ (vgr'.here => vgr.here /\ vgr'.named = vgr.named)
      BY Zenon, <2>3, ObjectTypesNow DEF Groups
    <2>4. QED
      BY Zenon, <2>1, <2>2, <2>3 DEF EditGroup, Delete
  <1>4. ObjectTypes
    BY Zenon, <1>2, <1>3, ObjectTypesNow DEF ObjectTypes
  <1>5. QED
    BY Zenon, <1>2, <1>3, <1>4, QuietGroup

\* A claim is changed by somebody else.
LEMMA OtherClaimStep ==
  ASSUME Inv, NEW p \in Claims, NEW x \in ClaimObjects, pvc' = [pvc EXCEPT ![p] = x],
         edits' \in [kinds : SUBSET GroupEdits, left : Nat], External, UNCHANGED <<vgr, content, vr>>
  PROVE  Inv'
  <1>1. Moves("none") /\ UNCHANGED <<storage, unrecorded, lapsed, unheeded, pc, loc>>
    BY Zenon, ExternalMoves
  <1>2. ObjectTypes
    BY Zenon, <1>1, ObjectTypesNow DEF ObjectTypes
  <1>3. QED
    BY Zenon, <1>1, <1>2, QuietGroup

\* A claim is labelled, deleted or created.
LEMMA EditClaimStep == ASSUME Inv, NEW p \in Claims, EditClaim(p) PROVE Inv'
  <1>1. edits' \in [kinds : SUBSET GroupEdits, left : Nat]
    BY Zenon, EditCount DEF EditClaim
  <1>2. /\ [pvc[p] EXCEPT !.label = ~@] \in ClaimObjects
        /\ Delete(pvc[p], pvc[p].finalizer, NoClaim) \in ClaimObjects
    BY Zenon, ObjectTypesNow, NoneType DEF ClaimObjects, Delete
  <1>3. \E x \in ClaimObjects : pvc' = [pvc EXCEPT ![p] = x]
    BY Zenon, <1>2, NoneType DEF EditClaim
  <1>4. QED
    BY Zenon, <1>1, <1>3, OtherClaimStep DEF EditClaim

\* A claim is bound.
LEMMA BindVolumeStep == ASSUME Inv, NEW p \in Claims, BindVolume(p) PROVE Inv'
  <1> DEFINE x == [pvc[p] EXCEPT !.bound = TRUE]
  <1>1. x \in ClaimObjects /\ pvc' = [pvc EXCEPT ![p] = x]
    BY Zenon, ObjectTypesNow DEF ClaimObjects, BindVolume
  <1> HIDE DEF x
  <1>2. QED
    BY Zenon, <1>1, OtherClaimStep, ControlTypes DEF BindVolume

\* A VolumeReplication is deleted by somebody else.
LEMMA OtherDeletesReplication ==
  ASSUME Inv, vr' = Delete(vr, vr.finalizer, NoReplication), UNCHANGED <<vgr, content, pvc>>,
         edits' \in [kinds : SUBSET GroupEdits, left : Nat], External
  PROVE  Inv'
  <1>1. Moves("none") /\ UNCHANGED <<storage, unrecorded, lapsed, unheeded, pc, loc>>
    BY Zenon, ExternalMoves
  <1>2. vr' \in Replications /\ (vr'.here => vr.here)
    BY Zenon, DeletedReplication
  <1>3. ObjectTypes
    BY Zenon, <1>1, <1>2, ObjectTypesNow DEF ObjectTypes
  <1>4. SameContent
    BY Zenon DEF SameContent
  <1>5. GroupInv'
    BY Zenon, <1>1, <1>2 DEF Inv, GroupInv, G
  <1>6. QED
    BY Zenon, <1>1, <1>3, <1>4, <1>5, GroupStep

\* A user deletes the content or the VolumeReplication.
LEMMA DeleteDependentStep == ASSUME Inv, DeleteDependent PROVE Inv'
  <1>1. edits' \in [kinds : SUBSET GroupEdits, left : Nat] /\ External /\ UNCHANGED <<vgr, pvc>>
    BY Zenon, EditCount DEF DeleteDependent
  <1>2. CASE UNCHANGED vr /\ MarkedContent
    <2>1. Moves("none") /\ UNCHANGED <<storage, unrecorded, lapsed, unheeded, pc, loc>>
      BY Zenon, <1>1, ExternalMoves
    <2>2. content' \in Contents /\ (content'.here => content.here /\ content'.handle = content.handle)
      BY Zenon, <1>2, MarkedFields, ObjectTypesNow
    <2>3. ObjectTypes
      BY Zenon, <1>1, <1>2, <2>1, <2>2, ObjectTypesNow DEF ObjectTypes
    <2>4. GroupInv'
      BY Zenon, <1>1, <1>2, <2>1, <2>2 DEF Inv, GroupInv, G
    <2>5. QED
      BY Zenon, <1>1, <1>2, <2>1, <2>3, <2>4, GroupStep
  <1>3. CASE UNCHANGED content /\ vr' = Delete(vr, vr.finalizer, NoReplication)
    BY Zenon, <1>1, <1>3, OtherDeletesReplication
  <1>4. QED
    BY Zenon, <1>2, <1>3 DEF DeleteDependent, MarkedContent

\* The VolumeReplication of a group that is gone is deleted.
LEMMA CollectGarbageStep == ASSUME Inv, CollectGarbage PROVE Inv'
  BY Zenon, OtherDeletesReplication, ControlTypes DEF CollectGarbage

\* The informer repeats the content.
LEMMA ResyncStep == ASSUME Inv, Resync PROVE Inv'
  <1>1. UNCHANGED <<vgr, content, vr, pvc, storage, unrecorded, lapsed, unheeded, pc, loc, fresh,
                    edits, faults>>
        /\ queued' = queued \cup {"content"}
    BY Zenon DEF Resync, objects
  <1>2. queued' \subseteq Controllers
    BY <1>1, ControlTypes DEF Controllers
  <1>3. TypeOK'
    BY <1>1, <1>2 DEF Inv, TypeOK
  <1>4. ContentInv' /\ ReplicationInv' /\ StorageInv' /\ GroupInv'
    BY <1>1 DEF Inv, ContentInv, ReplicationInv, StorageInv, GroupInv, G
  <1>5. QED
    BY Zenon, <1>1, <1>3, <1>4 DEF Inv

\* A call fails.
LEMMA CallFailsStep == ASSUME Inv, NEW c \in Controllers, CallFails(c) PROVE Inv'
  <1>1. faults' \in Nat
    BY ControlTypes DEF CallFails, Fault
  <1>2. unheeded' \in BOOLEAN
    BY Zenon DEF CallFails
  <1>3. QED
    BY Zenon, <1>1, <1>2, QuietReturn, ObjectTypesNow DEF CallFails

\* The manager starts again.
LEMMA CrashStep == ASSUME Inv, Crash PROVE Inv'
  <1>1. UNCHANGED <<vgr, content, vr, pvc, storage, unrecorded, lapsed, unheeded, edits>>
    BY Zenon DEF Crash, objects
  <1>2. /\ pc' = [c \in Controllers |-> "idle"] /\ loc' = [c \in Controllers |-> NoLocals]
        /\ fresh' = [c \in Controllers |-> {}] /\ queued' \subseteq Controllers
    BY Zenon DEF Crash
  <1>3. faults' \in Nat
    BY ControlTypes DEF Crash, Fault
  <1>4. TypeOK' /\ pc' \in [Controllers -> Steps]
    BY <1>1, <1>2, <1>3, NoneType DEF Inv, TypeOK, Steps
  <1>5. pc'["group"] = "idle" /\ pc'["content"] = "idle" /\ pc'["replication"] = "idle"
    BY Zenon, <1>2 DEF Controllers
  <1>6. ContentInv' /\ ReplicationInv' /\ StorageInv' /\ GroupInv'
    BY <1>1, <1>5 DEF Inv, ContentInv, ReplicationInv, StorageInv, GroupInv
  <1>7. QED
    BY Zenon, <1>4, <1>6 DEF Inv

-----------------------------------------------------------------------------
(* The theorems.                                                           *)

\* The invariant holds at the start.
LEMMA InitInv == ASSUME Init PROVE Inv
  <1>1. /\ content = NoContent /\ vr = NoReplication /\ storage = NoStorage
        /\ vgr = [NoGroup EXCEPT !.here = TRUE]
        /\ pc = [c \in Controllers |-> "idle"] /\ unrecorded = FALSE
    BY Zenon DEF Init
  <1>2. pvc \in [Claims -> ClaimObjects] /\ faults \in Nat
        /\ edits \in [kinds : SUBSET GroupEdits, left : Nat]
    BY GroupAssumption DEF Init
  <1>3. /\ queued \subseteq Controllers /\ fresh \in [Controllers -> SUBSET Copies]
        /\ loc \in [Controllers -> Locals] /\ lapsed \subseteq Claims /\ unheeded \in BOOLEAN
    BY Zenon, NoneType DEF Init, Controllers
  <1>4. vgr \in Groups
    BY Zenon, <1>1, NoneType DEF Groups
  <1>5. TypeOK
    BY Zenon, <1>1, <1>2, <1>3, <1>4, NoneType, NoContentFields DEF TypeOK, NoStorage, Copies
  <1>6. /\ pc \in [Controllers -> Steps]
        /\ pc["group"] = "idle" /\ pc["content"] = "idle" /\ pc["replication"] = "idle"
    BY Zenon, <1>1 DEF Steps, Controllers
  <1>7. ~vr.here /\ ~storage.here /\ storage.role = "none"
    BY Zenon, <1>1 DEF NoReplication, NoStorage
  <1>8. ContentInv /\ ReplicationInv /\ StorageInv /\ GroupInv
    BY Zenon, <1>1, <1>6, <1>7, NoContentFields
    DEF ContentInv, SoundContent, ReplicationInv, StorageInv, GroupInv
  <1>9. QED
    BY Zenon, <1>5, <1>6, <1>8 DEF Inv

\* Every step keeps the invariant.
LEMMA NextInv == ASSUME Inv, [Next]_vars PROVE Inv'
  <1>1. CASE GroupController \/ ContentController \/ ReplicationController
    BY Zenon, <1>1, GroupControllerStep, ContentControllerStep, ReplicationControllerStep
  <1>2. CASE EditGroup \/ DeleteDependent \/ CollectGarbage \/ Resync
    BY Zenon, <1>2, EditGroupStep, DeleteDependentStep, CollectGarbageStep, ResyncStep
  <1>3. ASSUME NEW p \in Claims, EditClaim(p) \/ BindVolume(p) PROVE Inv'
    BY Zenon, <1>3, EditClaimStep, BindVolumeStep
  <1>4. ASSUME NEW c \in Controllers, CallFails(c) PROVE Inv'
    BY Zenon, <1>4, CallFailsStep
  <1>5. CASE Crash
    BY Zenon, <1>5, CrashStep
  <1>6. CASE UNCHANGED vars
    <2>1. UNCHANGED <<vgr, content, vr, pvc, storage, queued, pc, loc, fresh, unrecorded, lapsed,
                      unheeded, edits, faults>>
      BY Zenon, <1>6 DEF vars, objects
    <2>2. TypeOK'
      BY <2>1 DEF Inv, TypeOK
    <2>3. ContentInv' /\ ReplicationInv' /\ StorageInv' /\ GroupInv'
      BY <2>1 DEF Inv, ContentInv, ReplicationInv, StorageInv, GroupInv, G
    <2>4. QED
      BY Zenon, <2>1, <2>2, <2>3 DEF Inv
  <1>7. QED
    BY Zenon, <1>1, <1>2, <1>3, <1>4, <1>5, <1>6 DEF Next

\* The invariant always holds.
LEMMA AlwaysInv == Spec => []Inv
  <1>1. Init => Inv
    BY Zenon, InitInv
  <1>2. Inv /\ [Next]_vars => Inv'
    BY Zenon, NextInv
  <1>3. QED
    BY <1>1, <1>2, PTL DEF Spec

\* Type correctness, for any claims, edits and faults.
THEOREM TypeCorrect == Spec => []TypeOK
  <1>1. Inv => TypeOK
    BY Zenon DEF Inv
  <1>2. QED
    BY <1>1, AlwaysInv, PTL

\* The storage never replicates a group that has been deleted (HoldContent,
\* ReleaseContent, BeginContent), whatever is edited, fails or interleaves.
THEOREM GroupOutlives == Spec => []GroupOutlivesReplication
  <1>1. Inv => GroupOutlivesReplication
    BY Zenon DEF Inv, StorageInv, GroupOutlivesReplication
  <1>2. QED
    BY <1>1, AlwaysInv, PTL

\* When the group and the content are gone, so is the group in the storage, unless
\* its handle was never stored (RecordHandle, DeleteGroup).
THEOREM NoLeak == Spec => []NoLeakedGroup
  <1>1. Inv => NoLeakedGroup
    BY Zenon DEF Inv, StorageInv, ContentInv, SoundContent, NoLeakedGroup
  <1>2. QED
    BY <1>1, AlwaysInv, PTL
-----------------------------------------------------------------------------
(* The claims of a group are held.  A claim that is kept, by its finalizer *)
(* or because the controller has let it go, stays so whatever happens, and *)
(* only claims that are kept are stored in status, content and storage.    *)

Kept(p) == p \in lapsed \/ (pvc[p].here /\ pvc[p].finalizer)

\* Where the claims of the group are stored, with what the content controller read.
Known == vgr.refs \cup content.members \cup storage.members \cup C.members

\* The claims that the group controller has listed are kept, or to be protected yet.
\* Those it has a current copy of are there.
ListInv ==
  /\ pc["group"] = "claims" => \A p \in G.list : p \in G.add \/ Kept(p)
  /\ pc["group"] = "content" => \A p \in G.list : Kept(p)
  /\ \A p \in G.add \cap fresh["group"] : pvc[p].here

MemberInv == (\A p \in Known : Kept(p)) /\ ListInv

\* A reconcile goes on: what becomes of it, and of the others.
LEMMA Goes ==
  ASSUME Inv, NEW c \in Controllers, NEW step, NEW locals, NEW copies,
         Proceed(c, step, locals, copies)
  PROVE  /\ pc'[c] = step /\ loc'[c] = locals /\ fresh'[c] = fresh[c] \cup copies
         /\ \A d \in Controllers : d # c =>
              pc'[d] = pc[d] /\ loc'[d] = loc[d] /\ fresh'[d] = fresh[d] \ Written
  BY Zenon, ControlTypes DEF Proceed

\* A reconcile is over: what becomes of it, and of the others.
LEMMA Ends ==
  ASSUME Inv, NEW c \in Controllers, NEW again, Over(c, again)
  PROVE  /\ pc'[c] = "idle" /\ loc'[c] = NoLocals /\ fresh'[c] = {}
         /\ \A d \in Controllers : d # c =>
              pc'[d] = pc[d] /\ loc'[d] = loc[d] /\ fresh'[d] = fresh[d] \ Written
  BY Zenon, ControlTypes DEF Over

\* The controllers are three.
LEMMA ThreeControllers ==
  /\ "group" \in Controllers /\ "content" \in Controllers /\ "replication" \in Controllers
  BY Zenon DEF Controllers

\* The members and lists of what is not there.
LEMMA NoMembers ==
  /\ NoGroup.refs = {} /\ NoContent.members = {} /\ NoLocals.add = {} /\ NoLocals.members = {}
  /\ NoLocals.list = {}
  BY Zenon DEF NoGroup, NoContent, NoLocals

\* No claims change, no others are stored, and the group controller stays where it is.
LEMMA MembersRest ==
  ASSUME MemberInv, UNCHANGED <<pvc, lapsed>>, Known' \subseteq Known,
         pc'["group"] = pc["group"], loc'["group"] = loc["group"],
         fresh'["group"] \subseteq fresh["group"]
  PROVE  MemberInv'
  <1>1. \A p : Kept(p) => Kept(p)'
    BY Zenon DEF Kept
  <1>2. ListInv'
    BY Zenon, <1>1 DEF MemberInv, ListInv, G
  <1>3. QED
    BY Zenon, <1>1, <1>2 DEF MemberInv

\* No claims change, no others are stored, and the group controller goes on to a step
\* at which it has no use for its list.
LEMMA MembersLeft ==
  ASSUME MemberInv, UNCHANGED <<pvc, lapsed>>, Known' \subseteq Known,
         pc'["group"] \notin {"claims", "content"},
         \A p \in G'.add \cap fresh'["group"] : p \in G.add \cap fresh["group"]
  PROVE  MemberInv'
  <1>1. \A p : Kept(p) => Kept(p)'
    BY Zenon DEF Kept
  <1>2. ListInv'
    BY Zenon DEF MemberInv, ListInv
  <1>3. QED
    BY Zenon, <1>1, <1>2 DEF MemberInv

\* A reconcile of the group ends and no object changes its members.
LEMMA GroupEndsKept ==
  ASSUME Inv, MemberInv, NEW again, Over("group", again), UNCHANGED <<pvc, lapsed, storage>>,
         vgr'.refs = vgr.refs \/ vgr'.refs = {}, content'.members = content.members
  PROVE  MemberInv'
  <1>1. /\ pc'["group"] = "idle" /\ G' = NoLocals /\ C' = C
    BY Zenon, Ends, ThreeControllers DEF G, C, Controllers
  <1>2. Known' \subseteq Known
    BY Zenon, <1>1 DEF Known
  <1>3. \A p \in G'.add \cap fresh'["group"] : p \in G.add \cap fresh["group"]
    BY Zenon, <1>1, NoMembers
  <1>4. QED
    BY Zenon, <1>1, <1>2, <1>3, MembersLeft

\* A reconcile of the group that gives up.
LEMMA GroupFailureKept ==
  ASSUME Inv, MemberInv, setGroupReplicationFailure
  PROVE  MemberInv'
  <1>1. vgr'.refs = vgr.refs
    BY Zenon DEF Inv, TypeOK, Groups, setGroupReplicationFailure
  <1>2. Over("group", TRUE) /\ UNCHANGED <<pvc, lapsed, storage, content>>
    BY Zenon DEF setGroupReplicationFailure, Return
  <1>3. QED
    BY Zenon, <1>1, <1>2, GroupEndsKept

\* A conflict of the group controller.
LEMMA GroupConflictKept ==
  ASSUME Inv, MemberInv, NEW object, Conflict("group", object)
  PROVE  MemberInv'
  <1>1. Over("group", TRUE) /\ UNCHANGED <<vgr, pvc, lapsed, storage, content>>
    BY Zenon DEF Conflict, Return, objects
  <1>2. QED
    BY Zenon, <1>1, GroupEndsKept

\* A reconcile of the group goes on.
LEMMA GroupGoes ==
  ASSUME Inv, NEW step, NEW locals, NEW copies, Proceed("group", step, locals, copies)
  PROVE  /\ pc'["group"] = step /\ G' = locals /\ fresh'["group"] = fresh["group"] \cup copies
         /\ C' = C
  BY Goes, ThreeControllers DEF G, C, Controllers

\* A reconcile of the group goes on to a step at which it has no use for its list.
LEMMA GroupGoesKept ==
  ASSUME Inv, MemberInv, NEW step, NEW locals, NEW copies, Proceed("group", step, locals, copies),
         UNCHANGED <<pvc, lapsed, storage>>, step \notin {"claims", "content"},
         locals.add = {} \/ (locals.add = G.add /\ copies = {}),
         vgr'.refs = vgr.refs, content'.members = content.members
  PROVE  MemberInv'
  <1>1. /\ pc'["group"] = step /\ G' = locals /\ fresh'["group"] = fresh["group"] \cup copies
        /\ C' = C
    BY Zenon, GroupGoes
  <1>2. Known' \subseteq Known
    BY Zenon, <1>1 DEF Known
  <1>3. \A p \in G'.add \cap fresh'["group"] : p \in G.add \cap fresh["group"]
    BY Zenon, <1>1
  <1>4. QED
    BY Zenon, <1>1, <1>2, <1>3, MembersLeft

\* The group controller, at the steps that do not write members or claims.
LEMMA BeginGroupKept == ASSUME Inv, MemberInv, BeginGroup PROVE MemberInv'
  <1>0. UNCHANGED <<vgr, content, pvc, lapsed, storage>>
    BY Zenon DEF BeginGroup, objects
  <1>1. CASE Return("group", FALSE)
    BY Zenon, <1>0, <1>1, GroupEndsKept DEF Return
  <1>2. CASE Proceed("group",
                  IF vgr.deleting THEN "cleanupVR"
                  ELSE IF vgr.finalizer THEN "list" ELSE "finalizer",
                  [NoLocals EXCEPT !.state = vgr.state,
                                   !.safe = vgr.deleting /\ ~vgr.owner /\ ~vgr.vrOwner],
                  {"vgr"})
    <2> DEFINE step == IF vgr.deleting THEN "cleanupVR"
                       ELSE IF vgr.finalizer THEN "list" ELSE "finalizer"
               locals == [NoLocals EXCEPT !.state = vgr.state,
                                          !.safe = vgr.deleting /\ ~vgr.owner /\ ~vgr.vrOwner]
    <2>1. step \notin {"claims", "content"} /\ locals.add = {}
      BY Zenon DEF NoLocals
    <2>2. Proceed("group", step, locals, {"vgr"})
      BY Zenon, <1>2
    <2> HIDE DEF step, locals
    <2>3. QED
      BY Zenon, <1>0, <2>1, <2>2, GroupGoesKept
  <1>3. QED
    BY Zenon, <1>1, <1>2 DEF BeginGroup

\* Edits of the group keep its members.
LEMMA GroupFields ==
  ASSUME NEW x \in Groups, NEW v
  PROVE  /\ [x EXCEPT !.finalizer = v].refs = x.refs /\ [x EXCEPT !.selector = v].refs = x.refs
         /\ [x EXCEPT !.named = v].refs = x.refs /\ [x EXCEPT !.vrNamed = v].refs = x.refs
         /\ [x EXCEPT !.observed = v].refs = x.refs /\ [x EXCEPT !.owner = v].refs = x.refs
         /\ [x EXCEPT !.vrOwner = v].refs = x.refs /\ [x EXCEPT !.state = v].refs = x.refs
         /\ [x EXCEPT !.deleting = v].refs = x.refs /\ [x EXCEPT !.refs = v].refs = v
  BY Zenon DEF Groups

\* Edits of the content keep its members.
LEMMA ContentFields ==
  ASSUME NEW x \in Contents, NEW v
  PROVE  /\ [x EXCEPT !.deleting = v].members = x.members
         /\ [x EXCEPT !.finalizer = v].members = x.members
         /\ [x EXCEPT !.vrFinalizer = v].members = x.members
         /\ [x EXCEPT !.handle = v].members = x.members
         /\ [x EXCEPT !.members = v, !.provisioned = TRUE].members = v
         /\ [NoContent EXCEPT !.here = TRUE, !.members = v].members = v
  BY Zenon DEF Contents, NoContent

\* Edits of the locals keep the list and what is to be added.
LEMMA LocalFields ==
  ASSUME NEW x \in Locals, NEW v
  PROVE  /\ [x EXCEPT !.handle = v].add = x.add /\ [x EXCEPT !.observed = v].add = x.add
         /\ [x EXCEPT !.list = v].add = x.add /\ [x EXCEPT !.list = v].list = v
         /\ [x EXCEPT !.add = v].add = v /\ [x EXCEPT !.add = v].list = x.list
         /\ [x EXCEPT !.remove = v].add = x.add /\ [x EXCEPT !.remove = v].list = x.list
         /\ [x EXCEPT !.members = v].members = v
  BY Zenon DEF Locals

\* The finalizer of the group.
LEMMA AddFinalizerKept == ASSUME Inv, MemberInv, addFinalizerToVGR PROVE MemberInv'
  <1>1. CASE Conflict("group", "vgr")
    BY Zenon, <1>1, GroupConflictKept
  <1>2. CASE vgr' = [vgr EXCEPT !.finalizer = TRUE] /\ UNCHANGED <<content, pvc, storage, lapsed>>
             /\ Proceed("group", "list", G, {})
    <2>1. vgr'.refs = vgr.refs
      BY <1>2, GroupFields DEF Inv, TypeOK
    <2>2. QED
      BY <1>2, <2>1, GroupGoesKept
  <1>3. QED
    BY Zenon, <1>1, <1>2 DEF addFinalizerToVGR

\* The name of the content.
LEMMA NameContentKept == ASSUME Inv, MemberInv, NameContent PROVE MemberInv'
  <1>1. CASE Conflict("group", "vgr")
    BY <1>1, GroupConflictKept
  <1>2. CASE vgr' = [vgr EXCEPT !.named = TRUE] /\ UNCHANGED <<content, pvc, storage, lapsed>>
    <2>1. vgr'.refs = vgr.refs
      BY <1>2, GroupFields DEF Inv, TypeOK
    <2>2. CASE Proceed("group", "vr", G, {})
      BY <1>2, <2>1, <2>2, GroupGoesKept
    <2>3. CASE Return("group", FALSE)
      BY Zenon, <1>2, <2>1, <2>3, GroupEndsKept DEF Return
    <2>4. QED
      BY Zenon, <1>1, <2>2, <2>3 DEF NameContent
  <1>3. QED
    BY Zenon, <1>1, <1>2 DEF NameContent

\* The VolumeReplication.
LEMMA CreateReplicationKept ==
  ASSUME Inv, MemberInv, createOrUpdateVolumeReplicationCR
  PROVE  MemberInv'
  <1> DEFINE v == [(IF vr.here THEN vr ELSE [NoReplication EXCEPT !.here = TRUE])
                     EXCEPT !.state = G.state].observed
             step == IF vgr.vrNamed THEN "status" ELSE "vrName"
             locals == [G EXCEPT !.observed = v]
  <1>1. Proceed("group", step, locals, {}) /\ UNCHANGED <<vgr, content, pvc, storage, lapsed>>
    BY Zenon DEF createOrUpdateVolumeReplicationCR
  <1> HIDE DEF v
  <1>2. locals.add = G.add /\ step \notin {"claims", "content"}
    BY Zenon, GroupLocals, LocalFields
  <1> HIDE DEF step, locals
  <1>3. QED
    BY Zenon, <1>1, <1>2, GroupGoesKept

\* The name of the VolumeReplication.
LEMMA NameReplicationKept == ASSUME Inv, MemberInv, NameReplication PROVE MemberInv'
  <1>1. CASE Conflict("group", "vgr")
    BY <1>1, GroupConflictKept
  <1>2. CASE vgr' = [vgr EXCEPT !.vrNamed = TRUE] /\ UNCHANGED <<content, pvc, storage, lapsed>>
             /\ Proceed("group", "status", G, {})
    <2>1. vgr'.refs = vgr.refs
      BY <1>2, GroupFields DEF Inv, TypeOK
    <2>2. QED
      BY <1>2, <2>1, GroupGoesKept
  <1>3. QED
    BY Zenon, <1>1, <1>2 DEF NameReplication

\* The status of the group.
LEMMA UpdateStatusKept == ASSUME Inv, MemberInv, UpdateStatus PROVE MemberInv'
  <1>1. CASE Conflict("group", "vgr")
    BY <1>1, GroupConflictKept
  <1>2. CASE vgr' = [vgr EXCEPT !.observed = G.observed]
             /\ UNCHANGED <<content, pvc, storage, lapsed>> /\ Return("group", FALSE)
    <2>1. vgr'.refs = vgr.refs
      BY <1>2, GroupFields DEF Inv, TypeOK
    <2>2. QED
      BY Zenon, <1>2, <2>1, GroupEndsKept DEF Return
  <1>3. QED
    BY Zenon, <1>1, <1>2 DEF UpdateStatus

\* The deletion of the VolumeReplication.
LEMMA CleanupReplicationKept == ASSUME Inv, MemberInv, cleanupVR PROVE MemberInv'
  BY GroupGoesKept DEF cleanupVR

\* The group goes.
LEMMA RemoveGroupKept == ASSUME Inv, MemberInv, removeFinalizerFromVGR PROVE MemberInv'
  <1>1. vgr'.refs = vgr.refs \/ vgr'.refs = {}
    BY Zenon, NoMembers DEF removeFinalizerFromVGR
  <1>2. Over("group", FALSE) /\ UNCHANGED <<pvc, lapsed, storage, content>>
    BY Zenon DEF removeFinalizerFromVGR, Return
  <1>3. QED
    BY Zenon, <1>1, <1>2, GroupEndsKept

\* A content that is deleted has the same members, or none.
LEMMA DeletedContent ==
  ASSUME Inv, NEW held
  PROVE  Delete(content, held, NoContent).members \subseteq content.members
  BY ContentFields, NoMembers DEF Delete, Inv, TypeOK

\* The deletion of the content; the list becomes that of the status.
LEMMA CleanupContentKept == ASSUME Inv, MemberInv, cleanupVGRContent PROVE MemberInv'
  <1>0. content'.members \subseteq content.members
    BY Zenon, DeletedContent DEF cleanupVGRContent
  <1>1. UNCHANGED <<vgr, pvc, storage, lapsed>>
    BY Zenon DEF cleanupVGRContent
  <1>2. CASE Return("group", TRUE)
    <2>1. /\ pc'["group"] = "idle" /\ G' = NoLocals /\ C' = C
      BY Zenon, <1>2, Ends, ThreeControllers DEF G, C, Controllers, Return
    <2>2. Known' \subseteq Known
      BY Zenon, <1>0, <1>1, <2>1 DEF Known
    <2>3. \A p \in G'.add \cap fresh'["group"] : p \in G.add \cap fresh["group"]
      BY Zenon, <2>1, NoMembers
    <2>4. QED
      BY Zenon, <1>1, <2>1, <2>2, <2>3, MembersLeft
  <1>3. CASE Proceed("group", "claims", [G EXCEPT !.list = vgr.refs], {})
    <2> DEFINE locals == [G EXCEPT !.list = vgr.refs]
    <2>0. Proceed("group", "claims", locals, {})
      BY Zenon, <1>3
    <2>1. locals.list = vgr.refs /\ locals.add = G.add
      BY GroupLocals, LocalFields
    <2> HIDE DEF locals
    <2>2. pc'["group"] = "claims" /\ G' = locals /\ fresh'["group"] = fresh["group"] /\ C' = C
      BY <2>0, GroupGoes
    <2>3. Known' \subseteq Known
      BY <1>0, <1>1, <2>1, <2>2 DEF Known
    <2>4. \A p : Kept(p) => Kept(p)'
      BY <1>1 DEF Kept
    <2>5. \A p \in vgr.refs : Kept(p)
      BY Zenon DEF MemberInv, Known
    <2>6. ListInv'
      BY <1>1, <2>1, <2>2, <2>4, <2>5 DEF MemberInv, ListInv
    <2>7. QED
      BY Zenon, <2>3, <2>4, <2>6 DEF MemberInv
  <1>4. QED
    BY Zenon, <1>2, <1>3 DEF cleanupVGRContent

\* The claims are listed: those that are not stored yet are held already, or will be.
LEMMA ListKept == ASSUME Inv, MemberInv, ListClaims PROVE MemberInv'
  <1> DEFINE list == getMatchingPVCsFromSource
             old == vgr.refs \ list
             add == {p \in list \ vgr.refs : pvc[p].owner # "this" \/ ~pvc[p].finalizer}
             remove == {p \in old : pvc[p].owner # "none" \/ pvc[p].finalizer}
             step == IF add \cup remove = {} /\ list = vgr.refs THEN "content" ELSE "claims"
             locals == [G EXCEPT !.list = list, !.add = add, !.remove = remove,
                                 !.bound = getPVHandles(list)]
  <1>1. CASE setGroupReplicationFailure
    BY <1>1, GroupFailureKept
  <1>2. CASE Conflict("group", "vgr")
    BY <1>2, GroupConflictKept
  <1>3. CASE /\ vgr' = [vgr EXCEPT !.selector = TRUE]
             /\ UNCHANGED <<content, pvc, storage, lapsed>>
             /\ Proceed("group", step, locals, add \cup remove)
    <2>1. locals.list = list /\ locals.add = add
      BY Zenon, GroupLocals DEF Locals
    <2>2. \A p \in list : pvc[p].here
      BY Zenon DEF getMatchingPVCsFromSource
    <2>3. \A p \in list : p \in vgr.refs \/ p \in add \/ Kept(p)
      BY Zenon, <2>2 DEF Kept
    <2>4. step = "content" => list = vgr.refs
      BY Zenon
    <2>5. \A p \in add : p \in list
      BY Zenon
    <2>6. vgr'.refs = vgr.refs
      BY <1>3, GroupFields DEF Inv, TypeOK
    <2> HIDE DEF list, add, step, locals, remove
    <2>7. pc'["group"] = step /\ G' = locals /\ C' = C
      BY Zenon, <1>3, GroupGoes
    <2>8. Known' \subseteq Known
      BY Zenon, <1>3, <2>6, <2>7 DEF Known
    <2>9. \A p : Kept(p) => Kept(p)'
      BY Zenon, <1>3 DEF Kept
    <2>10. \A p \in vgr.refs : Kept(p)
      BY DEF MemberInv, Known
    <2>11. ListInv'
      BY Zenon, <1>3, <2>1, <2>2, <2>3, <2>4, <2>5, <2>7, <2>9, <2>10 DEF ListInv
    <2>12. QED
      BY <2>8, <2>9, <2>11 DEF MemberInv
  <1>4. QED
    BY Zenon, <1>1, <1>2, <1>3 DEF ListClaims

\* What a step of the group controller on a claim keeps: the claims that are kept, and
\* the list but for what is protected now.
LEMMA ClaimKept ==
  ASSUME Inv, MemberInv, UNCHANGED <<vgr, content, storage>>,
         NEW locals, Proceed("group", "claims", locals, {}), At("group", "claims"),
         \A q \in Claims : Kept(q) => Kept(q)',
         locals.list \subseteq G.list, locals.add \subseteq G.add,
         \A q \in G.add : q \in locals.add \/ Kept(q)',
         \A q \in locals.add \cap fresh["group"] : pvc'[q].here
  PROVE  MemberInv'
  <1>1. /\ pc'["group"] = "claims" /\ G' = locals /\ fresh'["group"] = fresh["group"] /\ C' = C
    BY GroupGoes
  <1>2. Known' = Known
    BY Zenon, <1>1 DEF Known
  <1>3. Known \subseteq Claims /\ G.list \subseteq Claims
    BY Zenon, GroupLocals, ControlTypes, ThreeControllers
    DEF Inv, TypeOK, Known, C, Groups, Contents, Locals
  <1>4. ListInv'
    BY Zenon, <1>1, <1>3 DEF MemberInv, ListInv, At
  <1>5. QED
    BY Zenon, <1>2, <1>3, <1>4 DEF MemberInv

\* The annotation of a claim; one that has its finalizer is held.
LEMMA AnnotateKept ==
  ASSUME Inv, MemberInv, NEW p \in Claims, annotatePVCWithOwner(p) PROVE MemberInv'
  <1>0. At("group", "claims") /\ p \in G.add
    BY Zenon DEF annotatePVCWithOwner
  <1>1. CASE setGroupReplicationFailure
    BY Zenon, <1>1, GroupFailureKept
  <1>2. CASE /\ p \in fresh["group"]
             /\ pvc' = [pvc EXCEPT ![p].owner = "this"]
             /\ UNCHANGED <<vgr, content, storage, lapsed>>
             /\ Proceed("group", "claims",
                        [G EXCEPT !.add = IF pvc[p].finalizer THEN @ \ {p} ELSE @], {})
    <2> DEFINE left == IF pvc[p].finalizer THEN G.add \ {p} ELSE G.add
               locals == [G EXCEPT !.add = left]
    <2>1. Proceed("group", "claims", locals, {})
      BY Zenon, <1>2
    <2>2. locals.add = left /\ locals.list = G.list
      BY GroupLocals, LocalFields
    <2>3. \A q \in Claims : pvc'[q].here = pvc[q].here /\ pvc'[q].finalizer = pvc[q].finalizer
      BY <1>2 DEF Inv, TypeOK, ClaimObjects
    <2>4. pvc[p].here
      BY Zenon, <1>0, <1>2 DEF MemberInv, ListInv
    <2>5. \A q \in Claims : Kept(q) => Kept(q)'
      BY <1>2, <2>3 DEF Kept
    <2>6. G.add \subseteq Claims
      BY Zenon, GroupLocals DEF Locals
    <2>7. left \subseteq G.add /\ \A q \in G.add : q \in left \/ Kept(q)'
      BY Zenon, <1>2, <2>3, <2>4, <2>6 DEF Kept
    <2>8. \A q \in left \cap fresh["group"] : pvc'[q].here
      BY Zenon, <2>3, <2>6, <2>7 DEF MemberInv, ListInv
    <2> HIDE DEF left, locals
    <2>9. QED
      BY <1>0, <1>2, <2>1, <2>2, <2>5, <2>7, <2>8, ClaimKept
  <1>3. QED
    BY Zenon, <1>1, <1>2 DEF annotatePVCWithOwner

\* The finalizer of a claim: it is there, and held from now on.
LEMMA ProtectKept ==
  ASSUME Inv, MemberInv, NEW p \in Claims, addFinalizerToPVC(p) PROVE MemberInv'
  <1> DEFINE locals == [G EXCEPT !.add = G.add \ {p}]
  <1>0. /\ At("group", "claims") /\ p \in G.add /\ p \in fresh["group"]
        /\ pvc' = [pvc EXCEPT ![p].finalizer = TRUE] /\ lapsed' = lapsed \ {p}
        /\ UNCHANGED <<vgr, content, storage>>
        /\ Proceed("group", "claims", locals, {})
    BY Zenon DEF addFinalizerToPVC
  <1>1. locals.add = G.add \ {p} /\ locals.list = G.list
    BY GroupLocals, LocalFields
  <1> HIDE DEF locals
  <1>2. /\ \A q \in Claims : pvc'[q].here = pvc[q].here
        /\ \A q \in Claims : q # p => pvc'[q].finalizer = pvc[q].finalizer
        /\ pvc'[p].finalizer
    BY <1>0 DEF Inv, TypeOK, ClaimObjects
  <1>3. pvc[p].here
    BY Zenon, <1>0 DEF MemberInv, ListInv
  <1>4. Kept(p)' /\ \A q \in Claims : Kept(q) => Kept(q)'
    BY Zenon, <1>0, <1>2, <1>3 DEF Kept
  <1>5. G.add \subseteq Claims
    BY GroupLocals DEF Locals
  <1>6. \A q \in locals.add \cap fresh["group"] : pvc'[q].here
    BY Zenon, <1>1, <1>2, <1>5 DEF MemberInv, ListInv
  <1>7. \A q \in G.add : q \in locals.add \/ Kept(q)'
    BY Zenon, <1>1, <1>4
  <1>8. QED
    BY Zenon, <1>0, <1>1, <1>4, <1>6, <1>7, ClaimKept

\* A claim that leaves the group loses its annotation.
LEMMA UnannotateKept ==
  ASSUME Inv, MemberInv, NEW p \in Claims, removeOwnerFromPVCAnnotation(p) PROVE MemberInv'
  <1>0. At("group", "claims") /\ G.add = {}
    BY Zenon DEF removeOwnerFromPVCAnnotation
  <1>1. CASE setGroupReplicationFailure \/ Conflict("group", p)
    BY Zenon, <1>1, GroupFailureKept, GroupConflictKept
  <1>2. CASE /\ pvc' = [pvc EXCEPT ![p].owner = "none"]
             /\ UNCHANGED <<vgr, content, storage, lapsed>>
             /\ Proceed("group", "claims",
                        [G EXCEPT !.remove = IF pvc[p].finalizer THEN @ ELSE @ \ {p}], {})
    <2> DEFINE left == IF pvc[p].finalizer THEN G.remove ELSE G.remove \ {p}
               locals == [G EXCEPT !.remove = left]
    <2>1. Proceed("group", "claims", locals, {})
      BY Zenon, <1>2
    <2>2. locals.add = G.add /\ locals.list = G.list
      BY GroupLocals, LocalFields
    <2> HIDE DEF locals
    <2>3. \A q \in Claims : pvc'[q].here = pvc[q].here /\ pvc'[q].finalizer = pvc[q].finalizer
      BY <1>2 DEF Inv, TypeOK, ClaimObjects
    <2>4. \A q \in Claims : Kept(q) => Kept(q)'
      BY <1>2, <2>3 DEF Kept
    <2>5. QED
      BY <1>0, <1>2, <2>1, <2>2, <2>4, ClaimKept
  <1>3. QED
    BY Zenon, <1>1, <1>2 DEF removeOwnerFromPVCAnnotation

\* A claim that leaves the group loses its finalizer: the controller lets it go.
LEMMA ReleaseKept ==
  ASSUME Inv, MemberInv, NEW p \in Claims, removeFinalizerFromPVC(p) PROVE MemberInv'
  <1> DEFINE locals == [G EXCEPT !.remove = G.remove \ {p}]
  <1>0. /\ At("group", "claims") /\ G.add = {} /\ lapsed' = lapsed \cup {p}
        /\ UNCHANGED <<vgr, content, storage>>
        /\ Proceed("group", "claims", locals, {})
    BY Zenon DEF removeFinalizerFromPVC
  <1>1. locals.add = {} /\ locals.list = G.list
    BY <1>0, GroupLocals, LocalFields
  <1> HIDE DEF locals
  <1>2. \A q \in Claims : q # p => pvc'[q] = pvc[q]
    BY Zenon DEF removeFinalizerFromPVC, Inv, TypeOK
  <1>3. \A q \in Claims : Kept(q) => Kept(q)'
    BY Zenon, <1>0, <1>2 DEF Kept
  <1>4. QED
    BY <1>0, <1>1, <1>3, ClaimKept

\* A claim of a group that is being deleted is fetched.
LEMMA FetchKept ==
  ASSUME Inv, MemberInv, NEW p \in Claims, cleanupGroupPVC(p) PROVE MemberInv'
  <1>0. At("group", "claims") /\ UNCHANGED <<vgr, content, pvc, storage, lapsed>>
    BY Zenon DEF cleanupGroupPVC, objects
  <1>1. CASE Return("group", TRUE)
    BY Zenon, <1>0, <1>1, GroupEndsKept DEF Return
  <1>2. CASE /\ pvc[p].here
             /\ Proceed("group", "claims",
                  [G EXCEPT !.list = @ \ {p},
                            !.remove = IF pvc[p].owner # "none" \/ pvc[p].finalizer
                                       THEN {p} ELSE {}], {p})
    <2> DEFINE next == IF pvc[p].owner # "none" \/ pvc[p].finalizer THEN {p} ELSE {}
               locals == [G EXCEPT !.list = @ \ {p}, !.remove = next]
    <2>1. Proceed("group", "claims", locals, {p})
      BY Zenon, <1>2
    <2>2. locals.add = G.add /\ locals.list = G.list \ {p}
      BY Zenon, GroupLocals DEF Locals
    <2> HIDE DEF next, locals
    <2>3. /\ pc'["group"] = "claims" /\ G' = locals /\ fresh'["group"] = fresh["group"] \cup {p}
          /\ C' = C
      BY Zenon, <2>1, GroupGoes
    <2>4. Known' = Known
      BY Zenon, <1>0, <2>3 DEF Known
    <2>5. \A q : Kept(q) => Kept(q)'
      BY Zenon, <1>0 DEF Kept
    <2>6. ListInv'
      BY Zenon, <1>0, <1>2, <2>2, <2>3, <2>5 DEF MemberInv, ListInv, At
    <2>7. QED
      BY Zenon, <2>4, <2>5, <2>6 DEF MemberInv
  <1>3. QED
    BY Zenon, <1>1, <1>2 DEF cleanupGroupPVC

\* The list is stored in the status: all of it is held.
LEMMA StoreKept == ASSUME Inv, MemberInv, StoreClaims PROVE MemberInv'
  <1>1. CASE Conflict("group", "vgr")
    BY <1>1, GroupConflictKept
  <1>2. CASE /\ vgr' = [vgr EXCEPT !.refs = G.list]
             /\ UNCHANGED <<content, pvc, storage, lapsed>>
             /\ Proceed("group", "content", G, {})
    <2>1. \A p \in G.list : Kept(p)
      BY Zenon DEF StoreClaims, MemberInv, ListInv, At
    <2>2. vgr'.refs = G.list
      BY <1>2, GroupFields DEF Inv, TypeOK
    <2>3. pc'["group"] = "content" /\ G' = G /\ fresh'["group"] = fresh["group"] /\ C' = C
      BY <1>2, GroupGoes
    <2>4. Known' \subseteq Known \cup G.list
      BY Zenon, <1>2, <2>2, <2>3 DEF Known
    <2>5. \A p : Kept(p) => Kept(p)'
      BY <1>2 DEF Kept
    <2>6. ListInv'
      BY Zenon, <1>2, <2>1, <2>3, <2>5 DEF MemberInv, ListInv
    <2>7. QED
      BY Zenon, <2>1, <2>4, <2>5, <2>6 DEF MemberInv
  <1>3. QED
    BY Zenon, <1>1, <1>2 DEF StoreClaims

\* The list is stored in the content.
LEMMA CreateContentKept ==
  ASSUME Inv, MemberInv, createOrUpdateVolumeGroupReplicationContentCR PROVE MemberInv'
  <1>1. CASE setGroupReplicationFailure
    BY <1>1, GroupFailureKept
  <1>2. CASE ~setGroupReplicationFailure
    <2> DEFINE stored == IF content.here
                         THEN [content EXCEPT !.members = G.list, !.provisioned = TRUE]
                         ELSE [NoContent EXCEPT !.here = TRUE, !.members = G.list]
               step == IF vgr.named THEN "vr" ELSE "name"
               locals == [G EXCEPT !.handle = stored.handle]
    <2>1. /\ At("group", "content") /\ content' = stored
          /\ UNCHANGED <<vgr, pvc, storage, lapsed>>
          /\ Return("group", FALSE) \/ Proceed("group", step, locals, {})
      BY Zenon, <1>2 DEF createOrUpdateVolumeGroupReplicationContentCR
    <2>2. stored.members = G.list
      BY ContentFields DEF Inv, TypeOK
    <2> HIDE DEF stored
    <2>3. locals.add = G.add /\ step \notin {"claims", "content"}
      BY Zenon, GroupLocals, LocalFields
    <2> HIDE DEF step, locals
    <2>4. /\ pc'["group"] \notin {"claims", "content"} /\ C' = C
          /\ G'.add \cap fresh'["group"] \subseteq G.add \cap fresh["group"]
      <3>1. CASE Return("group", FALSE)
        <4>1. pc'["group"] = "idle" /\ G' = NoLocals /\ C' = C
          BY Zenon, <3>1, Ends, ThreeControllers DEF G, C, Controllers, Return
        <4>2. QED
          BY Zenon, <4>1, NoMembers
      <3>2. CASE Proceed("group", step, locals, {})
        BY <2>3, <3>2, GroupGoes
      <3>3. QED
        BY Zenon, <2>1, <3>1, <3>2
    <2>5. \A p \in G.list : Kept(p)
      BY Zenon, <2>1 DEF MemberInv, ListInv, At
    <2>6. Known' \subseteq Known \cup G.list
      BY Zenon, <2>1, <2>2, <2>4 DEF Known
    <2>7. \A p : Kept(p) => Kept(p)'
      BY Zenon, <2>1 DEF Kept
    <2>8. ListInv'
      BY Zenon, <2>1, <2>4 DEF MemberInv, ListInv
    <2>9. QED
      BY <2>5, <2>6, <2>7, <2>8 DEF MemberInv
  <1>3. QED
    BY <1>1, <1>2

\* The group controller.
LEMMA GroupControllerKept == ASSUME Inv, MemberInv, GroupController PROVE MemberInv'
  BY Zenon, BeginGroupKept, AddFinalizerKept, ListKept, AnnotateKept, ProtectKept, UnannotateKept,
     ReleaseKept, FetchKept, StoreKept, CreateContentKept, NameContentKept,
     CreateReplicationKept, NameReplicationKept, UpdateStatusKept, CleanupReplicationKept,
     CleanupContentKept, RemoveGroupKept
  DEF GroupController

\* A reconcile of another controller goes on.
LEMMA OtherGoesKept ==
  ASSUME Inv, MemberInv, NEW c \in {"content", "replication"}, NEW step, NEW locals, NEW copies,
         Proceed(c, step, locals, copies), UNCHANGED <<pvc, lapsed>>,
         vgr'.refs = vgr.refs, content'.members \subseteq Known, storage'.members \subseteq Known,
         c = "content" => locals.members \subseteq Known
  PROVE  MemberInv'
  <1>0. c \in Controllers /\ c # "group"
    BY Zenon DEF Controllers
  <1>1. /\ pc'["group"] = pc["group"] /\ loc'["group"] = loc["group"]
        /\ fresh'["group"] \subseteq fresh["group"]
    BY <1>0, Goes, ThreeControllers
  <1>2. C'.members \subseteq Known
    <2>1. CASE c = "content"
      BY <2>1, <1>0, Goes DEF C
    <2>2. CASE c = "replication"
      BY <2>2, <1>0, Goes, ThreeControllers DEF C, Known
    <2>3. QED
      BY Zenon, <2>1, <2>2
  <1>3. Known' \subseteq Known
    BY Zenon, <1>2 DEF Known
  <1>4. QED
    BY Zenon, <1>1, <1>3, MembersRest

\* A reconcile of another controller ends.
LEMMA OtherEndsKept ==
  ASSUME Inv, MemberInv, NEW c \in {"content", "replication"}, NEW again, Over(c, again),
         UNCHANGED <<pvc, lapsed>>,
         vgr'.refs = vgr.refs, content'.members \subseteq Known, storage'.members \subseteq Known
  PROVE  MemberInv'
  <1>0. c \in Controllers /\ c # "group"
    BY Zenon DEF Controllers
  <1>1. /\ pc'["group"] = pc["group"] /\ loc'["group"] = loc["group"]
        /\ fresh'["group"] \subseteq fresh["group"]
    BY <1>0, Ends, ThreeControllers
  <1>2. C'.members \subseteq Known
    <2>1. CASE c = "content"
      BY Zenon, <2>1, <1>0, Ends, NoMembers DEF C
    <2>2. CASE c = "replication"
      BY <2>2, <1>0, Ends, ThreeControllers DEF C, Known
    <2>3. QED
      BY Zenon, <2>1, <2>2
  <1>3. Known' \subseteq Known
    BY Zenon, <1>2 DEF Known
  <1>4. QED
    BY <1>1, <1>3, MembersRest

\* What is stored is known.
LEMMA StoredKnown ==
  /\ content.members \subseteq Known /\ storage.members \subseteq Known
  /\ C.members \subseteq Known
  BY Zenon DEF Known

\* A conflict of another controller.
LEMMA OtherConflictKept ==
  ASSUME Inv, MemberInv, NEW c \in {"content", "replication"}, NEW object, Conflict(c, object)
  PROVE  MemberInv'
  <1>1. Over(c, TRUE) /\ UNCHANGED <<vgr, pvc, lapsed, storage, content>>
    BY Zenon DEF Conflict, Return, objects
  <1>2. QED
    BY Zenon, <1>1, StoredKnown, OtherEndsKept

\* What the storage does with the members.
LEMMA StorageMembers ==
  ASSUME Inv, NEW m
  PROVE  /\ CreateVolumeGroup(m).members \subseteq storage.members \cup m
         /\ ModifyVolumeGroupMembership(m).members \subseteq storage.members \cup m
         /\ DeleteVolumeGroup.members = storage.members
         /\ DisableVolumeReplication.members = storage.members
         /\ \A s : EnableVolumeReplication(s).members = storage.members
  BY Zenon DEF Inv, TypeOK, CreateVolumeGroup, ModifyVolumeGroupMembership, DeleteVolumeGroup,
         DisableVolumeReplication, EnableVolumeReplication

\* The content controller reads the members of the content.
LEMMA BeginContentKept == ASSUME Inv, MemberInv, BeginContent PROVE MemberInv'
  <1>0. UNCHANGED <<vgr, content, pvc, storage, lapsed>>
    BY Zenon DEF BeginContent, objects
  <1>1. CASE Return("content", FALSE) \/ Return("content", TRUE)
    BY Zenon, <1>0, <1>1, StoredKnown, OtherEndsKept DEF Return
  <1>2. CASE ~(Return("content", FALSE) \/ Return("content", TRUE))
    <2> DEFINE step == IF ~content.deleting
                       THEN ContentStep(vgr.owner, content.finalizer, content.handle)
                       ELSE IF content.handle THEN "delete" ELSE "unannotate"
               locals == [NoLocals EXCEPT !.handle = content.handle, !.members = content.members]
    <2>1. Proceed("content", step, locals, {"content", "vgr"})
      BY Zenon, <1>2 DEF BeginContent
    <2>2. locals.members = content.members
      BY Zenon DEF NoLocals
    <2> HIDE DEF step, locals
    <2>3. QED
      BY Zenon, <1>0, <2>1, <2>2, StoredKnown, OtherGoesKept
  <1>3. QED
    BY Zenon, <1>1, <1>2

\* The content controller and the group in the storage.
LEMMA StorageKept ==
  ASSUME Inv, MemberInv, CreateGroup \/ ModifyGroup \/ DeleteGroup PROVE MemberInv'
  <1>1. CASE CreateGroup
    <2>1. UNCHANGED <<vgr, content, pvc, lapsed>> /\ storage' = CreateVolumeGroup(C.members)
          /\ Proceed("content", "record", C, {})
      BY Zenon, <1>1 DEF CreateGroup, objects
    <2>2. storage'.members \subseteq Known
      BY Zenon, <2>1, StorageMembers, StoredKnown
    <2>3. QED
      BY Zenon, <2>1, <2>2, StoredKnown, OtherGoesKept
  <1>2. CASE ModifyGroup
    <2>1. UNCHANGED <<vgr, content, pvc, lapsed>>
          /\ storage' = ModifyVolumeGroupMembership(C.members)
          /\ Over("content", ~storage.here \/ "content" \notin fresh["content"])
      BY Zenon, <1>2 DEF ModifyGroup, objects, Return
    <2>2. storage'.members \subseteq Known
      BY Zenon, <2>1, StorageMembers, StoredKnown
    <2>3. QED
      BY Zenon, <2>1, <2>2, StoredKnown, OtherEndsKept
  <1>3. CASE DeleteGroup
    <2> DEFINE locals == [C EXCEPT !.members = {}]
    <2>0. locals.members = {}
      BY Zenon, ContentLocals, LocalFields
    <2>1. UNCHANGED <<vgr, content, pvc, lapsed>>
      BY Zenon, <1>3 DEF DeleteGroup, objects
    <2>2. CASE storage' = ModifyVolumeGroupMembership({}) /\ Proceed("content", "delete", locals, {})
      <3> HIDE DEF locals
      <3>1. storage'.members \subseteq Known
        BY <2>2, StorageMembers, StoredKnown
      <3>2. QED
        BY <2>0, <2>1, <2>2, <3>1, StoredKnown, OtherGoesKept
    <2>3. CASE storage' = DeleteVolumeGroup /\ Proceed("content", "unannotate", C, {})
      <3>1. storage'.members \subseteq Known
        BY Zenon, <2>3, StorageMembers, StoredKnown
      <3>2. QED
        BY Zenon, <2>1, <2>3, <3>1, StoredKnown, OtherGoesKept
    <2>4. QED
      BY Zenon, <1>3, <2>2, <2>3 DEF DeleteGroup
  <1>4. QED
    BY Zenon, <1>1, <1>2, <1>3

\* The other writes of the content controller keep all members.
LEMMA ContentWriteKept ==
  ASSUME Inv, MemberInv,
         \/ annotateVolumeGroupReplicationWithVGRContentOwner \/ addFinalizerToVGRContent
         \/ RecordHandle \/ removeVGRContentOwnerFromVGRAnnotation
         \/ removeFinalizerFromVGRContent
  PROVE  MemberInv'
  <1>0. CASE Conflict("content", "vgr") \/ Conflict("content", "content")
    BY Zenon, <1>0, OtherConflictKept
  <1>1. CASE annotateVolumeGroupReplicationWithVGRContentOwner /\ ~Conflict("content", "vgr")
    <2>1. vgr' = [vgr EXCEPT !.owner = TRUE] /\ UNCHANGED <<content, pvc, storage, lapsed>>
          /\ Proceed("content", ContentStep(TRUE, content.finalizer, C.handle), C, {})
      BY Zenon, <1>1 DEF annotateVolumeGroupReplicationWithVGRContentOwner
    <2>2. vgr'.refs = vgr.refs
      BY <2>1, GroupFields DEF Inv, TypeOK
    <2>3. QED
      BY Zenon, <2>1, <2>2, StoredKnown, OtherGoesKept
  <1>2. CASE addFinalizerToVGRContent /\ ~Conflict("content", "content")
    <2>1. content' = [content EXCEPT !.finalizer = TRUE] /\ UNCHANGED <<vgr, pvc, storage, lapsed>>
          /\ Proceed("content", ContentStep(TRUE, TRUE, C.handle), C, {})
      BY Zenon, <1>2 DEF addFinalizerToVGRContent
    <2>2. content'.members = content.members
      BY <2>1, ContentFields DEF Inv, TypeOK
    <2>3. QED
      BY Zenon, <2>1, <2>2, StoredKnown, OtherGoesKept
  <1>3. CASE RecordHandle /\ ~Conflict("content", "content")
    <2>1. content' = [content EXCEPT !.handle = TRUE] /\ UNCHANGED <<vgr, pvc, storage, lapsed>>
          /\ Over("content", FALSE)
      BY Zenon, <1>3 DEF RecordHandle, Return
    <2>2. content'.members = content.members
      BY <2>1, ContentFields DEF Inv, TypeOK
    <2>3. QED
      BY Zenon, <2>1, <2>2, StoredKnown, OtherEndsKept
  <1>4. CASE removeVGRContentOwnerFromVGRAnnotation /\ ~Conflict("content", "vgr")
    <2>1. vgr' = [vgr EXCEPT !.owner = FALSE] /\ UNCHANGED <<content, pvc, storage, lapsed>>
          /\ Proceed("content", "remove", C, {})
      BY Zenon, <1>4 DEF removeVGRContentOwnerFromVGRAnnotation
    <2>2. vgr'.refs = vgr.refs
      BY <2>1, GroupFields DEF Inv, TypeOK
    <2>3. QED
      BY Zenon, <2>1, <2>2, StoredKnown, OtherGoesKept
  <1>5. CASE removeFinalizerFromVGRContent /\ ~Conflict("content", "content")
    <2>1. /\ content' = Unhold([content EXCEPT !.finalizer = FALSE], content.vrFinalizer, NoContent)
          /\ UNCHANGED <<vgr, pvc, storage, lapsed>> /\ Over("content", FALSE)
      BY Zenon, <1>5 DEF removeFinalizerFromVGRContent, Return
    <2>2. content'.members \subseteq content.members
      BY <2>1, ContentFields, NoMembers DEF Inv, TypeOK, Unhold
    <2>3. QED
      BY Zenon, <2>1, <2>2, StoredKnown, OtherEndsKept
  <1>6. QED
    BY Zenon, <1>0, <1>1, <1>2, <1>3, <1>4, <1>5

\* The controller of the VolumeReplication gives up.
LEMMA ReplicationFailureKept ==
  ASSUME Inv, MemberInv, ReplicationFailure PROVE MemberInv'
  <1>1. Over("replication", TRUE) /\ UNCHANGED <<vgr, pvc, lapsed, storage, content>>
    BY Zenon DEF ReplicationFailure, Return
  <1>2. QED
    BY Zenon, <1>1, StoredKnown, OtherEndsKept

\* It ends, or goes on, and has written none of the members.
LEMMA ReplicationQuietKept ==
  ASSUME Inv, MemberInv, UNCHANGED <<vgr, content, pvc, storage, lapsed>>,
         NEW step, NEW locals, NEW copies, NEW again,
         Return("replication", again) \/ Proceed("replication", step, locals, copies)
  PROVE  MemberInv'
  <1>1. CASE Return("replication", again)
    BY Zenon, <1>1, StoredKnown, OtherEndsKept DEF Return
  <1>2. CASE Proceed("replication", step, locals, copies)
    BY Zenon, <1>2, StoredKnown, OtherGoesKept
  <1>3. QED
    BY Zenon, <1>1, <1>2

\* The VolumeReplication and the status: no members.
LEMMA ReplicationOwnKept ==
  ASSUME Inv, MemberInv, BeginReplication \/ addFinalizerToVR \/ updateReplicationStatus
                         \/ removeFinalizerFromVR
  PROVE  MemberInv'
  <1>0. CASE Conflict("replication", "vr")
    BY Zenon, <1>0, OtherConflictKept
  <1>1. CASE ReplicationFailure
    BY Zenon, <1>1, ReplicationFailureKept
  <1>2. CASE BeginReplication /\ ~ReplicationFailure
    <2> DEFINE missing == ~vgr.here \/ (vgr.named /\ ~content.here)
               step == IF ~vr.deleting
                       THEN ReplicationStep(vr.finalizer, vgr.vrOwner, content.vrFinalizer)
                       ELSE IF ~missing /\ content.handle THEN "disable" ELSE "release"
               locals == [NoLocals EXCEPT !.handle = ~missing /\ content.handle, !.vgr = vgr.here]
    <2>1. /\ UNCHANGED <<vgr, content, pvc, storage, lapsed>>
          /\ Return("replication", FALSE)
             \/ Proceed("replication", step, locals, {"vr", "vgr", "content"})
      BY Zenon, <1>2 DEF BeginReplication, objects
    <2> HIDE DEF step, locals
    <2>2. QED
      BY Zenon, <2>1, ReplicationQuietKept
  <1>3. CASE addFinalizerToVR /\ ~Conflict("replication", "vr")
    <2> DEFINE step == ReplicationStep(TRUE, vgr.vrOwner, content.vrFinalizer)
    <2>1. /\ UNCHANGED <<vgr, content, pvc, storage, lapsed>>
          /\ Proceed("replication", step, R, {})
      BY Zenon, <1>3 DEF addFinalizerToVR
    <2> HIDE DEF step
    <2>2. QED
      BY Zenon, <2>1, ReplicationQuietKept
  <1>4. CASE (updateReplicationStatus \/ removeFinalizerFromVR) /\ ~Conflict("replication", "vr")
    <2>1. UNCHANGED <<vgr, content, pvc, storage, lapsed>> /\ Return("replication", FALSE)
      BY Zenon, <1>4 DEF updateReplicationStatus, removeFinalizerFromVR
    <2>2. QED
      BY Zenon, <2>1, ReplicationQuietKept
  <1>5. QED
    BY Zenon, <1>0, <1>1, <1>2, <1>3, <1>4

\* The annotation on the group and the finalizer on the content.
LEMMA ReplicationTiesKept ==
  ASSUME Inv, MemberInv, annotateVolumeGroupReplicationWithOwner \/ HoldContent \/ ReleaseContent
                         \/ removeOwnerFromVGRAnnotation
  PROVE  MemberInv'
  <1>0. CASE Conflict("replication", "vgr") \/ Conflict("replication", "content")
    BY Zenon, <1>0, OtherConflictKept
  <1>1. CASE annotateVolumeGroupReplicationWithOwner /\ ~Conflict("replication", "vgr")
    <2> DEFINE step == ReplicationStep(TRUE, TRUE, content.vrFinalizer)
    <2>1. vgr' = [vgr EXCEPT !.vrOwner = TRUE] /\ UNCHANGED <<content, pvc, storage, lapsed>>
          /\ Proceed("replication", step, R, {})
      BY Zenon, <1>1 DEF annotateVolumeGroupReplicationWithOwner
    <2> HIDE DEF step
    <2>2. vgr'.refs = vgr.refs
      BY <2>1, GroupFields DEF Inv, TypeOK
    <2>3. QED
      BY Zenon, <2>1, <2>2, StoredKnown, OtherGoesKept
  <1>2. CASE /\ UNCHANGED <<objects, storage, lapsed>> /\ Return("replication", TRUE)
    BY Zenon, <1>2, ReplicationQuietKept DEF objects
  <1>3. CASE /\ content' = [content EXCEPT !.vrFinalizer = TRUE]
             /\ UNCHANGED <<vgr, pvc, storage, lapsed>> /\ Proceed("replication", "enable", R, {})
    <2>1. content'.members = content.members
      BY <1>3, ContentFields DEF Inv, TypeOK
    <2>2. QED
      BY Zenon, <1>3, <2>1, StoredKnown, OtherGoesKept
  <1>4. CASE ReleaseContent /\ ~Conflict("replication", "content")
    <2>1. /\ content' = Unhold([content EXCEPT !.vrFinalizer = FALSE], content.finalizer, NoContent)
          /\ UNCHANGED <<vgr, pvc, storage, lapsed>> /\ Proceed("replication", "unannotate", R, {})
      BY Zenon, <1>4 DEF ReleaseContent
    <2>2. content'.members \subseteq content.members
      BY <2>1, ContentFields, NoMembers DEF Inv, TypeOK, Unhold
    <2>3. QED
      BY Zenon, <2>1, <2>2, StoredKnown, OtherGoesKept
  <1>5. CASE /\ vgr' = [vgr EXCEPT !.vrOwner = FALSE]
             /\ UNCHANGED <<content, pvc, storage, lapsed>> /\ Proceed("replication", "remove", R, {})
    <2>1. vgr'.refs = vgr.refs
      BY <1>5, GroupFields DEF Inv, TypeOK
    <2>2. QED
      BY Zenon, <1>5, <2>1, StoredKnown, OtherGoesKept
  <1>6. QED
    BY Zenon, <1>0, <1>1, <1>2, <1>3, <1>4, <1>5 DEF HoldContent, removeOwnerFromVGRAnnotation

\* The replication is enabled and disabled.
LEMMA RoleKept ==
  ASSUME Inv, MemberInv, EnableGroup \/ disableVolumeReplication PROVE MemberInv'
  <1>1. CASE Conflict("replication", "vr") \/ ReplicationFailure
    BY Zenon, <1>1, OtherConflictKept, ReplicationFailureKept
  <1>2. CASE ~(Conflict("replication", "vr") \/ ReplicationFailure)
    <2>1. PICK step \in {"status", "release"} : Proceed("replication", step, R, {})
      BY Zenon, <1>2 DEF EnableGroup, disableVolumeReplication
    <2>2. UNCHANGED <<vgr, content, pvc, lapsed>>
      BY Zenon, <1>2 DEF EnableGroup, disableVolumeReplication, objects
    <2>3. storage'.members = storage.members
      BY <1>2, StorageMembers DEF EnableGroup, disableVolumeReplication
    <2>4. QED
      BY Zenon, <2>1, <2>2, <2>3, StoredKnown, OtherGoesKept
  <1>3. QED
    BY Zenon, <1>1, <1>2

\* The three controllers.
LEMMA ControllersKept ==
  ASSUME Inv, MemberInv, GroupController \/ ContentController \/ ReplicationController
  PROVE  MemberInv'
  <1>1. CASE ContentController
    BY Zenon, <1>1, BeginContentKept, StorageKept, ContentWriteKept DEF ContentController
  <1>2. CASE ReplicationController
    BY Zenon, <1>2, ReplicationOwnKept, ReplicationTiesKept, RoleKept DEF ReplicationController
  <1>3. QED
    BY Zenon, <1>1, <1>2, GroupControllerKept

\* A step outside of the controllers: they lose the copies of what is written.
LEMMA OutsideKept ==
  ASSUME Inv, MemberInv, External, vgr'.refs \subseteq vgr.refs,
         content'.members \subseteq content.members, \A q \in Claims : Kept(q) => Kept(q)'
  PROVE  MemberInv'
  <1>1. UNCHANGED <<storage, pc, loc>> /\ fresh'["group"] = fresh["group"] \ Written
    BY Zenon, ThreeControllers DEF External
  <1>2. Known' \subseteq Known
    BY Zenon, <1>1 DEF Known, C
  <1>3. Known \subseteq Claims /\ G.list \subseteq Claims /\ G.add \subseteq Claims
    BY GroupLocals, ControlTypes, ThreeControllers
    DEF Inv, TypeOK, Known, C, Groups, Contents, Locals
  <1>4. \A q \in Claims : q \notin Written => pvc'[q] = pvc[q]
    BY Zenon DEF Written
  <1>5. ListInv'
    BY Zenon, <1>1, <1>3, <1>4 DEF MemberInv, ListInv, G
  <1>6. QED
    BY Zenon, <1>2, <1>3, <1>5 DEF MemberInv

\* Users, the binder of volumes, the garbage collector and the informers.  A claim with
\* its finalizer is only marked.
LEMMA WorldKept ==
  ASSUME Inv, MemberInv,
         \/ EditGroup \/ DeleteDependent \/ CollectGarbage \/ Resync
         \/ \E p \in Claims : EditClaim(p) \/ BindVolume(p)
  PROVE  MemberInv'
  <1>1. CASE EditGroup
    <2>1. vgr'.refs \subseteq vgr.refs
      <3>1. vgr \in Groups
        BY Zenon DEF Inv, TypeOK
      <3>2. CASE vgr' = Delete(vgr, vgr.finalizer, NoGroup)
        BY <3>1, <3>2, GroupFields, NoMembers DEF Delete
      <3>3. CASE \E s \in States : vgr' = [vgr EXCEPT !.state = s]
        BY <3>1, <3>3, GroupFields
      <3>4. QED
        BY <1>1, <3>2, <3>3 DEF EditGroup
    <2>2. External /\ UNCHANGED <<content, pvc, lapsed>>
      BY Zenon, <1>1 DEF EditGroup, External
    <2>3. QED
      BY Zenon, <2>1, <2>2, OutsideKept DEF Kept
  <1>2. CASE DeleteDependent \/ CollectGarbage
    <2>1. content'.members \subseteq content.members
      BY Zenon, <1>2, DeletedContent DEF DeleteDependent, CollectGarbage
    <2>2. External /\ UNCHANGED <<vgr, pvc, lapsed>>
      BY Zenon, <1>2 DEF DeleteDependent, CollectGarbage, External
    <2>3. QED
      BY Zenon, <2>1, <2>2, OutsideKept DEF Kept
  <1>3. CASE Resync
    <2>1. UNCHANGED <<vgr, content, pvc, storage, lapsed, pc, loc, fresh>>
      BY Zenon, <1>3 DEF Resync, objects
    <2>2. Known' \subseteq Known
      BY Zenon, <2>1 DEF Known, C
    <2>3. QED
      BY <2>1, <2>2, MembersRest
  <1>4. ASSUME NEW p \in Claims, EditClaim(p) \/ BindVolume(p) PROVE MemberInv'
    <2>1. External /\ UNCHANGED <<vgr, content, lapsed>>
      BY Zenon, <1>4 DEF EditClaim, BindVolume, External
    <2>2. pvc \in [Claims -> ClaimObjects] /\ pvc[p] \in ClaimObjects
      BY Zenon DEF Inv, TypeOK
    <2>3. \A q \in Claims : q # p => pvc'[q] = pvc[q]
      BY Zenon, <1>4, <2>2 DEF EditClaim, BindVolume
    <2>4. pvc[p].here /\ pvc[p].finalizer => pvc'[p].here /\ pvc'[p].finalizer
      BY <1>4, <2>2 DEF EditClaim, BindVolume, Delete, ClaimObjects
    <2>5. \A q \in Claims : Kept(q) => Kept(q)'
      BY Zenon, <2>1, <2>3, <2>4 DEF Kept
    <2>6. QED
      BY Zenon, <2>1, <2>5, OutsideKept
  <1>5. QED
    BY <1>1, <1>2, <1>3, <1>4

\* Calls that fail, and restarts.
LEMMA FaultsKept ==
  ASSUME Inv, MemberInv, Crash \/ \E c \in Controllers : CallFails(c) PROVE MemberInv'
  <1>1. CASE Crash
    <2>1. /\ UNCHANGED <<vgr, content, pvc, storage, lapsed>>
          /\ pc'["group"] = "idle" /\ G' = NoLocals /\ C' = NoLocals
      BY Zenon, <1>1, ThreeControllers DEF Crash, objects, G, C
    <2>2. Known' \subseteq Known
      BY Zenon, <2>1, NoMembers DEF Known
    <2>3. QED
      BY Zenon, <2>1, <2>2, NoMembers, MembersLeft
  <1>2. ASSUME NEW c \in Controllers, CallFails(c) PROVE MemberInv'
    <2>1. PICK again \in BOOLEAN : Over(c, again)
      BY Zenon, <1>2 DEF CallFails
    <2>2. UNCHANGED <<vgr, content, pvc, storage, lapsed>>
      BY Zenon, <1>2 DEF CallFails, objects
    <2>3. CASE c = "group"
      BY <2>1, <2>2, <2>3, GroupEndsKept
    <2>4. CASE c \in {"content", "replication"}
      BY Zenon, <2>1, <2>2, <2>4, StoredKnown, OtherEndsKept
    <2>5. QED
      BY Zenon, <2>3, <2>4 DEF Controllers
  <1>3. QED
    BY Zenon, <1>1, <1>2

\* The claims of the group, as the status, the content and the storage have them, are
\* there and have the finalizer, but for those the controller has let go itself, for
\* any claims, edits and faults (annotatePVCWithOwner, addFinalizerToPVC before the
\* status, the content and CreateVolumeGroup).
THEOREM MembersHeld == Spec => []MembersAreHeld
  <1>1. Init => MemberInv
    <2>. SUFFICES ASSUME Init PROVE MemberInv
      OBVIOUS
    <2>1. vgr.refs = {} /\ content.members = {} /\ storage.members = {}
      BY Zenon, NoMembers DEF Init, NoGroup, NoStorage
    <2>2. pc["group"] = "idle" /\ G = NoLocals /\ C = NoLocals
      BY Zenon, ThreeControllers DEF Init, G, C
    <2>3. QED
      BY Zenon, <2>1, <2>2, NoMembers DEF MemberInv, Known, ListInv
  <1>2. Inv /\ MemberInv /\ [Next]_vars => MemberInv'
    <2>. SUFFICES ASSUME Inv, MemberInv, [Next]_vars PROVE MemberInv'
      BY Zenon
    <2>1. CASE UNCHANGED vars
      <3>1. UNCHANGED <<vgr, content, pvc, storage, lapsed, pc, loc, fresh>>
        BY Zenon, <2>1 DEF vars, objects
      <3>2. Known' \subseteq Known
        BY Zenon, <3>1 DEF Known, C
      <3>3. QED
        BY <3>1, <3>2, MembersRest
    <2>2. QED
      BY Zenon, <2>1, ControllersKept, WorldKept, FaultsKept DEF Next
  <1>3. MemberInv => MembersAreHeld
    BY Zenon DEF MemberInv, Known, Kept, MembersAreHeld
  <1>4. QED
    BY <1>1, <1>2, <1>3, AlwaysInv, PTL DEF Spec
=============================================================================
