------------------------ MODULE NetworkFencingProofs ------------------------
(***************************************************************************)
(* For any classes, nodes, edits and faults: the fence controller rests    *)
(* only when the storage is as the fence asks, and a class that goes       *)
(* leaves its name on no node.                                             *)
(***************************************************************************)
EXTENDS NetworkFencing, TLAPS

\* The status and the storage are what f asks for.
Served(f) ==
  IF f.valid
  THEN /\ fence.result = "Succeeded" /\ fence.message = f.state
       /\ blocked = (f.state = "Fenced")
  ELSE fence.result = "Failed"

SameSpec(f, g) ==
  f.here = g.here /\ f.deleting = g.deleting /\ f.state = g.state /\ f.valid = g.valid

\* With nothing queued, the fence controller has served the informer's copy, or
\* is about to, with a local copy of the same specification.
FenceInv ==
  /\ SoundFence(fence) /\ SoundFence(cache.fence)
  /\ cache.fence.finalizer /\ ~cache.fence.deleting => fence.finalizer
  /\ pc # "idle" => /\ fence.finalizer
                    /\ loc.here /\ loc.finalizer /\ ~loc.deleting /\ loc.valid
  /\ pc # "idle" /\ "fence" \notin queued => SameSpec(loc, cache.fence)
  /\ pc = "status" =>
       \/ loc.result = "Failed"
       \/ /\ loc.result = "Succeeded" /\ loc.message = loc.state
          /\ blocked = (loc.state = "Fenced")
  /\ /\ pc = "idle" /\ "fence" \notin queued
     /\ fence.here /\ cache.fence.here /\ ~cache.fence.deleting
     => Served(cache.fence)

\* The informers' copies of a class and of a node are of the same object or of
\* one that is gone.
ClassCopies ==
  \A c \in Classes :
    /\ SoundClass(class[c]) /\ SoundClass(cache.class[c])
    /\ cache.class[c].finalizer /\ ~cache.class[c].deleting => class[c].finalizer
    /\ cache.class[c].deleting /\ class[c].here => class[c].deleting

NodeCopies ==
  \A n \in Nodes :
    /\ SoundNode(node[n]) /\ SoundNode(cache.node[n])
    /\ cache.node[n].deleting /\ node[n].here => node[n].deleting

\* While the class controller sees to the nodes: its class has a finalizer until it
\* is done, and when the class is going, the nodes seen to have lost its name, and
\* the copies of the others show it.
WorkInv ==
  cpc = "nodes" =>
    LET c == cloc.name
    IN  /\ \A n \in cloc.todo : cloc.node[n].here
        /\ ~cloc.copy.deleting => class[c].finalizer
        /\ cloc.copy.deleting /\ class[c].finalizer =>
             class[c].deleting /\ cache.class[c].deleting
        /\ cloc.copy.deleting /\ ~cloc.failed /\ c \notin blind =>
             \A n \in Nodes :
               c \in node[n].classes /\ ~node[n].deleting =>
                 n \in cloc.todo /\ c \in cloc.node[n].classes /\ cloc.node[n].able

\* A class whose name is on a node has its finalizer.
ListedInv ==
  \A c \in Classes \ blind, n \in Nodes :
    c \in node[n].classes /\ ~node[n].deleting => class[c].finalizer

ClassInv == ClassCopies /\ NodeCopies /\ WorkInv /\ ListedInv

FencingInv == TypeOK /\ FenceInv /\ ClassInv
-----------------------------------------------------------------------------
(* Types.                                                                  *)

\* The objects that are not there have their types, and so have the local
\* variables of a class controller at rest.
LEMMA NoneType ==
  /\ NoFence \in Fences /\ NoClass \in ClassObjects /\ NewClass \in ClassObjects
  /\ NoNode \in NodeObjects /\ \A able \in BOOLEAN : NewNode(able) \in NodeObjects
  /\ NoClassLocals \in ClassLocals
  BY Zenon, FencingAssumption
  DEF NoFence, Fences, States, NoClass, NewClass, ClassObjects, NoNode, NewNode, NodeObjects,
      NoClassLocals, ClassLocals

\* The fields of an absent fence, class or node that matter.
LEMMA NoneFields ==
  /\ ~NoFence.here /\ ~NoFence.finalizer /\ ~NoFence.deleting
  /\ ~NoClass.here /\ ~NoClass.finalizer /\ ~NoClass.deleting
  /\ NewClass.here /\ ~NewClass.finalizer /\ ~NewClass.deleting
  /\ ~NoNode.here /\ ~NoNode.deleting /\ NoNode.classes = {}
  /\ \A able \in BOOLEAN : NewNode(able).here /\ ~NewNode(able).deleting
                           /\ NewNode(able).classes = {}
  BY Zenon DEF NoFence, NoClass, NewClass, NoNode, NewNode

\* The number of edits stays within its bound.
LEMMA EditCount ==
  ASSUME TypeOK, NEW kind, Edit(kind)
  PROVE  edits' \in [kinds : SUBSET FencingEdits, left : 0..MaxEdits]
  BY FencingAssumption DEF TypeOK, Edit

\* The number of faults stays within its bound.
LEMMA FaultCount == ASSUME TypeOK, NEW kind, Fault(kind) PROVE faults' \in 0..MaxFaults
  BY FencingAssumption DEF TypeOK, Fault

\* The types of the fields of a fence.
LEMMA FenceFields ==
  ASSUME NEW f \in Fences
  PROVE  /\ f.here \in BOOLEAN /\ f.deleting \in BOOLEAN /\ f.finalizer \in BOOLEAN
         /\ f.valid \in BOOLEAN /\ f.state \in States
         /\ f.result \in {"none", "Succeeded", "Failed"}
  BY Zenon DEF Fences

\* Deleting a fence keeps its type.
LEMMA DeleteFenceType == ASSUME NEW f \in Fences PROVE Delete(f, NoFence) \in Fences
  BY Zenon, NoneType DEF Delete, Fences

\* Deleting a class keeps its type.
LEMMA DeleteClassType == ASSUME NEW x \in ClassObjects PROVE Delete(x, NoClass) \in ClassObjects
  BY Zenon, NoneType DEF Delete, ClassObjects

\* Adding the finalizer keeps the type, and the specification.
LEMMA FinalizerType ==
  ASSUME NEW f \in Fences
  PROVE  LET g == [f EXCEPT !.finalizer = TRUE]
         IN  g \in Fences /\ SameSpec(g, f) /\ g.finalizer
  BY Zenon DEF Fences, SameSpec

-----------------------------------------------------------------------------
(* Steps that leave a part alone.                                          *)

\* What the invariant says of the fence depends on these only.
LEMMA FenceFrame ==
  ASSUME FenceInv, UNCHANGED <<fence, blocked, pc, loc>>, cache'.fence = cache.fence,
         ("fence" \in queued') <=> ("fence" \in queued)
  PROVE  FenceInv'
  BY Zenon DEF FenceInv, Served

\* What it says of the classes depends on these only.
LEMMA ClassFrame ==
  ASSUME ClassInv, UNCHANGED <<class, node, classifier, blind>>,
         cache'.class = cache.class, cache'.node = cache.node
  PROVE  ClassInv'
  BY Zenon DEF ClassInv, ClassCopies, NodeCopies, WorkInv, ListedInv, classifier

-----------------------------------------------------------------------------
(* The fence.                                                              *)

\* A user edits the specification of the fence.
LEMMA EditFenceStep == ASSUME FencingInv, EditFence PROVE FencingInv'
  <1>1. UNCHANGED <<cache, blocked, leader, queued, pc, loc, cpc, cloc, blind, faults, class, node>>
    BY Zenon DEF EditFence, User, fencer, classifier
  <1>2. /\ fence' \in Fences /\ edits' \in [kinds : SUBSET FencingEdits, left : 0..MaxEdits]
        /\ fence'.here = fence.here /\ fence'.deleting = fence.deleting
        /\ fence'.finalizer = fence.finalizer
        /\ fence'.result = fence.result /\ fence'.message = fence.message
    <2>0. fence \in Fences
      BY Zenon DEF FencingInv, TypeOK
    <2>1. CASE Edit("fence") /\ fence' = [fence EXCEPT !.state = CHOOSE s \in States : s # @]
      <3>1. (CHOOSE s \in States : s # fence.state) \in States
        BY Zenon DEF States
      <3>2. QED
        BY Zenon, <2>0, <2>1, <3>1, EditCount DEF Fences, FencingInv
    <2>2. CASE Edit("spec") /\ fence' = [fence EXCEPT !.valid = ~@]
      BY Zenon, <2>0, <2>2, EditCount DEF Fences, FencingInv
    <2>3. QED
      BY Zenon, <2>1, <2>2 DEF EditFence
  <1>3. TypeOK'
    BY Zenon, <1>1, <1>2 DEF FencingInv, TypeOK
  <1>4. FenceInv'
    BY Zenon, <1>1, <1>2 DEF FencingInv, FenceInv, SoundFence, SameSpec, Served
  <1>5. ClassInv'
    BY Zenon, <1>1, ClassFrame DEF FencingInv, classifier
  <1>6. QED
    BY Zenon, <1>3, <1>4, <1>5 DEF FencingInv

\* A user deletes the fence.
LEMMA DeleteFenceStep == ASSUME FencingInv, DeleteFence PROVE FencingInv'
  <1>1. UNCHANGED <<cache, blocked, leader, queued, pc, loc, cpc, cloc, blind, faults, class, node>>
    BY Zenon DEF DeleteFence, User, fencer, classifier
  <1>2. /\ fence \in Fences /\ fence' \in Fences
        /\ edits' \in [kinds : SUBSET FencingEdits, left : 0..MaxEdits]
    BY Zenon, EditCount, DeleteFenceType DEF DeleteFence, FencingInv, TypeOK
  <1>3. IF fence.finalizer
        THEN /\ fence'.here = fence.here /\ fence'.finalizer
             /\ fence'.result = fence.result /\ fence'.message = fence.message
        ELSE ~fence'.here /\ ~fence'.finalizer
    BY Zenon, <1>2, NoneFields DEF DeleteFence, Delete, Fences
  <1>4. FenceInv'
    BY Zenon, <1>1, <1>3 DEF FencingInv, FenceInv, SoundFence, SameSpec, Served
  <1>5. TypeOK'
    BY Zenon, <1>1, <1>2, <1>3 DEF FencingInv, TypeOK, FenceInv, SoundFence
  <1>6. ClassInv'
    BY <1>1, ClassFrame DEF FencingInv, classifier
  <1>7. QED
    BY Zenon, <1>4, <1>5, <1>6 DEF FencingInv

\* The informer gets the fence: a new specification is queued.
LEMMA SyncFenceStep == ASSUME FencingInv, SyncFence PROVE FencingInv'
  <1>1. UNCHANGED <<fence, class, node, blocked, leader, pc, loc, cpc, cloc, blind, edits, faults>>
    BY Zenon DEF SyncFence, Informer, objects, fencer, classifier
  <1>2. /\ cache' \in Objects /\ cache'.fence = fence
        /\ cache'.class = cache.class /\ cache'.node = cache.node
    BY Zenon DEF SyncFence, FencingInv, TypeOK, Objects
  <1>3. /\ queued \subseteq queued' /\ queued' \subseteq Classes \cup {"fence"}
        /\ "fence" \notin queued' => SameSpec(fence, cache.fence)
    BY Zenon DEF SyncFence, SameSpec, FencingInv, TypeOK
  <1>4. TypeOK'
    BY Zenon, <1>1, <1>2, <1>3 DEF FencingInv, TypeOK
  <1>5. FenceInv'
    BY <1>1, <1>2, <1>3 DEF FencingInv, FenceInv, SoundFence, SameSpec, Served
  <1>6. ClassInv'
    BY Zenon, <1>1, <1>2, ClassFrame DEF FencingInv, classifier
  <1>7. QED
    BY <1>4, <1>5, <1>6 DEF FencingInv

\* What every step of the fence controller leaves alone.
LEMMA FencerFrame ==
  ASSUME FencingInv, Fencer PROVE /\ UNCHANGED <<class, node, cache, leader, cpc, cloc, blind, edits>>
                                  /\ ClassInv'
  <1>1. UNCHANGED <<class, node, cache, leader, cpc, cloc, blind, edits>>
    BY Zenon DEF Fencer, classifier
  <1>2. QED
    BY Zenon, <1>1, ClassFrame DEF FencingInv, classifier

\* A reconcile that returns keeps the invariant, if it queues the fence again, or
\* the status is right for what is cached.
LEMMA ReturnStep ==
  ASSUME FencingInv, Fencer, NEW again \in BOOLEAN, Return(again),
         fence' \in Fences, SoundFence(fence'), blocked' \in BOOLEAN, faults' \in 0..MaxFaults,
         cache.fence.finalizer /\ ~cache.fence.deleting => fence'.finalizer,
         /\ "fence" \notin queued' /\ fence'.here /\ cache.fence.here /\ ~cache.fence.deleting
         => Served(cache.fence)'
  PROVE  FencingInv'
  <1>1. UNCHANGED <<class, node, cache, leader, cpc, cloc, blind, edits>> /\ ClassInv'
    BY Zenon, FencerFrame
  <1>2. pc' = "idle" /\ loc' \in Fences /\ queued' \subseteq Classes \cup {"fence"}
    BY Zenon, NoneType DEF Return, FencingInv, TypeOK
  <1>3. TypeOK'
    BY Zenon, <1>1, <1>2 DEF FencingInv, TypeOK
  <1>4. FenceInv'
    BY Zenon, <1>1, <1>2 DEF FencingInv, FenceInv
  <1>5. QED
    BY Zenon, <1>1, <1>3, <1>4 DEF FencingInv
\* A reconcile that leaves the fence as it is returns: it has queued the fence
\* again, or there is nothing to serve.
LEMMA LeaveStep ==
  ASSUME FencingInv, Fencer, NEW again \in BOOLEAN, Return(again), UNCHANGED <<fence, blocked>>,
         faults' \in 0..MaxFaults,
         again \/ ~cache.fence.here \/ cache.fence.deleting
  PROVE  FencingInv'
  <1>1. fence' \in Fences /\ blocked' \in BOOLEAN /\ SoundFence(fence')
        /\ (cache.fence.finalizer /\ ~cache.fence.deleting => fence'.finalizer)
    BY Zenon DEF FencingInv, TypeOK, FenceInv
  <1>2. again => "fence" \in queued'
    BY Zenon DEF Return
  <1>3. QED
    BY Zenon, <1>1, <1>2, ReturnStep

\* An update of the fence and the return.
LEMMA StoreStep ==
  ASSUME FencingInv, Fencer, NEW copy, NEW new \in Fences, NEW again \in BOOLEAN,
         StoreFence(copy, new, again), UNCHANGED <<blocked, faults>>, SoundFence(new),
         fence = copy /\ cache.fence.finalizer /\ ~cache.fence.deleting => new.finalizer,
         /\ fence = copy /\ fence' = new /\ "fence" \notin queued'
         /\ cache.fence.here /\ ~cache.fence.deleting
         => Served(cache.fence)'
  PROVE  FencingInv'
  <1>1. blocked' \in BOOLEAN /\ faults' \in 0..MaxFaults
    BY Zenon DEF FencingInv, TypeOK
  <1>2. CASE fence = copy
    <2>1. fence' = new /\ Return(again)
      BY Zenon, <1>2 DEF StoreFence
    <2>2. QED
      BY Zenon, <1>1, <1>2, <2>1, ReturnStep
  <1>3. CASE fence # copy
    <2>1. UNCHANGED fence /\ Return(TRUE)
      BY Zenon, <1>3 DEF StoreFence
    <2>2. QED
      BY Zenon, <1>1, <2>1, LeaveStep
  <1>4. QED
    BY Zenon, <1>2, <1>3

\* The reconcile of a fence up to its finalizer.
LEMMA ReconcileStep == ASSUME FencingInv, Reconcile PROVE FencingInv'
  <1> DEFINE f == cache.fence
  <1>1. f \in Fences /\ fence \in Fences /\ SoundFence(fence) /\ SoundFence(f)
        /\ (f.finalizer /\ ~f.deleting => fence.finalizer)
    BY Zenon DEF FencingInv, TypeOK, Objects, FenceInv
  <1>2. Fencer /\ UNCHANGED <<blocked, faults>> /\ faults' \in 0..MaxFaults /\ pc = "idle"
    BY Zenon DEF Reconcile, FencingInv, TypeOK
  <1>3. CASE ~f.here /\ UNCHANGED fence /\ Return(FALSE)
    BY Zenon, <1>2, <1>3, LeaveStep
  <1>4. CASE f.here /\ ~f.valid
             /\ StoreFence(f, [f EXCEPT !.result = "Failed", !.message = "none"], FALSE)
    <2> DEFINE g == [f EXCEPT !.result = "Failed", !.message = "none"]
    <2>1. /\ g \in Fences /\ SameSpec(g, f) /\ g.finalizer = f.finalizer /\ g.result = "Failed"
      BY Zenon, <1>1 DEF Fences, SameSpec
    <2>2. SoundFence(g)
      BY Zenon, <1>1, <2>1 DEF SoundFence, SameSpec
    <2>3. fence = f /\ f.finalizer /\ ~f.deleting => g.finalizer
      BY Zenon, <2>1
    <2>4. fence' = g => Served(f)'
      BY Zenon, <1>2, <1>4, <2>1, FencerFrame DEF Served
    <2>5. QED
      BY Zenon, <1>2, <1>4, <2>1, <2>2, <2>3, <2>4, StoreStep
  <1>5. CASE UNCHANGED fence /\ Return(TRUE)
    BY Zenon, <1>2, <1>5, LeaveStep
  <1>6. CASE f.deleting /\ removeFinalizerFromNetworkFence(f)
    <2>1. CASE f.finalizer
      <3>1. StoreFence(f, NoFence, FALSE)
        BY Zenon, <1>6, <2>1 DEF removeFinalizerFromNetworkFence
      <3>2. NoFence \in Fences /\ SoundFence(NoFence)
        BY Zenon, NoneType, NoneFields DEF SoundFence
      <3>3. QED
        BY Zenon, <1>2, <1>6, <3>1, <3>2, StoreStep
    <2>2. CASE ~f.finalizer
      BY Zenon, <1>2, <1>6, <2>2, LeaveStep DEF removeFinalizerFromNetworkFence
    <2>3. QED
      BY Zenon, <2>1, <2>2
  <1>7. CASE f.here /\ f.valid /\ ~f.deleting /\ addFinalizerToNetworkFence(f)
    <2>1. CASE ~(fence = f \/ f.finalizer)
      BY Zenon, <1>2, <2>1, <1>7, LeaveStep DEF addFinalizerToNetworkFence
    <2>2. CASE fence = f \/ f.finalizer
      <3> DEFINE g == [f EXCEPT !.finalizer = TRUE]
      <3>1. g \in Fences /\ SameSpec(g, f) /\ g.finalizer
        BY Zenon, <1>1, FinalizerType
      <3>2. /\ fence' = IF f.finalizer THEN fence ELSE g
            /\ loc' = g /\ pc' = "request" /\ queued' = queued \ {"fence"}
        BY Zenon, <1>7, <2>2 DEF addFinalizerToNetworkFence
      <3>3. fence' \in Fences /\ fence'.finalizer /\ fence'.here
        BY Zenon, <1>1, <1>7, <2>2, <3>1, <3>2 DEF SameSpec, SoundFence
      <3>4. UNCHANGED <<class, node, cache, leader, cpc, cloc, blind, edits>> /\ ClassInv'
        BY Zenon, <1>2, FencerFrame
      <3>5. TypeOK'
        BY Zenon, <1>2, <3>1, <3>2, <3>3, <3>4 DEF FencingInv, TypeOK
      <3>6. loc'.here /\ loc'.finalizer /\ ~loc'.deleting /\ loc'.valid /\ SameSpec(loc', cache'.fence)
        BY Zenon, <1>7, <3>1, <3>2, <3>4 DEF SameSpec
      <3>7. FenceInv'
        BY Zenon, <1>1, <3>2, <3>3, <3>4, <3>6 DEF FenceInv, SoundFence
      <3>8. QED
        BY Zenon, <3>4, <3>5, <3>7 DEF FencingInv
    <2>3. QED
      BY Zenon, <2>1, <2>2
  <1>8. QED
    BY Zenon, <1>3, <1>4, <1>5, <1>6, <1>7 DEF Reconcile

\* The request to the sidecar.
LEMMA RequestStep == ASSUME FencingInv, processFencingRequest PROVE FencingInv'
  <1>1. UNCHANGED <<class, node, cache, leader, cpc, cloc, blind, edits>> /\ ClassInv'
    BY Zenon, FencerFrame DEF processFencingRequest
  <1>2. UNCHANGED <<fence, queued>> /\ pc = "request" /\ pc' = "status"
    BY Zenon DEF processFencingRequest
  <1>3. loc \in Fences /\ loc.state \in States
    BY Zenon, FenceFields DEF FencingInv, TypeOK
  <1>4. PICK called \in BOOLEAN :
          /\ blocked' = IF loc.state = "Fenced" THEN (blocked \/ called) ELSE (blocked /\ ~called)
          /\ \/ /\ called
                /\ loc' = [loc EXCEPT !.result = "Succeeded", !.message = loc.state]
                /\ UNCHANGED faults
             \/ /\ Fault("rpc")
                /\ loc' = [loc EXCEPT !.result = "Failed", !.message = "none"]
    BY Zenon DEF processFencingRequest, FenceClusterNetwork, UnFenceClusterNetwork
  <1>5. /\ loc' \in Fences /\ SameSpec(loc', loc) /\ loc'.finalizer = loc.finalizer
        /\ faults' \in 0..MaxFaults
        /\ \/ loc'.result = "Failed"
           \/ loc'.result = "Succeeded" /\ loc'.message = loc.state /\ called
    <2>1. CASE called /\ loc' = [loc EXCEPT !.result = "Succeeded", !.message = loc.state]
               /\ UNCHANGED faults
      BY Zenon, <1>3, <2>1 DEF FencingInv, TypeOK, Fences, SameSpec
    <2>2. CASE Fault("rpc") /\ loc' = [loc EXCEPT !.result = "Failed", !.message = "none"]
      BY Zenon, <1>3, <2>2, FaultCount DEF FencingInv, Fences, SameSpec
    <2>3. QED
      BY Zenon, <1>4, <2>1, <2>2
  <1>6. blocked' \in BOOLEAN /\ (called => blocked' = (loc.state = "Fenced"))
    BY Zenon, <1>4 DEF FencingInv, TypeOK
  <1>7. TypeOK'
    BY Zenon, <1>1, <1>2, <1>5, <1>6 DEF FencingInv, TypeOK
  <1>8. FenceInv'
    BY Zenon, <1>1, <1>2, <1>5, <1>6 DEF FencingInv, FenceInv, SoundFence, SameSpec
  <1>9. QED
    BY Zenon, <1>1, <1>7, <1>8 DEF FencingInv

\* The status is stored.
LEMMA StatusStep == ASSUME FencingInv, updateStatus PROVE FencingInv'
  <1> DEFINE read == [loc EXCEPT !.result = fence.result, !.message = fence.message]
  <1>1. Fencer /\ UNCHANGED <<blocked, faults>> /\ StoreFence(read, loc, loc.result = "Failed")
    BY Zenon DEF updateStatus
  <1>2. /\ pc = "status" /\ loc \in Fences
        /\ loc.here /\ loc.finalizer /\ ~loc.deleting /\ loc.valid /\ SoundFence(loc)
    BY Zenon DEF updateStatus, FencingInv, TypeOK, FenceInv, SoundFence
  <1>3. ASSUME fence = read, fence' = loc, "fence" \notin queued'
        PROVE  Served(cache.fence)'
    <2>1. Return(loc.result = "Failed")
      BY Zenon, <1>1, <1>3 DEF StoreFence
    <2>2. loc.result # "Failed" /\ "fence" \notin queued
      BY Zenon, <1>2, <2>1, <1>3 DEF Return
    <2>3. /\ SameSpec(loc, cache.fence)
          /\ loc.result = "Succeeded" /\ loc.message = loc.state
          /\ blocked = (loc.state = "Fenced")
      BY Zenon, <1>2, <2>2 DEF FencingInv, FenceInv
    <2>4. cache' = cache
      BY Zenon, <1>1 DEF Fencer
    <2>5. QED
      BY Zenon, <1>1, <1>2, <1>3, <2>3, <2>4 DEF Served, SameSpec
  <1>4. QED
    BY Zenon, <1>1, <1>2, <1>3, StoreStep

\* A call of the fence controller fails.
LEMMA FenceErrorStep == ASSUME FencingInv, FenceError PROVE FencingInv'
  <1> DEFINE f == cache.fence
  <1>1. Fencer /\ UNCHANGED blocked /\ Return(TRUE) /\ faults' \in 0..MaxFaults
        /\ blocked' \in BOOLEAN /\ "fence" \in queued'
    BY Zenon, FaultCount DEF FenceError, FencingInv, TypeOK, Return
  <1>2. CASE UNCHANGED fence
    BY Zenon, <1>1, <1>2, LeaveStep
  <1>3. CASE ~f.finalizer /\ fence = f
             /\ fence' = [f EXCEPT !.result = "Failed", !.message = "none"]
    <2>0. f \in Fences /\ SoundFence(f)
      BY Zenon DEF FencingInv, TypeOK, Objects, FenceInv
    <2>1. fence' \in Fences /\ SoundFence(fence')
      BY Zenon, <1>3, <2>0 DEF Fences, SoundFence
    <2>2. QED
      BY Zenon, <1>1, <1>3, <2>1, ReturnStep
  <1>4. QED
    BY Zenon, <1>2, <1>3 DEF FenceError
-----------------------------------------------------------------------------
(* Classes and nodes.                                                      *)

\* A user creates, edits or deletes a class.
LEMMA EditClassStep == ASSUME FencingInv, NEW c \in Classes, EditClass(c) PROVE FencingInv'
  <1>1. UNCHANGED <<cache, blocked, leader, queued, pc, loc, cpc, cloc, blind, faults, fence, node>>
    BY Zenon DEF EditClass, User, fencer, classifier
  <1>2. edits' \in [kinds : SUBSET FencingEdits, left : 0..MaxEdits]
    BY Zenon, EditCount DEF EditClass, FencingInv
  <1>3. /\ class \in [Classes -> ClassObjects] /\ class[c] \in ClassObjects
        /\ SoundClass(class[c]) /\ SoundClass(cache.class[c])
    BY Zenon DEF FencingInv, TypeOK, ClassInv, ClassCopies
  <1>4. PICK x \in ClassObjects :
          /\ class' = [class EXCEPT ![c] = x]
          /\ SoundClass(x)
          /\ \/ /\ x.here = class[c].here /\ x.finalizer = class[c].finalizer
                /\ class[c].deleting => x.deleting
             \/ ~class[c].finalizer /\ ~x.finalizer /\ ~x.here
             \/ ~class[c].finalizer /\ ~x.finalizer /\ ~cache.class[c].here
    <2>1. CASE class[c].here /\ class' = [class EXCEPT ![c].valid = ~@]
      <3> DEFINE x == [class[c] EXCEPT !.valid = ~@]
      <3>1. /\ x \in ClassObjects /\ x.here = class[c].here /\ x.finalizer = class[c].finalizer
            /\ x.deleting = class[c].deleting
        BY Zenon, <1>3 DEF ClassObjects
      <3>2. class' = [class EXCEPT ![c] = x]
        BY Zenon, <2>1
      <3>3. SoundClass(x)
        BY Zenon, <1>3, <3>1 DEF SoundClass
      <3>4. QED
        BY Zenon, <3>1, <3>2, <3>3
    <2>2. CASE class[c].here /\ class' = [class EXCEPT ![c] = Delete(@, NoClass)]
      <3> DEFINE x == Delete(class[c], NoClass)
      <3>1. x \in ClassObjects
        BY Zenon, <1>3, DeleteClassType
      <3>2. IF class[c].finalizer
            THEN x.here = class[c].here /\ x.finalizer = class[c].finalizer /\ x.deleting
            ELSE ~x.finalizer /\ ~x.here /\ ~x.deleting
        BY Zenon, <1>3, NoneFields DEF Delete, ClassObjects
      <3>3. SoundClass(x)
        BY Zenon, <1>3, <3>2 DEF SoundClass
      <3>4. QED
        BY Zenon, <2>2, <3>1, <3>2, <3>3
    <2>3. CASE ~class[c].here /\ ~cache.class[c].here /\ class' = [class EXCEPT ![c] = NewClass]
      BY Zenon, <1>3, <2>3, NoneType, NoneFields DEF SoundClass
    <2>4. QED
      BY Zenon, <2>1, <2>2, <2>3 DEF EditClass
  <1>5. class' \in [Classes -> ClassObjects] /\ class'[c] = x
        /\ \A d \in Classes : d # c => class'[d] = class[d]
    BY Zenon, <1>3, <1>4
  <1>6. TypeOK'
    BY Zenon, <1>1, <1>2, <1>5 DEF FencingInv, TypeOK
  <1>7. FenceInv'
    BY Zenon, <1>1, FenceFrame DEF FencingInv
  <1>8. ClassCopies' /\ NodeCopies'
    BY <1>1, <1>3, <1>4, <1>5 DEF FencingInv, ClassInv, ClassCopies, NodeCopies, SoundClass
  <1>9. WorkInv'
    BY <1>1, <1>4, <1>5, <1>3 DEF FencingInv, ClassInv, WorkInv, SoundClass, TypeOK, ClassLocals
  <1>10. ListedInv'
    BY Zenon, <1>1, <1>4, <1>5, <1>3 DEF FencingInv, ClassInv, ListedInv, SoundClass
  <1>11. QED
    BY Zenon, <1>6, <1>7, <1>8, <1>9, <1>10 DEF FencingInv, ClassInv

\* A node comes, is marked, or goes: it lists no class that it did not list.
LEMMA NodeStep ==
  ASSUME FencingInv, NEW n \in Nodes, NEW x \in NodeObjects, node' = [node EXCEPT ![n] = x],
         SoundNode(x), x.classes \subseteq node[n].classes,
         node[n].deleting => x.deleting \/ x.classes = {},
         cache.node[n].deleting /\ x.here => x.deleting,
         UNCHANGED <<cache, blocked, leader, queued, pc, loc, cpc, cloc, blind, faults, fence, class>>,
         edits' \in [kinds : SUBSET FencingEdits, left : 0..MaxEdits]
  PROVE  FencingInv'
  <1>1. /\ node \in [Nodes -> NodeObjects] /\ node' \in [Nodes -> NodeObjects]
        /\ node'[n] = x /\ \A o \in Nodes : o # n => node'[o] = node[o]
    BY Zenon DEF FencingInv, TypeOK
  <1>2. TypeOK'
    BY Zenon, <1>1 DEF FencingInv, TypeOK
  <1>3. FenceInv'
    BY Zenon, FenceFrame DEF FencingInv
  <1>4. ClassCopies' /\ NodeCopies'
    BY Zenon, <1>1 DEF FencingInv, ClassInv, ClassCopies, NodeCopies
  <1>5. \A d \in Classes, o \in Nodes :
          d \in node'[o].classes /\ ~node'[o].deleting =>
            d \in node[o].classes /\ ~node[o].deleting
    BY Zenon, <1>1
  <1>6. WorkInv'
    BY Zenon, <1>1, <1>5 DEF FencingInv, ClassInv, WorkInv, TypeOK, ClassLocals
  <1>7. ListedInv'
    BY Zenon, <1>5 DEF FencingInv, ClassInv, ListedInv
  <1>8. QED
    BY Zenon, <1>2, <1>3, <1>4, <1>6, <1>7 DEF FencingInv, ClassInv

\* The facts about a node that the next lemmas start from.
LEMMA NodeFacts ==
  ASSUME FencingInv, NEW n \in Nodes
  PROVE  /\ node \in [Nodes -> NodeObjects] /\ node[n] \in NodeObjects
         /\ SoundNode(node[n]) /\ SoundNode(cache.node[n])
         /\ cache.node[n].deleting /\ node[n].here => node[n].deleting
  BY Zenon DEF FencingInv, TypeOK, ClassInv, NodeCopies

\* A sidecar comes with its node, or goes.
LEMMA EditNodeStep == ASSUME FencingInv, NEW n \in Nodes, EditNode(n) PROVE FencingInv'
  <1>1. UNCHANGED <<cache, blocked, leader, queued, pc, loc, cpc, cloc, blind, faults, fence, class>>
    BY Zenon DEF EditNode, User, fencer, classifier
  <1>2. edits' \in [kinds : SUBSET FencingEdits, left : 0..MaxEdits]
    BY Zenon, EditCount DEF EditNode, FencingInv
  <1>3. ASSUME NEW able \in BOOLEAN, ~node[n].here, ~cache.node[n].here,
               node' = [node EXCEPT ![n] = NewNode(able)]
        PROVE  FencingInv'
    <2>1. NewNode(able) \in NodeObjects /\ SoundNode(NewNode(able))
          /\ NewNode(able).classes = {} /\ ~cache.node[n].deleting
      BY Zenon, <1>3, NoneType, NoneFields, NodeFacts DEF SoundNode
    <2>2. QED
      BY Zenon, <1>1, <1>2, <1>3, <2>1, NodeStep
  <1>4. CASE node[n].here /\ node' = [node EXCEPT ![n].deleting = TRUE]
    <2> DEFINE x == [node[n] EXCEPT !.deleting = TRUE]
    <2>1. x \in NodeObjects /\ x.deleting /\ x.here = node[n].here /\ x.able = node[n].able
          /\ x.classes = node[n].classes
      BY Zenon, NodeFacts DEF NodeObjects
    <2>2. SoundNode(x)
      BY Zenon, <1>4, <2>1, NodeFacts DEF SoundNode
    <2>3. node' = [node EXCEPT ![n] = x]
      BY Zenon, <1>4
    <2>4. x.classes \subseteq node[n].classes
      BY Zenon, <2>1
    <2>5. QED
      BY Zenon, <1>1, <1>2, <2>1, <2>2, <2>3, <2>4, NodeStep
  <1>5. QED
    BY Zenon, <1>3, <1>4 DEF EditNode

\* The node controller lets a node go.
LEMMA RemoveNodeStep == ASSUME FencingInv, NEW n \in Nodes, RemoveNode(n) PROVE FencingInv'
  <1>1. /\ UNCHANGED <<cache, blocked, leader, queued, pc, loc, cpc, cloc, blind, faults, fence, class>>
        /\ edits' \in [kinds : SUBSET FencingEdits, left : 0..MaxEdits]
    BY Zenon DEF RemoveNode, User, fencer, classifier, FencingInv, TypeOK
  <1>2. NoNode \in NodeObjects /\ SoundNode(NoNode) /\ NoNode.classes = {} /\ ~NoNode.here
    BY Zenon, NoneType, NoneFields DEF SoundNode
  <1>3. QED
    BY Zenon, <1>1, <1>2, NodeStep DEF RemoveNode

\* The node controller connects and stores the capabilities.
LEMMA ConnectNodeStep == ASSUME FencingInv, NEW n \in Nodes, ConnectNode(n) PROVE FencingInv'
  <1> DEFINE x == [node[n] EXCEPT !.known = TRUE]
  <1>1. /\ UNCHANGED <<cache, blocked, leader, queued, pc, loc, cpc, cloc, blind, faults, fence, class>>
        /\ edits' \in [kinds : SUBSET FencingEdits, left : 0..MaxEdits]
    BY Zenon DEF ConnectNode, Classifier, fencer, classifier, FencingInv, TypeOK
  <1>2. x \in NodeObjects /\ x.deleting = node[n].deleting /\ x.here = node[n].here
        /\ x.able = node[n].able /\ x.classes = node[n].classes
    BY Zenon, NodeFacts DEF NodeObjects
  <1>3. SoundNode(x)
    BY Zenon, <1>2, NodeFacts DEF SoundNode
  <1>4. node' = [node EXCEPT ![n] = x]
    BY Zenon DEF ConnectNode
  <1>5. /\ x.classes \subseteq node[n].classes
        /\ node[n].deleting => x.deleting \/ x.classes = {}
        /\ cache.node[n].deleting /\ x.here => x.deleting
    BY Zenon, <1>2, NodeFacts
  <1>6. QED
    BY Zenon, <1>1, <1>2, <1>3, <1>4, <1>5, NodeStep
\* The informer gets a class.
LEMMA SyncClassStep == ASSUME FencingInv, NEW c \in Classes, SyncClass(c) PROVE FencingInv'
  <1>1. UNCHANGED <<fence, class, node, blocked, leader, pc, loc, cpc, cloc, blind, edits, faults>>
    BY Zenon DEF SyncClass, Informer, objects, fencer, classifier
  <1>2. cache \in Objects /\ class \in [Classes -> ClassObjects] /\ class[c] \in ClassObjects
    BY Zenon DEF FencingInv, TypeOK
  <1>3. /\ cache' \in Objects /\ cache'.fence = cache.fence /\ cache'.node = cache.node
        /\ cache'.class[c] = class[c]
        /\ \A d \in Classes : d # c => cache'.class[d] = cache.class[d]
    BY Zenon, <1>2 DEF SyncClass, Objects
  <1>4. queued' \subseteq Classes \cup {"fence"} /\ (("fence" \in queued') <=> ("fence" \in queued))
    BY Zenon, FencingAssumption DEF SyncClass, FencingInv, TypeOK
  <1>5. TypeOK'
    BY Zenon, <1>1, <1>3, <1>4 DEF FencingInv, TypeOK
  <1>6. FenceInv'
    BY Zenon, <1>1, <1>3, <1>4, FenceFrame DEF FencingInv
  <1>7. ClassCopies' /\ NodeCopies'
    BY <1>1, <1>3 DEF FencingInv, ClassInv, ClassCopies, NodeCopies, SoundClass
  <1>8. WorkInv'
    BY Zenon, <1>1, <1>3 DEF FencingInv, ClassInv, WorkInv, TypeOK, ClassLocals
  <1>9. ListedInv'
    BY Zenon, <1>1 DEF FencingInv, ClassInv, ListedInv
  <1>10. QED
    BY Zenon, <1>5, <1>6, <1>7, <1>8, <1>9 DEF FencingInv, ClassInv

\* The informer gets a node.
LEMMA SyncNodeStep == ASSUME FencingInv, NEW n \in Nodes, SyncNode(n) PROVE FencingInv'
  <1>1. UNCHANGED <<fence, class, node, blocked, leader, pc, loc, cpc, cloc, blind, edits, faults>>
    BY Zenon DEF SyncNode, Informer, objects, fencer, classifier
  <1>2. cache \in Objects /\ node \in [Nodes -> NodeObjects] /\ node[n] \in NodeObjects
    BY Zenon DEF FencingInv, TypeOK
  <1>3. /\ cache' \in Objects /\ cache'.fence = cache.fence /\ cache'.class = cache.class
        /\ cache'.node[n] = node[n]
        /\ \A o \in Nodes : o # n => cache'.node[o] = cache.node[o]
    BY Zenon, <1>2 DEF SyncNode, Objects
  <1>4. queued' \subseteq Classes \cup {"fence"} /\ (("fence" \in queued') <=> ("fence" \in queued))
    BY Zenon, FencingAssumption DEF SyncNode, FencingInv, TypeOK
  <1>5. TypeOK'
    BY Zenon, <1>1, <1>3, <1>4 DEF FencingInv, TypeOK
  <1>6. FenceInv'
    BY Zenon, <1>1, <1>3, <1>4, FenceFrame DEF FencingInv
  <1>7. ClassCopies' /\ NodeCopies'
    BY Zenon, <1>1, <1>3 DEF FencingInv, ClassInv, ClassCopies, NodeCopies
  <1>8. WorkInv' /\ ListedInv'
    BY Zenon, <1>1, <1>3 DEF FencingInv, ClassInv, WorkInv, ListedInv
  <1>9. QED
    BY Zenon, <1>5, <1>6, <1>7, <1>8 DEF FencingInv, ClassInv

\* The class controller takes a class, and the nodes from the informer.
LEMMA BeginClassStep == ASSUME FencingInv, NEW c \in Classes, BeginClass(c) PROVE FencingInv'
  <1> DEFINE copy == cache.class[c]
             new == IF copy.deleting THEN copy ELSE [copy EXCEPT !.finalizer = TRUE]
             listed == {n \in Nodes : cache.node[n].here /\ ~cache.node[n].deleting}
  <1>1. UNCHANGED <<fence, cache, blocked, leader, pc, loc, edits, node, faults>>
    BY Zenon DEF BeginClass, Classifier, fencer
  <1>2. (queued' = queued \/ queued' = queued \ {c})
    BY Zenon DEF BeginClass
  <1>3. queued' \subseteq Classes \cup {"fence"} /\ (("fence" \in queued') <=> ("fence" \in queued))
    BY Zenon, <1>2, FencingAssumption DEF FencingInv, TypeOK
  <1>4. FenceInv'
    BY Zenon, <1>1, <1>3, FenceFrame DEF FencingInv
  <1>5. CASE UNCHANGED <<class, classifier, blind>>
    <2>1. TypeOK'
      BY Zenon, <1>1, <1>3, <1>5 DEF FencingInv, TypeOK, classifier
    <2>2. ClassInv'
      BY Zenon, <1>1, <1>5, ClassFrame DEF FencingInv
    <2>3. QED
      BY Zenon, <1>4, <2>1, <2>2 DEF FencingInv
  <1>6. CASE /\ copy.here /\ ~(new # copy /\ class[c] # copy)
             /\ class' = IF new # copy THEN [class EXCEPT ![c] = new] ELSE class
             /\ cpc' = "nodes"
             /\ cloc' = [name |-> c, copy |-> new, todo |-> listed, node |-> cache.node,
                         failed |-> FALSE]
             /\ blind' = IF \E n \in Nodes : /\ (c \in node[n].classes) = copy.deleting
                                             /\ (c \in cache.node[n].classes) # copy.deleting
                         THEN blind \cup {c} ELSE blind
    <2>1. /\ class \in [Classes -> ClassObjects] /\ copy \in ClassObjects
          /\ cache.node \in [Nodes -> NodeObjects] /\ blind \subseteq Classes
          /\ SoundClass(class[c]) /\ SoundClass(copy)
          /\ copy.finalizer /\ ~copy.deleting => class[c].finalizer
          /\ copy.deleting /\ class[c].here => class[c].deleting
      BY Zenon DEF FencingInv, TypeOK, Objects, ClassInv, ClassCopies
    <2>2. /\ new \in ClassObjects /\ new.here = copy.here /\ new.deleting = copy.deleting
          /\ ~copy.deleting => new.finalizer
          /\ SoundClass(new)
      BY Zenon, <2>1, <1>6 DEF ClassObjects, SoundClass
    <2>3. /\ class' \in [Classes -> ClassObjects]
          /\ \A d \in Classes : d # c => class'[d] = class[d]
          /\ SoundClass(class'[c])
          /\ class[c].finalizer => class'[c].finalizer
          /\ ~new.deleting => class'[c].finalizer
          /\ new.deleting => class'[c] = class[c]
          /\ copy.deleting /\ class'[c].here => class'[c].deleting
      <3>1. CASE new # copy
        <4>1. class[c] = copy /\ class' = [class EXCEPT ![c] = new] /\ ~copy.deleting
          BY Zenon, <1>6, <3>1
        <4>2. class'[c] = new
          BY Zenon, <2>1, <4>1
        <4>3. QED
          BY Zenon, <2>1, <2>2, <4>1, <4>2
      <3>2. CASE new = copy
        BY Zenon, <1>6, <2>1, <2>2, <3>2
      <3>3. QED
        BY Zenon, <3>1, <3>2
    <2>4. /\ cloc' \in ClassLocals /\ cloc'.name = c /\ cloc'.copy = new /\ cloc'.todo = listed
          /\ cloc'.node = cache.node /\ cloc'.failed = FALSE
      BY Zenon, <1>6, <2>1, <2>2 DEF ClassLocals
    <2>5. blind' \subseteq Classes /\ blind \subseteq blind'
      BY Zenon, <1>6, <2>1
    <2>6. TypeOK'
      BY Zenon, <1>1, <1>3, <1>6, <2>3, <2>4, <2>5 DEF FencingInv, TypeOK
    <2>7. ClassCopies' /\ NodeCopies'
      BY Zenon, <1>1, <2>3 DEF FencingInv, ClassInv, ClassCopies, NodeCopies
    <2>8. ListedInv'
      BY Zenon, <1>1, <2>3, <2>5 DEF FencingInv, ClassInv, ListedInv
    <2>9. ASSUME copy.deleting, c \notin blind', NEW n \in Nodes, c \in node[n].classes,
                 ~node[n].deleting
          PROVE  n \in listed /\ c \in cache.node[n].classes /\ cache.node[n].able
      <3>1. c \in cache.node[n].classes
        <4>1. ASSUME c \notin cache.node[n].classes PROVE FALSE
          <5>1. copy.deleting = TRUE
            BY Zenon, <2>1, <2>9 DEF ClassObjects
          <5>2. (c \in node[n].classes) = copy.deleting
            BY Zenon, <5>1, <2>9
          <5>3. (c \in cache.node[n].classes) # copy.deleting
            BY Zenon, <5>1, <4>1
          <5>4. blind' = blind \cup {c}
            BY Zenon, <1>6, <5>2, <5>3
          <5>5. QED
            BY Zenon, <5>4, <2>9
        <4>2. QED
          BY Zenon, <4>1
      <3>2. SoundNode(node[n]) /\ SoundNode(cache.node[n])
            /\ (cache.node[n].deleting /\ node[n].here => node[n].deleting)
        BY Zenon, NodeFacts
      <3>3. QED
        BY Zenon, <2>9, <3>1, <3>2 DEF SoundNode
    <2>10. WorkInv'
      <3>1. \A n \in cloc'.todo : cloc'.node[n].here
        BY Zenon, <2>4
      <3>2. ~cloc'.copy.deleting => class'[c].finalizer
        BY Zenon, <2>3, <2>4
      <3>3. cloc'.copy.deleting /\ class'[c].finalizer =>
              class'[c].deleting /\ cache'.class[c].deleting
        BY Zenon, <1>1, <2>1, <2>2, <2>3, <2>4 DEF SoundClass
      <3>4. cloc'.copy.deleting /\ c \notin blind' =>
              \A n \in Nodes : c \in node'[n].classes /\ ~node'[n].deleting =>
                n \in cloc'.todo /\ c \in cloc'.node[n].classes /\ cloc'.node[n].able
        BY Zenon, <1>1, <2>2, <2>4, <2>9
      <3>5. QED
        BY Zenon, <2>4, <3>1, <3>2, <3>3, <3>4 DEF WorkInv
    <2>11. QED
      BY Zenon, <1>4, <2>6, <2>7, <2>8, <2>10 DEF FencingInv, ClassInv
  <1>7. QED
    BY Zenon, <1>5, <1>6 DEF BeginClass
\* The name of a class is put on a node, or taken off it.
LEMMA ProcessStep == ASSUME FencingInv, NEW n \in Nodes, processCSIAddonsNode(n) PROVE FencingInv'
  <1> DEFINE c == cloc.name
             copy == cloc.node[n]
             names == IF cloc.copy.deleting THEN copy.classes \ {c} ELSE copy.classes \cup {c}
             write == copy.able /\ names # copy.classes
             error == ~copy.known \/ (write /\ node[n] # copy)
  <1>1. UNCHANGED <<fence, cache, blocked, leader, pc, loc, edits, class, queued, cpc, blind, faults>>
    BY Zenon DEF processCSIAddonsNode, Classifier, fencer
  <1>2. /\ cpc = "nodes" /\ n \in cloc.todo /\ cloc \in ClassLocals /\ c \in Classes
        /\ copy \in NodeObjects
    BY Zenon DEF processCSIAddonsNode, FencingInv, TypeOK, ClassLocals
  <1>3. /\ node' = IF write /\ ~error THEN [node EXCEPT ![n].classes = names] ELSE node
        /\ cloc' = [cloc EXCEPT !.todo = @ \ {n}, !.failed = @ \/ error]
    BY Zenon DEF processCSIAddonsNode
  <1>4. /\ cloc' \in ClassLocals /\ cloc'.name = c /\ cloc'.copy = cloc.copy
        /\ cloc'.node = cloc.node /\ cloc'.todo = cloc.todo \ {n}
        /\ cloc'.failed = (cloc.failed \/ error)
    <2>1. error \in BOOLEAN
      BY Zenon, <1>2 DEF NodeObjects
    <2>2. QED
      BY Zenon, <1>2, <1>3, <2>1 DEF ClassLocals
  <1>5. copy.here
    BY Zenon, <1>2 DEF FencingInv, ClassInv, WorkInv
  <1>6. names \subseteq Classes
    BY Zenon, <1>2 DEF NodeObjects
  <1>7. /\ node' \in [Nodes -> NodeObjects]
        /\ \A o \in Nodes : /\ node'[o].deleting = node[o].deleting
                            /\ node'[o].here = node[o].here /\ node'[o].able = node[o].able
        /\ \A o \in Nodes : o # n => node'[o].classes = node[o].classes
        /\ write /\ ~error => node'[n].classes = names /\ node[n] = copy
        /\ ~(write /\ ~error) => node'[n].classes = node[n].classes
    BY Zenon, <1>3, <1>6, NodeFacts DEF NodeObjects
  <1>8. TypeOK'
    BY Zenon, <1>1, <1>4, <1>7 DEF FencingInv, TypeOK
  <1>9. FenceInv'
    BY Zenon, <1>1, FenceFrame DEF FencingInv
  <1>10. ClassCopies'
    BY Zenon, <1>1 DEF FencingInv, ClassInv, ClassCopies
  <1>11. NodeCopies'
    <2>1. ASSUME NEW o \in Nodes
          PROVE  SoundNode(node'[o]) /\ (cache'.node[o].deleting /\ node'[o].here => node'[o].deleting)
      BY <1>1, <1>5, <1>7, NodeFacts DEF SoundNode
    <2>2. QED
      BY Zenon, <1>1, <2>1 DEF FencingInv, ClassInv, NodeCopies
  <1>12. \A d \in Classes, o \in Nodes :
           d \in node'[o].classes /\ ~node'[o].deleting =>
             \/ d \in node[o].classes /\ ~node[o].deleting
             \/ d = c /\ ~cloc.copy.deleting
    <2>1. ASSUME NEW d \in Classes, write, ~error, d \in node'[n].classes
          PROVE  d \in node[n].classes \/ (d = c /\ ~cloc.copy.deleting)
      BY <1>7, <2>1
    <2> HIDE DEF write, error
    <2>2. ASSUME NEW d \in Classes, NEW o \in Nodes, d \in node'[o].classes, ~node'[o].deleting
          PROVE  \/ d \in node[o].classes /\ ~node[o].deleting
                 \/ d = c /\ ~cloc.copy.deleting
      BY Zenon, <1>7, <2>1, <2>2
    <2>3. QED
      BY Zenon, <2>2
  <1>13. ListedInv'
    BY Zenon, <1>1, <1>2, <1>12 DEF FencingInv, ClassInv, ListedInv, WorkInv
  <1>14. ASSUME cloc.copy.deleting, ~cloc'.failed, c \notin blind, NEW o \in Nodes,
                c \in node'[o].classes, ~node'[o].deleting
         PROVE  o \in cloc'.todo /\ c \in cloc'.node[o].classes /\ cloc'.node[o].able
    <2>1. c \in node[o].classes /\ ~node[o].deleting
      BY Zenon, <1>2, <1>12, <1>14
    <2>2. o \in cloc.todo /\ c \in cloc.node[o].classes /\ cloc.node[o].able
      BY Zenon, <1>2, <1>4, <1>14, <2>1 DEF FencingInv, ClassInv, WorkInv
    <2>3. o # n
      BY Zenon, <1>4, <1>7, <1>14, <2>2
    <2>4. QED
      BY Zenon, <1>4, <2>2, <2>3
  <1>15. WorkInv'
    <2>1. \A o \in cloc'.todo : cloc'.node[o].here
      BY Zenon, <1>2, <1>4 DEF FencingInv, ClassInv, WorkInv
    <2>2. /\ ~cloc.copy.deleting => class'[c].finalizer
          /\ cloc.copy.deleting /\ class'[c].finalizer =>
               class'[c].deleting /\ cache'.class[c].deleting
      BY Zenon, <1>1, <1>2 DEF FencingInv, ClassInv, WorkInv
    <2>3. QED
      BY Zenon, <1>1, <1>4, <1>14, <2>1, <2>2 DEF WorkInv
  <1>16. QED
    BY Zenon, <1>8, <1>9, <1>10, <1>11, <1>13, <1>15 DEF FencingInv, ClassInv

\* The class controller returns: the class may be gone, when no node has its name.
LEMMA ReturnClassStep ==
  ASSUME FencingInv, Classifier, UNCHANGED <<node, blind>>, faults' \in 0..MaxFaults,
         cpc = "nodes", NEW again \in BOOLEAN, ReturnClass(again),
         \/ UNCHANGED class
         \/ /\ class' = [class EXCEPT ![cloc.name] = NoClass] /\ class[cloc.name] = cloc.copy
            /\ cloc.copy.deleting /\ cloc.copy.finalizer /\ ~cloc.failed /\ cloc.todo = {}
  PROVE  FencingInv'
  <1> DEFINE c == cloc.name
  <1>1. UNCHANGED <<fence, cache, blocked, leader, pc, loc, edits>>
    BY Zenon DEF Classifier, fencer
  <1>2. c \in Classes /\ class \in [Classes -> ClassObjects]
    BY Zenon DEF FencingInv, TypeOK, ClassLocals
  <1>3. cpc' = "idle" /\ cloc' \in ClassLocals
        /\ queued' \subseteq Classes \cup {"fence"} /\ (("fence" \in queued') <=> ("fence" \in queued))
    BY <1>2, NoneType, FencingAssumption DEF ReturnClass, FencingInv, TypeOK
  <1>4. class' \in [Classes -> ClassObjects]
    BY Zenon, <1>2, NoneType
  <1>5. TypeOK'
    BY Zenon, <1>1, <1>3, <1>4 DEF FencingInv, TypeOK
  <1>6. FenceInv'
    BY Zenon, <1>1, <1>3, FenceFrame DEF FencingInv
  <1>7. WorkInv' /\ NodeCopies'
    BY Zenon, <1>1, <1>3 DEF WorkInv, FencingInv, ClassInv, NodeCopies
  <1>8. CASE UNCHANGED class
    BY Zenon, <1>1, <1>5, <1>6, <1>7, <1>8 DEF FencingInv, ClassInv, ClassCopies, ListedInv
  <1>9. CASE /\ class' = [class EXCEPT ![c] = NoClass] /\ class[c] = cloc.copy
             /\ cloc.copy.deleting /\ cloc.copy.finalizer /\ ~cloc.failed /\ cloc.todo = {}
    <2>1. class'[c] = NoClass /\ \A d \in Classes : d # c => class'[d] = class[d]
      BY Zenon, <1>2, <1>9
    <2>2. cache.class[c].deleting
      BY Zenon, <1>9 DEF FencingInv, ClassInv, WorkInv
    <2>3. ClassCopies'
      BY <1>1, <2>1, <2>2, NoneFields DEF FencingInv, ClassInv, ClassCopies, SoundClass
    <2>4. ListedInv'
      BY <1>9, <2>1 DEF FencingInv, ClassInv, ListedInv, WorkInv
    <2>5. QED
      BY Zenon, <1>5, <1>6, <1>7, <2>3, <2>4 DEF FencingInv, ClassInv
  <1>10. QED
    BY Zenon, <1>8, <1>9

\* The class controller is done with the nodes.
LEMMA EndClassStep == ASSUME FencingInv, EndClass PROVE FencingInv'
  <1> DEFINE release == ~cloc.failed /\ cloc.copy.deleting
             conflict == release /\ cloc.copy.finalizer /\ class[cloc.name] # cloc.copy
  <1>1. /\ Classifier /\ UNCHANGED <<node, blind>> /\ cpc = "nodes" /\ cloc.todo = {}
        /\ faults' \in 0..MaxFaults
        /\ class' = IF release /\ cloc.copy.finalizer /\ ~conflict
                    THEN [class EXCEPT ![cloc.name] = NoClass] ELSE class
        /\ ReturnClass(cloc.failed \/ conflict)
    BY Zenon DEF EndClass, FencingInv, TypeOK
  <1>2. (cloc.failed \/ conflict) \in BOOLEAN
    BY Zenon
  <1>3. \/ UNCHANGED class
        \/ /\ class' = [class EXCEPT ![cloc.name] = NoClass] /\ class[cloc.name] = cloc.copy
           /\ cloc.copy.deleting /\ cloc.copy.finalizer /\ ~cloc.failed
    BY Zenon, <1>1
  <1>4. QED
    BY Zenon, <1>1, <1>2, <1>3, ReturnClassStep

\* A call of the class controller fails.
LEMMA ClassErrorStep == ASSUME FencingInv, ClassError PROVE FencingInv'
  <1>1. /\ Classifier /\ UNCHANGED <<class, node, blind>> /\ cpc = "nodes"
        /\ faults' \in 0..MaxFaults
    BY Zenon, FaultCount DEF ClassError, FencingInv
  <1>2. CASE ReturnClass(TRUE)
    BY Zenon, <1>1, <1>2, ReturnClassStep
  <1>3. ASSUME NEW n \in cloc.todo, cloc' = [cloc EXCEPT !.todo = @ \ {n}, !.failed = TRUE],
               UNCHANGED <<queued, cpc>>
        PROVE  FencingInv'
    <2>1. UNCHANGED <<fence, cache, blocked, leader, pc, loc, edits>>
      BY Zenon, <1>1 DEF Classifier, fencer
    <2>2. /\ cloc' \in ClassLocals /\ cloc'.name = cloc.name /\ cloc'.copy = cloc.copy
          /\ cloc'.node = cloc.node /\ cloc'.todo \subseteq cloc.todo /\ cloc'.failed
      BY Zenon, <1>3 DEF FencingInv, TypeOK, ClassLocals
    <2>3. TypeOK'
      BY Zenon, <1>1, <1>3, <2>1, <2>2 DEF FencingInv, TypeOK
    <2>4. FenceInv'
      BY Zenon, <1>3, <2>1, FenceFrame DEF FencingInv
    <2>5. WorkInv'
      BY Zenon, <1>1, <2>1, <2>2 DEF FencingInv, ClassInv, WorkInv
    <2>6. ClassCopies' /\ NodeCopies' /\ ListedInv'
      BY Zenon, <1>1, <2>1 DEF FencingInv, ClassInv, ClassCopies, NodeCopies, ListedInv
    <2>7. QED
      BY Zenon, <2>3, <2>4, <2>5, <2>6 DEF FencingInv, ClassInv
  <1>4. QED
    BY Zenon, <1>2, <1>3 DEF ClassError

-----------------------------------------------------------------------------
(* The theorems.                                                           *)

\* Another leader, or none.
LEMMA ChangeLeaderStep == ASSUME FencingInv, ChangeLeader PROVE FencingInv'
  <1>1. /\ UNCHANGED <<fence, class, node, cache, blocked, queued, pc, loc, cpc, cloc, blind, edits>>
        /\ leader' \in BOOLEAN /\ faults' \in 0..MaxFaults
    BY Zenon, FaultCount DEF ChangeLeader, FencingInv, objects, fencer, classifier
  <1>2. TypeOK'
    BY Zenon, <1>1 DEF FencingInv, TypeOK
  <1>3. FenceInv' /\ ClassInv'
    BY Zenon, <1>1, FenceFrame, ClassFrame DEF FencingInv, classifier
  <1>4. QED
    BY Zenon, <1>2, <1>3 DEF FencingInv

\* The manager restarts: the informers are up to date, and everything is queued.
LEMMA CrashStep == ASSUME FencingInv, Crash PROVE FencingInv'
  <1>1. UNCHANGED <<fence, class, node, blocked, leader, blind, edits>> /\ faults' \in 0..MaxFaults
    BY Zenon, FaultCount DEF Crash, FencingInv, objects
  <1>2. /\ cache' = [fence |-> fence, class |-> class, node |-> node]
        /\ pc' = "idle" /\ loc' \in Fences /\ cpc' = "idle" /\ cloc' \in ClassLocals
        /\ queued' \subseteq Classes \cup {"fence"}
        /\ fence.here => "fence" \in queued'
    BY Zenon, NoneType DEF Crash
  <1>3. cache' \in Objects /\ cache'.fence = fence /\ cache'.class = class /\ cache'.node = node
    BY Zenon, <1>2 DEF FencingInv, TypeOK, Objects
  <1>4. TypeOK'
    BY Zenon, <1>1, <1>2, <1>3 DEF FencingInv, TypeOK
  <1>5. FenceInv'
    BY Zenon, <1>1, <1>2, <1>3 DEF FencingInv, FenceInv
  <1>6. ClassInv'
    BY Zenon, <1>1, <1>2, <1>3
    DEF FencingInv, ClassInv, ClassCopies, NodeCopies, WorkInv, ListedInv, SoundClass
  <1>7. QED
    BY <1>4, <1>5, <1>6 DEF FencingInv

\* The invariant holds at the start.
LEMMA InitInv == ASSUME Init PROVE FencingInv
  <1>1. PICK i \in Initial :
          /\ fence = i.fence /\ class = i.class /\ node = i.node
          /\ edits = [kinds |-> i.kinds, left |-> MaxEdits]
    BY Zenon DEF Init
  <1>2. /\ fence \in Fences /\ SoundFence(fence)
        /\ class \in [Classes -> ClassObjects] /\ \A c \in Classes : SoundClass(class[c])
        /\ node \in [Nodes -> NodeObjects] /\ \A n \in Nodes : SoundNode(node[n])
        /\ \A n \in Nodes : \A c \in node[n].classes : class[c].finalizer
        /\ i.kinds \subseteq FencingEdits
    BY Zenon, <1>1, FencingAssumption
  <1>3. /\ cache.fence = NoFence /\ cache.class = [c \in Classes |-> NoClass]
        /\ cache.node = [n \in Nodes |-> NoNode]
        /\ cache = [fence |-> NoFence, class |-> [c \in Classes |-> NoClass],
                    node |-> [n \in Nodes |-> NoNode]]
    BY Zenon DEF Init
  <1>4. cache \in Objects
    BY Zenon, <1>3, NoneType DEF Objects
  <1>5. edits \in [kinds : SUBSET FencingEdits, left : 0..MaxEdits] /\ faults \in 0..MaxFaults
    <2>0. MaxEdits \in Nat /\ MaxFaults \in Nat
      BY FencingAssumption, Zenon
    <2>1. MaxEdits \in 0..MaxEdits /\ 0 \in 0..MaxFaults
      BY <2>0
    <2>2. QED
      BY Zenon, <1>1, <1>2, <2>1 DEF Init
  <1>6. TypeOK
    BY Zenon, <1>2, <1>4, <1>5, NoneType DEF Init, TypeOK
  <1>7. FenceInv
    BY Zenon, <1>2, <1>3, NoneFields DEF Init, FenceInv, SoundFence
  <1>8. ClassInv
    BY Zenon, <1>2, <1>3, NoneFields
    DEF Init, ClassInv, ClassCopies, NodeCopies, WorkInv, ListedInv, SoundClass, SoundNode
  <1>9. QED
    BY Zenon, <1>6, <1>7, <1>8 DEF FencingInv

\* Every step keeps the invariant.
LEMMA NextInv == ASSUME FencingInv, [Next]_vars PROVE FencingInv'
  <1>1. CASE Users
    BY Zenon, <1>1, EditFenceStep, DeleteFenceStep, EditClassStep, EditNodeStep, RemoveNodeStep
    DEF Users
  <1>2. CASE Informers
    BY Zenon, <1>2, SyncFenceStep, SyncClassStep, SyncNodeStep DEF Informers
  <1>3. CASE FenceController
    BY Zenon, <1>3, ReconcileStep, RequestStep, StatusStep DEF FenceController
  <1>4. CASE ClassController
    BY Zenon, <1>4, BeginClassStep, ProcessStep, EndClassStep DEF ClassController
  <1>5. CASE \E n \in Nodes : ConnectNode(n)
    BY Zenon, <1>5, ConnectNodeStep
  <1>6. CASE FenceError \/ ClassError \/ ChangeLeader \/ Crash
    BY Zenon, <1>6, FenceErrorStep, ClassErrorStep, ChangeLeaderStep, CrashStep
  <1>7. CASE UNCHANGED vars
    <2>1. UNCHANGED <<fence, class, node, cache, blocked, leader, queued, pc, loc, cpc, cloc, blind,
                      edits, faults>>
      BY Zenon, <1>7 DEF vars, objects, fencer, classifier
    <2>2. TypeOK'
      BY Zenon, <2>1 DEF FencingInv, TypeOK
    <2>3. QED
      BY Zenon, <2>1, <2>2, FenceFrame, ClassFrame DEF FencingInv, classifier
  <1>8. QED
    BY Zenon, <1>1, <1>2, <1>3, <1>4, <1>5, <1>6, <1>7 DEF Next

\* The inductive invariant holds in every state.
LEMMA Invariance == Spec => []FencingInv
  BY InitInv, NextInv, PTL DEF Spec

\* Type correctness, and a request is only made for a fence that has its
\* finalizer (processFencing).
THEOREM TypeCorrect == Spec => []TypeOK
  BY Invariance, PTL DEF FencingInv

\* The fence controller rests only when the storage and the status are what the
\* fence asks for (Reconcile, processFencing, updateStatus).
THEOREM FenceIsServed == Spec => []RestsWhenFenced
  <1>1. FencingInv => RestsWhenFenced
    BY Zenon DEF FencingInv, FenceInv, RestsWhenFenced, Served
  <1>2. QED
    BY <1>1, Invariance, PTL

\* A class that goes leaves its name on no node, unless it went by an outdated
\* list (NetworkFenceClassReconciler.Reconcile, processCSIAddonsNode).
THEOREM ClassLeavesNothing == Spec => []NoDanglingClass
  <1>1. FencingInv => NoDanglingClass
    BY Zenon DEF FencingInv, ClassInv, ListedInv, ClassCopies, SoundClass, NoDanglingClass
  <1>2. QED
    BY <1>1, Invariance, PTL
=============================================================================
