--------------------------- MODULE NetworkFencing ---------------------------
(***************************************************************************)
(* A NetworkFence, the NetworkFenceClasses of its driver, and the          *)
(* CSIAddonsNodes of the driver, which the classes are listed on.          *)
(*                                                                         *)
(* The fence controller asks the leading sidecar of the driver to block or *)
(* to unblock the addresses of the fence.  The class controller puts the   *)
(* name of each class on the nodes that can tell which clients to fence,   *)
(* and the node controller reads these names whenever it connects.  All    *)
(* three read the informers' copies.                                       *)
(***************************************************************************)
EXTENDS Integers, FiniteSets

CONSTANTS Classes, Nodes,
          FenceClass,         \* the class that the fence refers to
          Initial,            \* what a behaviour may start with: objects and kinds of edits
          MaxEdits,           \* how often users edit
          Faults, MaxFaults   \* what goes wrong, and how often

FencingEdits == {"fence", "unfence", "spec", "class", "node"}
FencingFaults == {"api", "rpc", "crash", "leader"}

VARIABLES fence, class, node,    \* as the API server has them
          cache,                 \* as the informers have them
          blocked,               \* the storage blocks the addresses of the fence
          leader,                \* the driver has a leader that can fence
          queued,                \* the fence and the classes to be reconciled
          pc, loc,               \* of the fence controller
          cpc, cloc,             \* of the class controller
          blind,                 \* classes that went by an outdated list of nodes
          edits, faults

objects == <<fence, class, node>>
fencer == <<pc, loc>>
classifier == <<cpc, cloc>>
vars == <<objects, cache, blocked, leader, queued, fencer, classifier, blind, edits, faults>>

States == {"Fenced", "Unfenced"}

\* The message of the status tells the operation that succeeded.
Fences == [here : BOOLEAN, deleting : BOOLEAN, finalizer : BOOLEAN, valid : BOOLEAN,
           classed : BOOLEAN, state : States,
           result : {"none", "Succeeded", "Failed"}, message : States \cup {"none"}]
ClassObjects == [here : BOOLEAN, deleting : BOOLEAN, finalizer : BOOLEAN, valid : BOOLEAN]
\* "able": the driver on the node has the capability GET_CLIENTS_TO_FENCE;
\* "known": the status lists the capabilities.
NodeObjects == [here : BOOLEAN, deleting : BOOLEAN, able : BOOLEAN, known : BOOLEAN,
                classes : SUBSET Classes]
Objects == [fence : Fences, class : [Classes -> ClassObjects], node : [Nodes -> NodeObjects]]

NoFence == [here |-> FALSE, deleting |-> FALSE, finalizer |-> FALSE, valid |-> TRUE,
            classed |-> FALSE, state |-> "Fenced", result |-> "none", message |-> "none"]
NoClass == [here |-> FALSE, deleting |-> FALSE, finalizer |-> FALSE, valid |-> TRUE]
NewClass == [NoClass EXCEPT !.here = TRUE]
NoNode == [here |-> FALSE, deleting |-> FALSE, able |-> FALSE, known |-> FALSE, classes |-> {}]
NewNode(able) == [NoNode EXCEPT !.here = TRUE, !.able = able]

\* The class controller holds the class, the nodes it has yet to see to, with the
\* copies it listed, and whether one of them failed.
ClassLocals == [name : Classes, copy : ClassObjects, todo : SUBSET Nodes,
                node : [Nodes -> NodeObjects], failed : BOOLEAN]
NoClassLocals == [name |-> FenceClass, copy |-> NoClass, todo |-> {},
                  node |-> [n \in Nodes |-> NoNode], failed |-> FALSE]

\* Only what is there has a finalizer, is being deleted, or lists classes.
SoundFence(f) == f.finalizer => f.here
SoundClass(x) == (x.finalizer => x.here) /\ (x.deleting => x.finalizer)
SoundNode(x) == (x.deleting => x.here) /\ (x.classes # {} => x.here /\ x.able)

ASSUME FencingAssumption ==
  /\ FenceClass \in Classes /\ "fence" \notin Classes
  /\ \A i \in Initial :
       /\ i.fence \in Fences /\ SoundFence(i.fence)
       /\ i.class \in [Classes -> ClassObjects] /\ \A c \in Classes : SoundClass(i.class[c])
       /\ i.node \in [Nodes -> NodeObjects] /\ \A n \in Nodes : SoundNode(i.node[n])
       /\ \A n \in Nodes : \A c \in i.node[n].classes : i.class[c].finalizer
       /\ i.kinds \subseteq FencingEdits
  /\ MaxEdits \in Nat
  /\ Faults \subseteq FencingFaults /\ MaxFaults \in Nat

Edit(kind) ==
  /\ kind \in edits.kinds
  /\ edits.left > 0
  /\ edits' = [edits EXCEPT !.left = @ - 1]

Fault(kind) ==
  /\ kind \in Faults
  /\ faults < MaxFaults
  /\ faults' = faults + 1

-----------------------------------------------------------------------------
(* Users, sidecars and the API server.                                     *)

User == UNCHANGED <<cache, blocked, leader, queued, fencer, classifier, blind, faults>>

EditFence ==
  /\ fence.here /\ ~fence.deleting
  /\ \/ Edit("fence") /\ fence' = [fence EXCEPT !.state = CHOOSE s \in States : s # @]
     \/ Edit("spec") /\ fence' = [fence EXCEPT !.valid = ~@]
  /\ User /\ UNCHANGED <<class, node>>

\* An object with a finalizer is marked, and one without is gone.
Delete(obj, none) == IF obj.finalizer THEN [obj EXCEPT !.deleting = TRUE] ELSE none

DeleteFence ==
  /\ Edit("unfence")
  /\ fence.here /\ ~fence.deleting
  /\ fence' = Delete(fence, NoFence)
  /\ User /\ UNCHANGED <<class, node>>

EditClass(c) ==
  /\ Edit("class")
  /\ \/ class[c].here /\ class' = [class EXCEPT ![c].valid = ~@]
     \/ class[c].here /\ ~class[c].deleting /\ class' = [class EXCEPT ![c] = Delete(@, NoClass)]
     \/ ~class[c].here /\ ~cache.class[c].here /\ class' = [class EXCEPT ![c] = NewClass]
  /\ User /\ UNCHANGED <<fence, node>>

\* A node comes with its pod, and goes with it, by way of the node controller.
\* The informer has seen it go before there is another of that name.
EditNode(n) ==
  /\ Edit("node")
  /\ \/ /\ ~node[n].here /\ ~cache.node[n].here
        /\ \E able \in BOOLEAN : node' = [node EXCEPT ![n] = NewNode(able)]
     \/ node[n].here /\ ~node[n].deleting /\ node' = [node EXCEPT ![n].deleting = TRUE]
  /\ User /\ UNCHANGED <<fence, class>>

RemoveNode(n) ==
  /\ node[n].deleting
  /\ node' = [node EXCEPT ![n] = NoNode]
  /\ User /\ UNCHANGED <<fence, class, edits>>

ChangeLeader ==
  /\ Fault("leader")
  /\ fence.here
  /\ leader' = ~leader
  /\ UNCHANGED <<objects, cache, blocked, queued, fencer, classifier, blind, edits>>

-----------------------------------------------------------------------------
(* The informers.                                                          *)

Informer == UNCHANGED <<objects, blocked, leader, fencer, classifier, blind, edits, faults>>

SyncFence_spec ==
  /\ cache.fence # fence
  /\ cache' = [cache EXCEPT !.fence = fence]
  /\ LET spec(f) == <<f.here, f.state, f.valid>>
     IN  queued' = IF spec(fence) # spec(cache.fence) THEN queued \cup {"fence"} ELSE queued
  /\ Informer

\* Updates that leave the specification alone are filtered out; a deletion that
\* has to wait counts as a change of it.
SyncFence ==
  /\ cache.fence # fence
  /\ cache' = [cache EXCEPT !.fence = fence]
  /\ LET spec(f) == <<f.here, f.deleting, f.state, f.valid>>
     IN  queued' = IF spec(fence) # spec(cache.fence) THEN queued \cup {"fence"} ELSE queued
  /\ Informer

SyncClass(c) ==
  /\ cache.class[c] # class[c]
  /\ cache' = [cache EXCEPT !.class[c] = class[c]]
  /\ queued' = queued \cup {c}
  /\ Informer

\* Only a new node queues the classes of its driver.
SyncNode(n) ==
  /\ cache.node[n] # node[n]
  /\ cache' = [cache EXCEPT !.node[n] = node[n]]
  /\ queued' = IF node[n].here /\ ~cache.node[n].here
               THEN queued \cup {c \in Classes : cache.class[c].here}
               ELSE queued
  /\ Informer

-----------------------------------------------------------------------------
(* The NetworkFence controller.                                            *)

Fencer == UNCHANGED <<class, node, cache, leader, classifier, blind, edits>>

\* An event that came meanwhile stays queued.
Return(again) ==
  /\ pc' = "idle"
  /\ loc' = NoFence
  /\ queued' = IF again THEN queued \cup {"fence"}
               ELSE IF pc = "idle" THEN queued \ {"fence"} ELSE queued

\* The fence is updated to this, unless it is another than the one read.
StoreFence(copy, new, again) ==
  IF fence = copy
  THEN fence' = new /\ Return(again)
  ELSE UNCHANGED fence /\ Return(TRUE)

\* To do anything about a valid fence takes its class and a leader.
getNetworkFenceInstance(f) ==
  /\ f.classed => cache.class[FenceClass].here
  /\ leader

removeFinalizerFromNetworkFence(f) ==
  IF f.finalizer THEN StoreFence(f, NoFence, FALSE) ELSE UNCHANGED fence /\ Return(FALSE)

addFinalizerToNetworkFence(f) ==
  IF fence = f \/ f.finalizer
  THEN /\ fence' = IF f.finalizer THEN fence ELSE [f EXCEPT !.finalizer = TRUE]
       /\ loc' = [f EXCEPT !.finalizer = TRUE]
       /\ pc' = "request"
       /\ queued' = queued \ {"fence"}
  ELSE UNCHANGED fence /\ Return(TRUE)

Reconcile ==
  /\ pc = "idle" /\ "fence" \in queued
  /\ LET f == cache.fence
     IN  \/ ~f.here /\ UNCHANGED fence /\ Return(FALSE)
         \/ /\ f.here /\ ~f.valid
            /\ StoreFence(f, [f EXCEPT !.result = "Failed", !.message = "none"], FALSE)
         \/ f.here /\ f.valid /\ ~getNetworkFenceInstance(f) /\ UNCHANGED fence /\ Return(TRUE)
         \/ /\ f.here /\ f.valid /\ getNetworkFenceInstance(f)
            /\ IF f.deleting THEN removeFinalizerFromNetworkFence(f)
                             ELSE addFinalizerToNetworkFence(f)
  /\ Fencer /\ UNCHANGED <<blocked, faults>>

\* The sidecar gets the secret and calls the driver, if it comes to that.
FenceClusterNetwork(called) == blocked' = (blocked \/ called)

UnFenceClusterNetwork(called) == blocked' = (blocked /\ ~called)

\* A request that fails, or times out, may have had its effect.
processFencingRequest ==
  /\ pc = "request"
  /\ \E called \in BOOLEAN :
       /\ IF loc.state = "Fenced" THEN FenceClusterNetwork(called) ELSE UnFenceClusterNetwork(called)
       /\ \/ /\ called
             /\ loc' = [loc EXCEPT !.result = "Succeeded", !.message = loc.state]
             /\ UNCHANGED faults
          \/ /\ Fault("rpc")
             /\ loc' = [loc EXCEPT !.result = "Failed", !.message = "none"]
  /\ pc' = "status"
  /\ Fencer /\ UNCHANGED <<fence, queued>>

updateStatus_final ==
  /\ pc = "status"
  /\ LET read == [loc EXCEPT !.result = fence.result, !.message = fence.message]
     IN  StoreFence(read, loc, FALSE)
  /\ Fencer /\ UNCHANGED <<blocked, faults>>

\* The copy that the status is stored with is the one of the finalizer, which an
\* edit of the user makes outdated.
updateStatus ==
  /\ pc = "status"
  /\ LET read == [loc EXCEPT !.result = fence.result, !.message = fence.message]
     IN  StoreFence(read, loc, loc.result = "Failed")
  /\ Fencer /\ UNCHANGED <<blocked, faults>>

\* A call to the API server fails.  When it was to add the finalizer, the status
\* still reports the failure.
FenceError ==
  /\ Fault("api")
  /\ \/ pc # "idle" /\ UNCHANGED fence
     \/ /\ pc = "idle" /\ "fence" \in queued
        /\ LET f == cache.fence
           IN  /\ f.here /\ f.valid /\ ~f.deleting /\ ~f.finalizer /\ getNetworkFenceInstance(f)
               /\ fence = f
               /\ fence' = [f EXCEPT !.result = "Failed", !.message = "none"]
  /\ Return(TRUE)
  /\ Fencer /\ UNCHANGED blocked

-----------------------------------------------------------------------------
(* The NetworkFenceClass controller and the node controller.               *)

Classifier == UNCHANGED <<fence, cache, blocked, leader, fencer, edits>>

ReturnClass(again) ==
  /\ cpc' = "idle"
  /\ cloc' = NoClassLocals
  /\ queued' = IF again THEN queued \cup {cloc.name} ELSE queued

\* The class gets its finalizer, and the nodes of the driver are listed.
BeginClass(c) ==
  /\ cpc = "idle" /\ c \in queued
  /\ LET copy == cache.class[c]
         new == IF copy.deleting THEN copy ELSE [copy EXCEPT !.finalizer = TRUE]
         listed == {n \in Nodes : cache.node[n].here /\ ~cache.node[n].deleting}
     IN  IF ~copy.here
         THEN queued' = queued \ {c} /\ UNCHANGED <<class, classifier, blind>>
         ELSE IF ~copy.valid \/ (new # copy /\ class[c] # copy)
         THEN UNCHANGED <<class, queued, classifier, blind>>
         ELSE /\ class' = IF new # copy THEN [class EXCEPT ![c] = new] ELSE class
              /\ cpc' = "nodes"
              /\ cloc' = [name |-> c, copy |-> new, todo |-> listed, node |-> cache.node,
                          failed |-> FALSE]
              /\ queued' = queued \ {c}
              /\ blind' = IF \E n \in Nodes : /\ (c \in node[n].classes) = copy.deleting
                                              /\ (c \in cache.node[n].classes) # copy.deleting
                          THEN blind \cup {c} ELSE blind
  /\ Classifier /\ UNCHANGED <<node, faults>>

\* The name of the class is put on the node, or taken off it.  A node without
\* known capabilities, or one that changed, is an error and the rest goes on.
processCSIAddonsNode(n) ==
  /\ cpc = "nodes" /\ n \in cloc.todo
  /\ LET copy == cloc.node[n]
         names == IF cloc.copy.deleting THEN copy.classes \ {cloc.name}
                                        ELSE copy.classes \cup {cloc.name}
         write == copy.able /\ names # copy.classes
         error == ~copy.known \/ (write /\ node[n] # copy)
     IN  /\ node' = IF write /\ ~error THEN [node EXCEPT ![n].classes = names] ELSE node
         /\ cloc' = [cloc EXCEPT !.todo = @ \ {n}, !.failed = @ \/ error]
  /\ Classifier /\ UNCHANGED <<class, queued, cpc, blind, faults>>

EndClass_eager ==
  /\ cpc = "nodes" /\ cloc.todo = {}
  /\ LET c == cloc.name
         release == cloc.copy.deleting
         conflict == release /\ cloc.copy.finalizer /\ class[c] # cloc.copy
     IN  /\ class' = IF release /\ cloc.copy.finalizer /\ ~conflict
                     THEN [class EXCEPT ![c] = NoClass] ELSE class
         /\ ReturnClass(cloc.failed \/ conflict)
  /\ Classifier /\ UNCHANGED <<node, blind, faults>>

EndClass_lax ==
  /\ cpc = "nodes" /\ cloc.todo = {}
  /\ LET c == cloc.name
         release == ~cloc.failed /\ cloc.copy.deleting
         conflict == release /\ cloc.copy.finalizer /\ class[c] # cloc.copy
     IN  /\ class' = IF release /\ cloc.copy.finalizer /\ ~conflict
                     THEN [class EXCEPT ![c] = NoClass] ELSE class
         /\ ReturnClass(conflict)
  /\ Classifier /\ UNCHANGED <<node, blind, faults>>

\* With all nodes seen to, a class that is being deleted goes.
EndClass ==
  /\ cpc = "nodes" /\ cloc.todo = {}
  /\ LET c == cloc.name
         release == ~cloc.failed /\ cloc.copy.deleting
         conflict == release /\ cloc.copy.finalizer /\ class[c] # cloc.copy
     IN  /\ class' = IF release /\ cloc.copy.finalizer /\ ~conflict
                     THEN [class EXCEPT ![c] = NoClass] ELSE class
         /\ ReturnClass(cloc.failed \/ conflict)
  /\ Classifier /\ UNCHANGED <<node, blind, faults>>

\* The update of a node fails, and the rest goes on, or that of the class does.
ClassError ==
  /\ Fault("api")
  /\ cpc = "nodes"
  /\ \/ /\ \E n \in cloc.todo : cloc' = [cloc EXCEPT !.todo = @ \ {n}, !.failed = TRUE]
        /\ UNCHANGED <<queued, cpc>>
     \/ cloc.todo = {} /\ cloc.copy.deleting /\ ReturnClass(TRUE)
  /\ Classifier /\ UNCHANGED <<class, node, blind>>

\* The node controller connects, for which it reads the classes of the node, and
\* stores the capabilities.  A class that is not there is an error, and there is
\* no connection.
getNetworkFenceClassesForDriver(n) == \A c \in cache.node[n].classes : cache.class[c].here

ConnectNode(n) ==
  /\ cache.node[n] = node[n]
  /\ node[n].here /\ ~node[n].deleting /\ ~node[n].known
  /\ getNetworkFenceClassesForDriver(n)
  /\ node' = [node EXCEPT ![n].known = TRUE]
  /\ Classifier /\ UNCHANGED <<class, queued, classifier, blind, faults>>

-----------------------------------------------------------------------------

\* The manager restarts.
Crash ==
  /\ Fault("crash")
  /\ cache' = [fence |-> fence, class |-> class, node |-> node]
  /\ queued' = {q \in {"fence"} : fence.here} \cup {c \in Classes : class[c].here}
  /\ pc' = "idle" /\ loc' = NoFence
  /\ cpc' = "idle" /\ cloc' = NoClassLocals
  /\ UNCHANGED <<objects, blocked, leader, blind, edits>>

Init ==
  /\ \E i \in Initial : /\ fence = i.fence /\ class = i.class /\ node = i.node
                        /\ edits = [kinds |-> i.kinds, left |-> MaxEdits]
  /\ cache = [fence |-> NoFence, class |-> [c \in Classes |-> NoClass],
              node |-> [n \in Nodes |-> NoNode]]
  /\ blocked = FALSE
  /\ leader = TRUE
  /\ queued = {}
  /\ pc = "idle" /\ loc = NoFence
  /\ cpc = "idle" /\ cloc = NoClassLocals
  /\ blind = {}
  /\ faults = 0

Users ==
  \/ EditFence \/ DeleteFence
  \/ \E c \in Classes : EditClass(c)
  \/ \E n \in Nodes : EditNode(n) \/ RemoveNode(n)

Informers ==
  \/ SyncFence
  \/ \E c \in Classes : SyncClass(c)
  \/ \E n \in Nodes : SyncNode(n)

FenceController == Reconcile \/ processFencingRequest \/ updateStatus

ClassController ==
  \/ \E c \in Classes : BeginClass(c)
  \/ \E n \in Nodes : processCSIAddonsNode(n)
  \/ EndClass

Next ==
  \/ Users \/ Informers \/ FenceController \/ ClassController
  \/ \E n \in Nodes : ConnectNode(n)
  \/ FenceError \/ ClassError \/ ChangeLeader \/ Crash

Spec == Init /\ [][Next]_vars

\* Informers deliver, controllers take what is queued, classes one after the
\* other, and nodes are connected or removed.
Fairness ==
  /\ WF_vars(SyncFence) /\ WF_vars(FenceController)
  /\ \A c \in Classes : WF_vars(SyncClass(c)) /\ SF_vars(BeginClass(c))
  /\ WF_vars(EndClass)
  /\ \A n \in Nodes : /\ WF_vars(SyncNode(n)) /\ WF_vars(processCSIAddonsNode(n))
                      /\ WF_vars(ConnectNode(n)) /\ WF_vars(RemoveNode(n))

FairSpec == Spec /\ Fairness

-----------------------------------------------------------------------------
(* Properties.                                                             *)

\* Type correctness.  A request is only made for a fence that has its finalizer
\* (processFencing), so that it cannot vanish while the request is under way.
TypeOK ==
  /\ fence \in Fences /\ class \in [Classes -> ClassObjects] /\ node \in [Nodes -> NodeObjects]
  /\ cache \in Objects
  /\ blocked \in BOOLEAN /\ leader \in BOOLEAN
  /\ queued \subseteq Classes \cup {"fence"}
  /\ pc \in {"idle", "request", "status"} /\ loc \in Fences
  /\ cpc \in {"idle", "nodes"} /\ cloc \in ClassLocals
  /\ blind \subseteq Classes
  /\ edits \in [kinds : SUBSET FencingEdits, left : 0..MaxEdits] /\ faults \in 0..MaxFaults
  /\ pc # "idle" => fence.here /\ fence.finalizer

\* The fence controller rests only when the work is done: a fence that is neither
\* queued nor changed is reported as succeeded, for the state it asks for, and the
\* storage is in that state; or it is invalid and reported as failed
\* (Reconcile, processFencing).
RestsWhenFenced ==
  /\ fence.here /\ ~fence.deleting
  /\ pc = "idle" /\ "fence" \notin queued /\ cache.fence = fence
  => IF fence.valid
     THEN /\ fence.result = "Succeeded" /\ fence.message = fence.state
          /\ blocked = (fence.state = "Fenced")
     ELSE fence.result = "Failed"

\* A class leaves its name on no node when it goes, other than one that goes too,
\* unless the list of nodes it went by was outdated (processCSIAddonsNode).  A name left behind keeps the
\* node controller from connecting to that node.
NoDanglingClass ==
  \A c \in Classes \ blind, n \in Nodes :
    ~class[c].here /\ ~node[n].deleting => c \notin node[n].classes

\* In the end every valid class is on every node that can tell its clients: a
\* node that has no capabilities yet when it is listed is seen to again.  The
\* exception is a list so outdated that the name seemed to be there already.
ClassesGetListed ==
  <>[](\A c \in Classes \ blind, n \in Nodes :
         /\ class[c].here /\ ~class[c].deleting /\ class[c].valid
         /\ node[n].here /\ ~node[n].deleting /\ node[n].able
         /\ getNetworkFenceClassesForDriver(n)
         => c \in node[n].classes)

\* A fence and a class that are being deleted go in the end: the fence if it is
\* valid, its class exists and the driver has a leader for good, the class if it
\* is valid.
DeletionEnds ==
  /\ (<>[](leader /\ fence.valid /\ (fence.classed => class[FenceClass].here)))
       => (fence.deleting ~> ~fence.deleting)
  /\ \A c \in Classes :
       (<>[](/\ class[c].valid
             /\ \A n \in Nodes : getNetworkFenceClassesForDriver(n)))
         => (class[c].deleting ~> ~class[c].deleting)

\* When a fence is gone the storage does not block its addresses (docs/networkfence.md:
\* "its deletion will undo the operation").
DeletionUndoes == ~fence.here => ~blocked
=============================================================================
