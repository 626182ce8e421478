--------------------------- MODULE CSIAddonsNode ---------------------------
(***************************************************************************)
(* How the controllers of the manager get a connection to the sidecar of a *)
(* CSI driver.  The sidecar of a pod registers itself in a CSIAddonsNode   *)
(* object, whose name stays the same for all the pods that follow each     *)
(* other on a node, and registers again when the object is deleted.  The   *)
(* CSIAddonsNode controller connects to the pod an object names, keeps the *)
(* connection in the ConnectionPool under the pod's name, counts failures, *)
(* and deletes the object after MaxRetries of them.  Other reconciles (the *)
(* readers) take connections out of the pool.                              *)
(*                                                                         *)
(* A write of an object that changed since it was read is a conflict; cur  *)
(* and cacheCur stand for the comparison of resource versions.             *)
(***************************************************************************)
EXTENDS Naturals, FiniteSets

CONSTANTS Nodes,        \* the CSIAddonsNode objects, by name
          Pods,         \* the pods that run the sidecar
          NodeOf,       \* the object that the sidecar of a pod writes
          Readers,      \* reconciles that call the driver
          Conns,        \* numbers of connections, as many as there may be
          MaxRetries,
          None,
          Faults        \* the faults of this instance

FaultKinds == {"dial", "fence", "api", "crash", "delete"}

ASSUME NodeAssumption ==
  /\ None \notin Pods \cup Conns
  /\ Conns \subseteq Nat
  /\ NodeOf \in [Pods -> Nodes]
  /\ MaxRetries \in Nat
  /\ Faults \subseteq FaultKinds

VARIABLES node,       \* the stored objects
          live,       \* the pods that run
          past,       \* the pods that have run and are gone
          sidecar,    \* what the sidecar of a pod does
          cache,      \* the informer's copies of the objects
          cacheCur,   \* the copy is the stored object
          event,      \* an event that passes the predicates is on its way
          queue,      \* objects due for a reconcile
          pc,         \* next step of an object's reconcile
          inst,       \* its instance of the object
          cur,        \* the instance is the stored object
          newConn,    \* the connection it made
          pool,       \* ConnectionPool: pod to connection
          conn,       \* the connections
          reader      \* the other reconciles

stored == <<node, event, cacheCur>>
pods == <<live, past, sidecar>>
locals == <<inst, cur, newConn>>
connections == <<pool, conn>>
vars == <<node, live, past, sidecar, cache, cacheCur, event, queue, pc,
          inst, cur, newConn, pool, conn, reader>>

\* The state Failed is left out: it is for objects without driver name or
\* endpoint, which no sidecar writes.
NodeObjects ==
  [exists : BOOLEAN, deleting : BOOLEAN, finalizer : BOOLEAN,
   endpoint : Pods \cup {None},
   state : {"", "Connected", "Retrying"},
   retries : 0..MaxRetries]         \* parsed from status.reason

NoNode == [exists |-> FALSE, deleting |-> FALSE, finalizer |-> FALSE,
           endpoint |-> None, state |-> "", retries |-> 0]

\* client: the gRPC client of the connection is not nil.
NoConn == [client |-> FALSE, pod |-> None]

Idle == [step |-> "idle", key |-> None, conn |-> None]

-----------------------------------------------------------------------------
(* The API server and the informer.                                        *)

\* Object n becomes o.  queues: a change of generation or annotations, or a
\* removal, which passes the predicates of SetupWithManager.
Store(n, o, queues) ==
  /\ node' = [node EXCEPT ![n] = o]
  /\ cacheCur' = [cacheCur EXCEPT ![n] = FALSE]
  /\ event' = [event EXCEPT ![n] = queues \/ event[n]]

\* Whoever deletes an object: it goes at once unless it has the finalizer.
MarkDeleted(n) ==
  IF node[n].finalizer THEN [node[n] EXCEPT !.deleting = TRUE] ELSE NoNode

\* The sidecars that watch object n when it is removed deploy it again.
Notice(n, o) ==
  sidecar' = [p \in Pods |-> IF NodeOf[p] = n /\ ~o.exists /\ sidecar[p] = "watch"
                              THEN "deploy" ELSE sidecar[p]]

\* A user, or the garbage collector when the owner of the object is gone.
DeleteNode(n) ==
  /\ "delete" \in Faults
  /\ node[n].exists /\ ~node[n].deleting
  /\ LET o == MarkDeleted(n) IN Store(n, o, TRUE) /\ Notice(n, o)
  /\ cur' = [cur EXCEPT ![n] = FALSE]
  /\ UNCHANGED <<live, past, cache, queue, pc, inst, newConn, connections, reader>>

Sync(n) ==
  /\ ~cacheCur[n]
  /\ cache' = [cache EXCEPT ![n] = node[n]]
  /\ cacheCur' = [cacheCur EXCEPT ![n] = TRUE]
  /\ event' = [event EXCEPT ![n] = FALSE]
  /\ queue' = IF event[n] THEN queue \cup {n} ELSE queue
  /\ UNCHANGED <<node, pods, pc, locals, connections, reader>>

-----------------------------------------------------------------------------
(* Pods and their sidecars.                                                *)

\* A node runs one pod of the driver at a time; a pod does not come back.
StartPod(p) ==
  /\ p \notin live \cup past
  /\ \A q \in live : NodeOf[q] # NodeOf[p]
  /\ live' = live \cup {p}
  /\ sidecar' = [sidecar EXCEPT ![p] = "deploy"]
  /\ UNCHANGED <<past, stored, cache, queue, pc, locals, connections, reader>>

StopPod(p) ==
  /\ p \in live
  /\ live' = live \ {p}
  /\ past' = past \cup {p}
  /\ sidecar' = [sidecar EXCEPT ![p] = "off"]
  /\ UNCHANGED <<stored, cache, queue, pc, locals, connections, reader>>

\* Create or update the object; an object that is being deleted is an error and
\* deploy is called again, by the watcher's restart or the sidecar's.
newCSIAddonsNode(p) ==
  LET n == NodeOf[p] IN
  /\ sidecar[p] = "deploy"
  /\ ~node[n].deleting
  /\ Store(n, IF node[n].exists THEN [node[n] EXCEPT !.endpoint = p]
              ELSE [NoNode EXCEPT !.exists = TRUE, !.endpoint = p], TRUE)
  /\ cur' = [cur EXCEPT ![n] = FALSE]
  /\ sidecar' = [sidecar EXCEPT ![p] = "deployed"]
  /\ UNCHANGED <<live, past, cache, queue, pc, inst, newConn, connections, reader>>

\* The watch starts with what is there now: a deletion before it is not seen.
watchCSIAddonsNode(p) ==
  /\ sidecar[p] = "deployed"
  /\ sidecar' = [sidecar EXCEPT ![p] = "watch"]
  /\ UNCHANGED <<live, past, stored, cache, queue, pc, locals, connections, reader>>

\* The API server ends the watch, DispatchWatcher starts over.
DispatchWatcher(p) ==
  /\ sidecar[p] = "watch"
  /\ sidecar' = [sidecar EXCEPT ![p] = "deploy"]
  /\ UNCHANGED <<live, past, stored, cache, queue, pc, locals, connections, reader>>

-----------------------------------------------------------------------------
(* The connection pool.                                                    *)

\* c is neither pooled nor about to be, nobody has it and it is closed.
Free(c) ==
  /\ ~conn[c].client
  /\ \A p \in Pods : pool[p] # c
  /\ \A n \in Nodes : newConn[n] # c
  /\ \A r \in Readers : reader[r].conn # c

Close(c) == [conn EXCEPT ![c].client = FALSE]

\* Variant: the connection that was there stays open.
Put_keepsOld(key, c) == pool' = [pool EXCEPT ![key] = c] /\ UNCHANGED conn

\* The connection that was there is closed.
Put(key, c) ==
  /\ pool' = [pool EXCEPT ![key] = c]
  /\ conn' = IF pool[key] = None THEN conn ELSE Close(pool[key])

\* Variant: closed, but not taken out of the map.
Delete_onlyCloses(key) ==
  /\ conn' = IF pool[key] = None THEN conn ELSE Close(pool[key])
  /\ UNCHANGED pool

Delete(key) ==
  /\ pool' = [pool EXCEPT ![key] = None]
  /\ conn' = IF pool[key] = None THEN conn ELSE Close(pool[key])

\* A client that is nil is made anew.
Connect(c) == conn' = [conn EXCEPT ![c].client = TRUE]

-----------------------------------------------------------------------------
(* The CSIAddonsNode controller.                                           *)

Goto(n, step) == pc' = [pc EXCEPT ![n] = step]

\* Reconcile returns; requeue: with an error or with RequeueAfter.
Return(n, requeue) ==
  /\ Goto(n, "idle")
  /\ inst' = [inst EXCEPT ![n] = NoNode]
  /\ cur' = [cur EXCEPT ![n] = FALSE]
  /\ newConn' = [newConn EXCEPT ![n] = None]
  /\ queue' = IF requeue THEN queue \cup {n} ELSE queue

\* Variant: the error is only logged.
Fail_returnsNil(n) == Return(n, FALSE) /\ UNCHANGED <<stored, sidecar>>

Fail(n) == Return(n, TRUE) /\ UNCHANGED <<stored, sidecar>>

ReconcileStart(n) ==
  /\ pc[n] = "idle"
  /\ n \in queue
  /\ queue' = queue \ {n}
  /\ \/ ~cache[n].exists /\ UNCHANGED <<pc, inst, cur>>
     \/ /\ cache[n].exists
        /\ Goto(n, "resolve")
        /\ inst' = [inst EXCEPT ![n] = cache[n]]
        /\ cur' = [cur EXCEPT ![n] = cacheCur[n]]
  /\ UNCHANGED <<stored, pods, cache, newConn, connections, reader>>

\* After MaxRetries failures the object is deleted, otherwise one more counted.
backoffAndRetry(n) == Goto(n, IF inst[n].retries >= MaxRetries THEN "delete" ELSE "retry")

\* Variant: no pod name, and so no key, for a pod that is not found.
DeletedKey_resolved(n) == {inst[n].endpoint} \cap live

\* The pod name that resolveEndpoint returns even with an error.
DeletedKey(n) == {inst[n].endpoint}

\* Whether the pod is found matters only to an object that is not deleted.
resolveEndpoint(n) ==
  /\ pc[n] = "resolve"
  /\ \/ /\ inst[n].deleting
        /\ Goto(n, "removeFinalizer")
        /\ \/ \E key \in DeletedKey(n) : Delete(key)
           \/ DeletedKey(n) = {} /\ UNCHANGED connections
     \/ /\ ~inst[n].deleting
        /\ inst[n].endpoint \in live
        /\ Goto(n, "addFinalizer")
        /\ UNCHANGED connections
     \/ /\ ~inst[n].deleting
        /\ inst[n].endpoint \notin live
        /\ backoffAndRetry(n)
        /\ UNCHANGED connections
  /\ UNCHANGED <<stored, pods, cache, queue, locals, reader>>

\* A write of object n as o by its reconcile: it conflicts unless the instance
\* is current.  On success the reconcile goes on at step.
Update(n, o, step) ==
  /\ cur[n]
  /\ Store(n, o, FALSE)
  /\ inst' = [inst EXCEPT ![n] = o]
  /\ Goto(n, step)
  /\ UNCHANGED <<sidecar, cur, newConn, queue>>

addFinalizer(n) ==
  /\ pc[n] = "addFinalizer"
  /\ \/ /\ inst[n].finalizer
        /\ Goto(n, "connect")
        /\ UNCHANGED <<stored, sidecar, queue, locals>>
     \/ /\ ~inst[n].finalizer
        /\ Update(n, [inst[n] EXCEPT !.finalizer = TRUE], "connect")
     \/ ~inst[n].finalizer /\ ~cur[n] /\ Fail(n)
  /\ UNCHANGED <<live, past, cache, connections, reader>>

\* The last finalizer of an object that is being deleted: it is gone.
removeFinalizer(n) ==
  /\ pc[n] = "removeFinalizer"
  /\ \/ /\ inst[n].finalizer /\ cur[n]
        /\ Store(n, NoNode, TRUE)
        /\ Notice(n, NoNode)
        /\ Return(n, FALSE)
     \/ inst[n].finalizer /\ ~cur[n] /\ Fail(n)
     \/ ~inst[n].finalizer /\ Return(n, FALSE) /\ UNCHANGED <<stored, sidecar>>
  /\ UNCHANGED <<live, past, cache, connections, reader>>

\* The connection is made and its capabilities are read, or nothing is kept.
NewConnection(n) ==
  /\ pc[n] = "connect"
  /\ \/ /\ inst[n].endpoint \in live
        /\ \E c \in Conns :
             /\ Free(c) /\ \A d \in Conns : Free(d) => c <= d
             /\ conn' = [conn EXCEPT ![c] = [client |-> TRUE, pod |-> inst[n].endpoint]]
             /\ newConn' = [newConn EXCEPT ![n] = c]
        /\ Goto(n, "put")
     \/ /\ inst[n].endpoint \notin live \/ "dial" \in Faults
        /\ backoffAndRetry(n)
        /\ UNCHANGED <<conn, newConn>>
  /\ UNCHANGED <<stored, pods, cache, queue, inst, cur, pool, reader>>

\* The clients of a fence class cannot be read: the connection is dropped as it is.
getNetworkFenceClientStatus(n) ==
  /\ "fence" \in Faults
  /\ pc[n] = "put"
  /\ Fail(n)
  /\ UNCHANGED <<live, past, cache, connections, reader>>

PutConnection(n) ==
  /\ pc[n] = "put"
  /\ Put(inst[n].endpoint, newConn[n])
  /\ newConn' = [newConn EXCEPT ![n] = None]
  /\ Goto(n, "connected")
  /\ UNCHANGED <<stored, pods, cache, queue, inst, cur, reader>>

\* Status writes that end a reconcile; both ask to be called again later.
WriteStatus(n, step, state, retries) ==
  /\ pc[n] = step
  /\ \/ /\ cur[n]
        /\ Store(n, [inst[n] EXCEPT !.state = state, !.retries = retries], FALSE)
        /\ Return(n, TRUE)
        /\ UNCHANGED sidecar
     \/ ~cur[n] /\ Fail(n)
  /\ UNCHANGED <<live, past, cache, connections, reader>>

SetConnected(n) == WriteStatus(n, "connected", "Connected", 0)

\* Variant: the attempts are not counted.
SetRetrying_uncounted(n) == WriteStatus(n, "retry", "Retrying", inst[n].retries)

SetRetrying(n) == WriteStatus(n, "retry", "Retrying", inst[n].retries + 1)

\* A deletion does not look at the resource version: it takes whatever object
\* has the name now, and none is not an error.
DeleteAfterRetries(n) ==
  /\ pc[n] = "delete"
  /\ \/ /\ node[n].exists /\ ~node[n].deleting
        /\ Store(n, MarkDeleted(n), TRUE)
        /\ Notice(n, MarkDeleted(n))
     \/ /\ node[n].exists => node[n].deleting
        /\ UNCHANGED <<stored, sidecar>>
  /\ Return(n, FALSE)
  /\ UNCHANGED <<live, past, cache, connections, reader>>

\* A call of the API server fails.
ApiError(n) ==
  /\ "api" \in Faults
  /\ \/ pc[n] \in {"connected", "retry", "delete"}
     \/ pc[n] = "addFinalizer" /\ ~inst[n].finalizer
     \/ pc[n] = "removeFinalizer" /\ inst[n].finalizer
  /\ Fail(n)
  /\ UNCHANGED <<live, past, cache, connections, reader>>

\* The manager restarts: pool and reconciles are gone, every object is queued.
Crash ==
  /\ "crash" \in Faults
  /\ cache' = node
  /\ cacheCur' = [n \in Nodes |-> TRUE]
  /\ event' = [n \in Nodes |-> FALSE]
  /\ queue' = {n \in Nodes : node[n].exists}
  /\ pc' = [n \in Nodes |-> "idle"]
  /\ inst' = [n \in Nodes |-> NoNode]
  /\ cur' = [n \in Nodes |-> FALSE]
  /\ newConn' = [n \in Nodes |-> None]
  /\ pool' = [p \in Pods |-> None]
  /\ conn' = [c \in Conns |-> NoConn]
  /\ reader' = [r \in Readers |-> Idle]
  /\ UNCHANGED <<node, pods>>

-----------------------------------------------------------------------------
(* Reconciles that take a connection from the pool.                        *)

\* GetLeaderByDriver reads the lease in the namespace of any connection; its
\* holder is a pod that runs, or that ran until lately ...
GetLease(r) ==
  /\ reader[r].step = "idle"
  /\ \E p \in Pods : pool[p] # None
  /\ \E holder \in live \cup past :
       reader' = [reader EXCEPT ![r] = [step |-> "lease", key |-> holder, conn |-> None]]
  /\ UNCHANGED <<stored, pods, cache, queue, pc, locals, connections>>

Take(r, key) ==
  /\ reader' = [reader EXCEPT ![r] = [step |-> "conn", key |-> key, conn |-> pool[key]]]
  /\ Connect(pool[key])

\* ... and looks its holder up in the pool.
GetLeaderByDriver(r) ==
  /\ reader[r].step = "lease"
  /\ \/ pool[reader[r].key] # None /\ Take(r, reader[r].key)
     \/ /\ pool[reader[r].key] = None
        /\ reader' = [reader EXCEPT ![r] = Idle]
        /\ UNCHANGED conn
  /\ UNCHANGED <<stored, pods, cache, queue, pc, locals, pool>>

\* Any of the connections made for object n, in the order of a Go map.
GetByNodeID(r, n) ==
  /\ reader[r].step = "idle"
  /\ \E p \in Pods : NodeOf[p] = n /\ pool[p] # None /\ Take(r, p)
  /\ UNCHANGED <<stored, pods, cache, queue, pc, locals, pool>>

\* The reader takes the client of its connection and calls the driver.
UseClient(r) ==
  /\ reader[r].step = "conn"
  /\ reader' = [reader EXCEPT ![r] = Idle]
  /\ UNCHANGED <<stored, pods, cache, queue, pc, locals, connections>>

-----------------------------------------------------------------------------
Init ==
  /\ node = [n \in Nodes |-> NoNode]
  /\ live = {}
  /\ past = {}
  /\ sidecar = [p \in Pods |-> "off"]
  /\ cache = node
  /\ cacheCur = [n \in Nodes |-> TRUE]
  /\ event = [n \in Nodes |-> FALSE]
  /\ queue = {}
  /\ pc = [n \in Nodes |-> "idle"]
  /\ inst = [n \in Nodes |-> NoNode]
  /\ cur = [n \in Nodes |-> FALSE]
  /\ newConn = [n \in Nodes |-> None]
  /\ pool = [p \in Pods |-> None]
  /\ conn = [c \in Conns |-> NoConn]
  /\ reader = [r \in Readers |-> Idle]

Sidecar(p) ==
  newCSIAddonsNode(p) \/ watchCSIAddonsNode(p) \/ DispatchWatcher(p)

Reconcile(n) ==
  \/ ReconcileStart(n)
  \/ resolveEndpoint(n)
  \/ addFinalizer(n)
  \/ removeFinalizer(n)
  \/ NewConnection(n)
  \/ getNetworkFenceClientStatus(n)
  \/ PutConnection(n)
  \/ SetConnected(n)
  \/ SetRetrying(n)
  \/ DeleteAfterRetries(n)

Reader(r) ==
  \/ GetLease(r)
  \/ GetLeaderByDriver(r)
  \/ \E n \in Nodes : GetByNodeID(r, n)
  \/ UseClient(r)

Next ==
  \/ \E n \in Nodes : DeleteNode(n) \/ Sync(n) \/ Reconcile(n) \/ ApiError(n)
  \/ \E p \in Pods : StartPod(p) \/ StopPod(p) \/ Sidecar(p)
  \/ \E r \in Readers : Reader(r)
  \/ Crash

Spec == Init /\ [][Next]_vars

\* Connecting succeeds when the pod runs.
Progress(n) ==
  /\ Reconcile(n)
  /\ pc[n] = "put" => pc'[n] = "connected"
  /\ pc[n] = "connect" /\ inst[n].endpoint \in live => pc'[n] = "put"

\* The API server ends a watch after half an hour or more, a conflict is retried
\* at once: a sidecar writes its object between two reconciles, and only when
\* the controller has dealt with its previous write.
Unhurried(p) ==
  LET n == NodeOf[p] IN
  /\ Sidecar(p)
  /\ sidecar[p] = "deploy" => pc[n] = "idle"
  /\ sidecar[p] = "watch" =>
       /\ pc[n] = "idle" /\ cacheCur[n]
       /\ node[n].exists => node[n].state = "Connected" /\ pool[node[n].endpoint] # None

\* From some time on nobody deletes objects, and the API server, the network
\* and the manager work.
FaultsCease ==
  <>[][\/ \E n \in Nodes : Sync(n) \/ Progress(n)
       \/ \E p \in Pods : StartPod(p) \/ StopPod(p) \/ Unhurried(p)
       \/ \E r \in Readers : Reader(r)]_vars

\* Workers take queued keys, informers deliver, sidecars retry and the API
\* server ends every watch some time.
Fairness ==
  /\ \A n \in Nodes : WF_vars(Sync(n)) /\ WF_vars(Progress(n))
  /\ \A p \in Pods : WF_vars(Unhurried(p))

FairSpec == Spec /\ Fairness /\ FaultsCease

-----------------------------------------------------------------------------
(* Properties.                                                             *)

Steps == {"idle", "resolve", "addFinalizer", "removeFinalizer", "connect",
          "put", "connected", "retry", "delete"}

\* Objects, connections and steps are what the types and Reconcile allow.
TypeOK ==
  /\ node \in [Nodes -> NodeObjects]
  /\ live \subseteq Pods /\ past \subseteq Pods
  /\ sidecar \in [Pods -> {"off", "deploy", "deployed", "watch"}]
  /\ cache \in [Nodes -> NodeObjects]
  /\ cacheCur \in [Nodes -> BOOLEAN]
  /\ event \in [Nodes -> BOOLEAN]
  /\ queue \subseteq Nodes
  /\ pc \in [Nodes -> Steps]
  /\ inst \in [Nodes -> NodeObjects]
  /\ cur \in [Nodes -> BOOLEAN]
  /\ newConn \in [Nodes -> Conns \cup {None}]
  /\ pool \in [Pods -> Conns \cup {None}]
  /\ conn \in [Conns -> [client : BOOLEAN, pod : Pods \cup {None}]]
  /\ reader \in [Readers -> [step : {"idle", "lease", "conn"},
                              key : Pods \cup {None}, conn : Conns \cup {None}]]

\* Whatever a reader may find in the pool is open and leads to the pod it is
\* filed under: Put and Delete never leave a closed connection behind.
PooledIsOpen ==
  \A p \in Pods : pool[p] # None => conn[pool[p]].client /\ conn[pool[p]].pod = p

\* c is open, and neither in the pool nor in the hands of a reconcile.
Forgotten(c) ==
  /\ conn[c].client
  /\ \A p \in Pods : pool[p] # c
  /\ \A n \in Nodes : newConn[n] # c

\* No step of Reconcile, Put or Delete forgets an open connection, but for the
\* return of Reconcile when the clients of a fence class cannot be read.
NeverForgotten ==
  [][\A c \in Conns :
       Forgotten(c)' => Forgotten(c) \/ \E n \in Nodes : getNetworkFenceClientStatus(n)]_vars

\* A connection stays in the pool only as long as the object it was made for,
\* whose deletion takes it out.
PooledIsRegistered ==
  \A p \in Pods : pool[p] # None =>
    node[NodeOf[p]].exists /\ node[NodeOf[p]].finalizer

\* The client of a connection that a reader was given is there when the reader
\* comes to use it.
ClientUsable ==
  \A r \in Readers : reader[r].step = "conn" => conn[reader[r].conn].client

\* An object that is marked for deletion goes.
DeletionCompletes == \A n \in Nodes : node[n].deleting ~> ~node[n].deleting

\* However often its object was deleted, updated or raced, a pod that keeps
\* running ends up registered, connected and in the pool.
Registered ==
  \A p \in Pods :
    <>[](p \in live) =>
    <>[](/\ pool[p] # None
         /\ node[NodeOf[p]].endpoint = p
         /\ node[NodeOf[p]].state = "Connected")

\* An object whose pod does not come back is not retried for ever.
AbandonedIsDeleted ==
  \A n \in Nodes :
    <>[](\A p \in live : NodeOf[p] # n) => <>[](~node[n].exists)
=============================================================================
