------------------------ MODULE CSIAddonsNodeProofs ------------------------
(***************************************************************************)
(* For any nodes, pods, readers and faults: objects keep their types, what *)
(* readers find in the ConnectionPool is open and leads to the pod it is   *)
(* filed under, and no open connection is forgotten.  The reason is that a *)
(* connection has one owner: one reconcile, until it is in the pool, and   *)
(* one key of the pool from then on.  When a node has one pod (OnePod),    *)
(* what is in the pool is of a node that is registered.                    *)
(***************************************************************************)
EXTENDS CSIAddonsNode, TLAPS

\* Objects that exist name a pod.
Objects == {o \in NodeObjects : o.exists => o.endpoint \in Pods}

ObjectInv ==
  /\ node \in [Nodes -> Objects]
  /\ cache \in [Nodes -> Objects]
  /\ inst \in [Nodes -> Objects]
  /\ \A n \in Nodes : /\ pc[n] # "idle" => inst[n].exists
                      /\ pc[n] = "retry" => inst[n].retries < MaxRetries

ReaderInv == \A r \in Readers : reader[r].step = "lease" => reader[r].key \in Pods

\* A reconcile has a connection between making it and handing it to the pool.
HeldInv ==
  \A n \in Nodes :
    /\ pc[n] = "put" => newConn[n] # None
    /\ newConn[n] # None => /\ pc[n] = "put"
                            /\ conn[newConn[n]].client
                            /\ conn[newConn[n]].pod = inst[n].endpoint

\* Every connection has one owner.
OwnerInv ==
  /\ \A p, q \in Pods : pool[p] # None /\ pool[p] = pool[q] => p = q
  /\ \A m, n \in Nodes : newConn[m] # None /\ newConn[m] = newConn[n] => m = n
  /\ \A p \in Pods, n \in Nodes : pool[p] # None => pool[p] # newConn[n]

ConnInv == HeldInv /\ OwnerInv /\ PooledIsOpen

NodeInv == TypeOK /\ ObjectInv /\ ReaderInv /\ ConnInv

-----------------------------------------------------------------------------
(* Objects.                                                                *)

\* What becomes of an object when it is deleted or gets its finalizer.
LEMMA Edits ==
  ASSUME NEW o \in Objects
  PROVE  /\ o \in NodeObjects
         /\ o.exists \in BOOLEAN /\ o.finalizer \in BOOLEAN /\ o.deleting \in BOOLEAN
         /\ o.exists => o.endpoint \in Pods
         /\ o.retries \in 0..MaxRetries
         /\ [o EXCEPT !.deleting = TRUE] \in Objects
         /\ [o EXCEPT !.finalizer = TRUE] \in Objects
         /\ [o EXCEPT !.finalizer = TRUE].exists = o.exists
         /\ [o EXCEPT !.finalizer = TRUE].endpoint = o.endpoint
  BY Zenon DEF Objects, NodeObjects

\* Statuses that the controller stores.
LEMMA StatusEdits ==
  ASSUME NEW o \in Objects, NEW r \in 0..MaxRetries, NEW s \in {"", "Connected", "Retrying"}
  PROVE  [o EXCEPT !.state = s, !.retries = r] \in Objects
  BY Zenon DEF Objects, NodeObjects

\* An object that is not there.
LEMMA NoNodeObject == NoNode \in Objects /\ ~NoNode.exists
  <1>1. 0 \in 0..MaxRetries
    BY NodeAssumption
  <1>2. QED
    BY Zenon, <1>1 DEF Objects, NodeObjects, NoNode

\* What a sidecar writes (newCSIAddonsNode).
LEMMA SidecarEdits ==
  ASSUME NEW o \in Objects, NEW p \in Pods
  PROVE  /\ [o EXCEPT !.endpoint = p] \in Objects
         /\ [NoNode EXCEPT !.exists = TRUE, !.endpoint = p] \in Objects
  <1>1. 0 \in 0..MaxRetries
    BY NodeAssumption
  <1>2. QED
    BY Zenon, <1>1 DEF Objects, NodeObjects, NoNode

\* One more attempt is counted only below the maximum (backoffAndRetry).
LEMMA Count ==
  ASSUME NEW r \in 0..MaxRetries
  PROVE  /\ 0 \in 0..MaxRetries
         /\ ~(r >= MaxRetries) => r < MaxRetries
         /\ r < MaxRetries => r + 1 \in 0..MaxRetries
  BY NodeAssumption

-----------------------------------------------------------------------------
(* Connections.                                                            *)

\* A step that leaves connections, and the reconciles that have one, alone.
LEMMA SameConnections ==
  ASSUME ConnInv, UNCHANGED <<pc, inst, newConn, pool, conn>>
  PROVE  ConnInv'
  BY Zenon DEF ConnInv, HeldInv, OwnerInv, PooledIsOpen

\* A reconcile goes on to a step other than "put", or returns, with no connection.
LEMMA WithoutConnection ==
  ASSUME TypeOK, ConnInv, NEW n \in Nodes, NEW step, NEW o, step # "put",
         pc' = [pc EXCEPT ![n] = step],
         inst' = [inst EXCEPT ![n] = o],
         newConn' = [newConn EXCEPT ![n] = None],
         UNCHANGED <<pool, conn>>
  PROVE  ConnInv'
  BY DEF TypeOK, ConnInv, HeldInv, OwnerInv, PooledIsOpen

\* What a reconcile has when it is not about to hand over a connection.
LEMMA NoneHeld ==
  ASSUME TypeOK, ConnInv, NEW n \in Nodes, pc[n] # "put"
  PROVE  newConn[n] = None /\ newConn = [newConn EXCEPT ![n] = None]
  BY DEF TypeOK, ConnInv, HeldInv

\* Closing a connection keeps the types of all connections.
LEMMA ClosedType ==
  ASSUME NEW f \in [Conns -> [client : BOOLEAN, pod : Pods \cup {None}]], NEW c \in Conns
  PROVE  [f EXCEPT ![c].client = FALSE] \in [Conns -> [client : BOOLEAN, pod : Pods \cup {None}]]
  <1>1. [f[c] EXCEPT !.client = FALSE] \in [client : BOOLEAN, pod : Pods \cup {None}]
    BY Zenon
  <1>2. QED
    BY Zenon, <1>1

\* Delete: the connection is closed and no longer in the pool.
LEMMA Deleted ==
  ASSUME TypeOK, ConnInv, NEW n \in Nodes, NEW step, NEW key \in Pods, Delete(key),
         pc[n] # "put", step # "put", pc' = [pc EXCEPT ![n] = step], UNCHANGED <<inst, newConn>>
  PROVE  /\ ConnInv'
         /\ pool' \in [Pods -> Conns \cup {None}]
         /\ conn' \in [Conns -> [client : BOOLEAN, pod : Pods \cup {None}]]
  <1>1. pool' \in [Pods -> Conns \cup {None}] /\ pool' = [pool EXCEPT ![key] = None]
    BY Zenon DEF TypeOK, Delete
  <1>2. CASE pool[key] = None
    BY <1>1, <1>2 DEF TypeOK, ConnInv, HeldInv, OwnerInv, PooledIsOpen, Delete
  <1>3. CASE pool[key] # None
    <2>1. pool[key] \in Conns
      BY Zenon, <1>3 DEF TypeOK
    <2>2. conn' = [conn EXCEPT ![pool[key]].client = FALSE]
      BY Zenon, <1>3 DEF Delete, Close
    <2>3. conn' \in [Conns -> [client : BOOLEAN, pod : Pods \cup {None}]]
      BY Zenon, <2>1, <2>2, ClosedType DEF TypeOK
    <2>4. \A c \in Conns : c # pool[key] => conn'[c] = conn[c]
      BY Zenon, <2>1, <2>2 DEF TypeOK
    <2>5. HeldInv'
      BY <1>3, <2>4 DEF TypeOK, ConnInv, HeldInv, OwnerInv
    <2>6. OwnerInv'
      BY <1>1 DEF TypeOK, ConnInv, OwnerInv
    <2>7. PooledIsOpen'
      BY <1>1, <1>3, <2>4 DEF TypeOK, ConnInv, OwnerInv, PooledIsOpen
    <2>8. QED
      BY Zenon, <1>1, <2>3, <2>5, <2>6, <2>7 DEF ConnInv
  <1>4. QED
    BY Zenon, <1>2, <1>3

\* NewConnection: nobody has the connection that is made.
LEMMA Made ==
  ASSUME TypeOK, ConnInv, NEW n \in Nodes, NEW c \in Conns, Free(c), pc[n] = "connect",
         inst[n].endpoint \in Pods,
         conn' = [conn EXCEPT ![c] = [client |-> TRUE, pod |-> inst[n].endpoint]],
         newConn' = [newConn EXCEPT ![n] = c],
         pc' = [pc EXCEPT ![n] = "put"], UNCHANGED <<pool, inst>>
  PROVE  /\ ConnInv'
         /\ newConn' \in [Nodes -> Conns \cup {None}]
         /\ conn' \in [Conns -> [client : BOOLEAN, pod : Pods \cup {None}]]
  <1>0. c # None
    BY Zenon, NodeAssumption
  <1>1. /\ newConn' \in [Nodes -> Conns \cup {None}]
        /\ conn' \in [Conns -> [client : BOOLEAN, pod : Pods \cup {None}]]
    BY Zenon DEF TypeOK
  <1>2. conn'[c].client /\ conn'[c].pod = inst[n].endpoint /\ newConn'[n] = c
    BY Zenon DEF TypeOK
  <1>3. /\ \A d \in Conns : d # c => conn'[d] = conn[d]
        /\ \A m \in Nodes : m # n => newConn'[m] = newConn[m] /\ pc'[m] = pc[m]
    BY Zenon DEF TypeOK
  <1>4. HeldInv'
    BY <1>0, <1>2, <1>3 DEF TypeOK, ConnInv, HeldInv, Free
  <1>5. OwnerInv'
    BY <1>0, <1>2, <1>3 DEF TypeOK, ConnInv, OwnerInv, Free
  <1>6. PooledIsOpen'
    BY <1>0, <1>3 DEF TypeOK, ConnInv, PooledIsOpen, Free
  <1>7. QED
    BY Zenon, <1>1, <1>4, <1>5, <1>6 DEF ConnInv

\* Put: the pool takes the connection over and closes the one that was there.
LEMMA Filed ==
  ASSUME TypeOK, ConnInv, NEW n \in Nodes, pc[n] = "put", inst[n].endpoint \in Pods,
         Put(inst[n].endpoint, newConn[n]),
         newConn' = [newConn EXCEPT ![n] = None],
         pc' = [pc EXCEPT ![n] = "connected"], UNCHANGED inst
  PROVE  /\ ConnInv'
         /\ newConn' \in [Nodes -> Conns \cup {None}]
         /\ pool' \in [Pods -> Conns \cup {None}]
         /\ conn' \in [Conns -> [client : BOOLEAN, pod : Pods \cup {None}]]
  <1> DEFINE key == inst[n].endpoint
             old == pool[key]
  <1>1. newConn[n] # None /\ newConn[n] \in Conns /\ conn[newConn[n]].client
        /\ conn[newConn[n]].pod = key
    BY DEF TypeOK, ConnInv, HeldInv
  <1>2. /\ newConn' \in [Nodes -> Conns \cup {None}]
        /\ pool' \in [Pods -> Conns \cup {None}]
        /\ pool'[key] = newConn[n] /\ \A p \in Pods : p # key => pool'[p] = pool[p]
        /\ newConn'[n] = None /\ \A m \in Nodes : m # n => newConn'[m] = newConn[m] /\ pc'[m] = pc[m]
    BY <1>1 DEF TypeOK, Put
  <1>3. conn' \in [Conns -> [client : BOOLEAN, pod : Pods \cup {None}]]
        /\ \A d \in Conns : d # old => conn'[d] = conn[d]
    <2>1. CASE old = None
      BY Zenon, <2>1 DEF TypeOK, Put
    <2>2. CASE old # None
      <3>1. old \in Conns /\ conn' = [conn EXCEPT ![old].client = FALSE]
        BY Zenon, <2>2 DEF TypeOK, Put, Close
      <3>2. conn' \in [Conns -> [client : BOOLEAN, pod : Pods \cup {None}]]
        BY Zenon, <3>1, ClosedType DEF TypeOK
      <3>3. QED
        BY Zenon, <3>1, <3>2 DEF TypeOK
    <2>3. QED
      BY Zenon, <2>1, <2>2
  <1>4. OwnerInv'
    BY <1>1, <1>2 DEF TypeOK, ConnInv, OwnerInv
  <1>5. old # newConn[n] /\ \A m \in Nodes : newConn[m] # None => newConn[m] # old
    BY Zenon, <1>1 DEF ConnInv, OwnerInv
  <1>6. HeldInv'
    BY <1>2, <1>3, <1>5 DEF TypeOK, ConnInv, HeldInv
  <1>7. PooledIsOpen'
    <2>. SUFFICES ASSUME NEW p \in Pods, pool'[p] # None
                  PROVE  conn'[pool'[p]].client /\ conn'[pool'[p]].pod = p
      BY Zenon DEF PooledIsOpen
    <2>1. CASE p = key
      BY <2>1, <1>1, <1>2, <1>3, <1>5
    <2>2. CASE p # key
      <3>1. pool'[p] = pool[p] /\ pool[p] \in Conns /\ pool[p] # old
        BY <2>2, <1>2 DEF TypeOK, ConnInv, OwnerInv
      <3>2. QED
        BY <3>1, <1>3 DEF ConnInv, PooledIsOpen
    <2>3. QED
      BY Zenon, <2>1, <2>2
  <1>8. QED
    BY Zenon, <1>2, <1>3, <1>4, <1>6, <1>7 DEF ConnInv

\* A reader takes a connection of the pool: its client is there already (Connect).
LEMMA Taken ==
  ASSUME TypeOK, ConnInv, NEW key \in Pods, pool[key] # None, Connect(pool[key])
  PROVE  UNCHANGED conn
  <1>1. pool[key] \in Conns /\ conn[pool[key]].client = TRUE
    BY DEF TypeOK, ConnInv, PooledIsOpen
  <1>2. conn' = [conn EXCEPT ![pool[key]].client = TRUE]
    BY Zenon DEF Connect
  <1>3. [conn[pool[key]] EXCEPT !.client = TRUE] = conn[pool[key]]
    BY Zenon, <1>1 DEF TypeOK
  <1>4. QED
    BY <1>1, <1>2, <1>3 DEF TypeOK
-----------------------------------------------------------------------------
(* Steps.                                                                  *)

SidecarStates == {"off", "deploy", "deployed", "watch"}

\* The objects, and the sidecars that watch them, after a step.
StoredOK ==
  /\ node \in [Nodes -> Objects]
  /\ cacheCur \in [Nodes -> BOOLEAN]
  /\ event \in [Nodes -> BOOLEAN]
  /\ sidecar \in [Pods -> SidecarStates]

\* Types of what is stored.
LEMMA StoredTypes == NodeInv => StoredOK
  BY Zenon DEF NodeInv, TypeOK, ObjectInv, StoredOK, SidecarStates

\* One object of the store is replaced.
LEMMA Stores ==
  ASSUME NodeInv, NEW n \in Nodes, NEW o \in Objects, NEW queues \in BOOLEAN,
         Store(n, o, queues), sidecar' \in [Pods -> SidecarStates]
  PROVE  StoredOK'
  <1>1. node' \in [Nodes -> Objects]
    BY Zenon DEF NodeInv, ObjectInv, Store
  <1>2. cacheCur' \in [Nodes -> BOOLEAN]
    BY Zenon DEF NodeInv, TypeOK, Store
  <1>3. (queues \/ event[n]) \in BOOLEAN
    BY Zenon
  <1>4. event' \in [Nodes -> BOOLEAN]
    BY Zenon, <1>3 DEF NodeInv, TypeOK, Store
  <1>5. QED
    BY Zenon, <1>1, <1>2, <1>4 DEF StoredOK

\* Sidecars that notice the removal of their object go on to deploy it.
LEMMA Noticed ==
  ASSUME NodeInv, NEW n, NEW o, Notice(n, o)
  PROVE  sidecar' \in [Pods -> SidecarStates]
  BY Zenon DEF NodeInv, TypeOK, Notice, SidecarStates

\* Well-typed objects, for the provers.
LEMMA ObjectTypes == \A f : f \in [Nodes -> Objects] => f \in [Nodes -> NodeObjects]
  BY Zenon DEF Objects

\* A step of users and sidecars, on an object.
LEMMA Outside ==
  ASSUME NodeInv, StoredOK', NEW n \in Nodes, cur' = [cur EXCEPT ![n] = FALSE],
         UNCHANGED <<live, past, cache, queue, pc, inst, newConn, connections, reader>>
  PROVE  NodeInv'
  <1>1. ConnInv'
    BY Zenon, SameConnections DEF NodeInv, connections
  <1>2. ObjectInv' /\ ReaderInv'
    BY Zenon DEF NodeInv, ObjectInv, ReaderInv, StoredOK
  <1>3. TypeOK'
    BY Zenon, ObjectTypes DEF NodeInv, TypeOK, StoredOK, SidecarStates, connections
  <1>4. QED
    BY Zenon, <1>1, <1>2, <1>3 DEF NodeInv

\* A reconcile returns.
LEMMA Returns ==
  ASSUME NodeInv, StoredOK', NEW n \in Nodes, NEW requeue \in BOOLEAN, Return(n, requeue),
         UNCHANGED <<live, past, cache, connections, reader>>
  PROVE  NodeInv'
  <1>1. /\ pc' = [pc EXCEPT ![n] = "idle"]
        /\ inst' = [inst EXCEPT ![n] = NoNode]
        /\ newConn' = [newConn EXCEPT ![n] = None]
        /\ cur' = [cur EXCEPT ![n] = FALSE]
        /\ queue' \subseteq queue \cup {n}
        /\ UNCHANGED <<pool, conn>>
    BY Zenon DEF Return, Goto, connections
  <1>2. ConnInv'
    BY Zenon, <1>1, WithoutConnection DEF NodeInv
  <1>3. ObjectInv' /\ ReaderInv'
    BY Zenon, <1>1, NoNodeObject DEF NodeInv, TypeOK, ObjectInv, ReaderInv, StoredOK
  <1>4. TypeOK'
    BY Zenon, <1>1, <1>3, ObjectTypes DEF NodeInv, TypeOK, ObjectInv, StoredOK, SidecarStates, Steps
  <1>5. QED
    BY Zenon, <1>2, <1>3, <1>4 DEF NodeInv

\* A reconcile goes on, with no connection, at another step.
LEMMA Goes ==
  ASSUME NodeInv, StoredOK', NEW n \in Nodes, NEW step \in Steps \ {"put"}, NEW o \in Objects,
         pc[n] # "put", pc' = [pc EXCEPT ![n] = step], inst' = [inst EXCEPT ![n] = o],
         o.exists, step = "retry" => o.retries < MaxRetries,
         cur' \in [Nodes -> BOOLEAN], queue' \subseteq Nodes,
         UNCHANGED <<live, past, cache, newConn, connections, reader>>
  PROVE  NodeInv'
  <1>1. newConn' = [newConn EXCEPT ![n] = None] /\ UNCHANGED <<pool, conn>>
    BY Zenon, NoneHeld DEF NodeInv, connections
  <1>2. ConnInv'
    BY Zenon, <1>1, WithoutConnection DEF NodeInv
  <1>3. ObjectInv' /\ ReaderInv'
    BY Zenon DEF NodeInv, TypeOK, ObjectInv, ReaderInv, StoredOK
  <1>4. TypeOK'
    BY Zenon, <1>1, <1>3, ObjectTypes DEF NodeInv, TypeOK, ObjectInv, StoredOK, SidecarStates, Steps
  <1>5. QED
    BY Zenon, <1>2, <1>3, <1>4 DEF NodeInv

\* The instance of a reconcile that is under way.
LEMMA Instance ==
  ASSUME NodeInv, NEW n \in Nodes
  PROVE  /\ inst[n] \in Objects /\ cache[n] \in Objects /\ node[n] \in Objects
         /\ inst = [inst EXCEPT ![n] = inst[n]]
         /\ pc[n] # "idle" => inst[n].exists /\ inst[n].endpoint \in Pods
         /\ inst[n].retries \in 0..MaxRetries
         /\ pc[n] = "retry" => inst[n].retries < MaxRetries
  BY Zenon, Edits DEF NodeInv, ObjectInv

\* Users.
LEMMA DeleteNodeStep == ASSUME NodeInv, NEW n \in Nodes, DeleteNode(n) PROVE NodeInv'
  <1>1. MarkDeleted(n) \in Objects
    BY Zenon, Instance, Edits, NoNodeObject DEF MarkDeleted
  <1>2. StoredOK'
    BY Zenon, <1>1, Noticed, Stores DEF DeleteNode
  <1>3. QED
    BY Zenon, <1>2, Outside DEF DeleteNode

\* Informers.
LEMMA SyncStep == ASSUME NodeInv, NEW n \in Nodes, Sync(n) PROVE NodeInv'
  <1>1. ConnInv'
    BY Zenon, SameConnections DEF NodeInv, Sync, locals, connections
  <1>2. ObjectInv' /\ ReaderInv'
    BY Zenon DEF NodeInv, TypeOK, ObjectInv, ReaderInv, Sync, locals
  <1>3. TypeOK'
    BY Zenon, <1>2, ObjectTypes DEF NodeInv, TypeOK, ObjectInv, Sync, pods, locals, connections
  <1>4. QED
    BY Zenon, <1>1, <1>2, <1>3 DEF NodeInv

\* Pods and the steps of sidecars that write nothing.
LEMMA PodStep ==
  ASSUME NodeInv, NEW p \in Pods,
         StartPod(p) \/ StopPod(p) \/ watchCSIAddonsNode(p) \/ DispatchWatcher(p)
  PROVE  NodeInv'
  <1>1. /\ live' \subseteq Pods /\ past' \subseteq Pods /\ sidecar' \in [Pods -> SidecarStates]
        /\ UNCHANGED <<stored, cache, queue, pc, locals, connections, reader>>
    BY DEF NodeInv, TypeOK, StartPod, StopPod, watchCSIAddonsNode, DispatchWatcher, SidecarStates
  <1>2. ConnInv'
    BY Zenon, <1>1, SameConnections DEF NodeInv, locals, connections
  <1>3. ObjectInv' /\ ReaderInv' /\ TypeOK'
    BY Zenon, <1>1
    DEF NodeInv, TypeOK, ObjectInv, ReaderInv, stored, locals, connections, SidecarStates
  <1>4. QED
    BY Zenon, <1>2, <1>3 DEF NodeInv

\* Sidecars register.
LEMMA RegisterStep == ASSUME NodeInv, NEW p \in Pods, newCSIAddonsNode(p) PROVE NodeInv'
  <1>0. NodeOf[p] \in Nodes
    BY Zenon, NodeAssumption
  <1>1. PICK o \in Objects : Store(NodeOf[p], o, TRUE)
    BY Zenon, <1>0, Instance, SidecarEdits DEF newCSIAddonsNode
  <1>2. sidecar' \in [Pods -> SidecarStates]
    BY Zenon DEF NodeInv, TypeOK, newCSIAddonsNode, SidecarStates
  <1>3. StoredOK'
    BY Zenon, <1>0, <1>1, <1>2, Stores
  <1>4. QED
    BY Zenon, <1>0, <1>3, Outside DEF newCSIAddonsNode
\* An error ends a reconcile.
LEMMA FailStep ==
  ASSUME NodeInv, NEW n \in Nodes, Fail(n), UNCHANGED <<live, past, cache, connections, reader>>
  PROVE  NodeInv'
  <1>1. StoredOK'
    BY Zenon, StoredTypes DEF Fail, StoredOK, stored
  <1>2. QED
    BY Zenon, <1>1, Returns DEF Fail

\* Get.
LEMMA StartStep == ASSUME NodeInv, NEW n \in Nodes, ReconcileStart(n) PROVE NodeInv'
  <1>0. StoredOK'
    BY Zenon, StoredTypes DEF ReconcileStart, StoredOK, stored, pods
  <1>1. queue' \subseteq Nodes
    BY Zenon DEF NodeInv, TypeOK, ReconcileStart
  <1>2. CASE ~cache[n].exists
    <2>1. UNCHANGED <<stored, pods, cache, pc, locals, connections, reader>>
      BY Zenon, <1>2 DEF ReconcileStart, locals
    <2>2. ConnInv'
      BY Zenon, <2>1, SameConnections DEF NodeInv, locals, connections
    <2>3. ObjectInv' /\ ReaderInv' /\ TypeOK'
      BY Zenon, <1>1, <2>1
      DEF NodeInv, TypeOK, ObjectInv, ReaderInv, stored, pods, locals, connections
    <2>4. QED
      BY Zenon, <2>2, <2>3 DEF NodeInv
  <1>3. CASE cache[n].exists
    <2>1. cache[n] \in Objects /\ cacheCur[n] \in BOOLEAN
      BY Zenon, Instance DEF NodeInv, TypeOK
    <2>2. cur' \in [Nodes -> BOOLEAN]
      BY Zenon, <1>3, <2>1 DEF NodeInv, TypeOK, ReconcileStart
    <2>3. pc[n] # "put" /\ "resolve" \in Steps \ {"put"}
      BY Zenon DEF ReconcileStart, Steps
    <2>4. /\ pc' = [pc EXCEPT ![n] = "resolve"] /\ inst' = [inst EXCEPT ![n] = cache[n]]
          /\ UNCHANGED <<live, past, cache, newConn, connections, reader>>
      BY Zenon, <1>3 DEF ReconcileStart, Goto, pods
    <2>5. QED
      BY Zenon, <1>0, <1>1, <1>3, <2>1, <2>2, <2>3, <2>4, Goes
  <1>4. QED
    BY Zenon, <1>2, <1>3

\* A step that only moves a reconcile on.
LEMMA MoveStep ==
  ASSUME NodeInv, NEW n \in Nodes, NEW step \in Steps \ {"put"}, Goto(n, step),
         pc[n] \notin {"idle", "put"}, step = "retry" => inst[n].retries < MaxRetries,
         UNCHANGED <<stored, pods, cache, queue, locals, connections, reader>>
  PROVE  NodeInv'
  <1>1. StoredOK'
    BY Zenon, StoredTypes DEF StoredOK, stored, pods
  <1>2. /\ pc' = [pc EXCEPT ![n] = step] /\ inst' = [inst EXCEPT ![n] = inst[n]]
        /\ inst[n] \in Objects /\ inst[n].exists
    BY Zenon, Instance DEF Goto, locals
  <1>3. cur' \in [Nodes -> BOOLEAN] /\ queue' \subseteq Nodes
    BY Zenon DEF NodeInv, TypeOK, locals
  <1>4. UNCHANGED <<live, past, cache, newConn, connections, reader>>
    BY Zenon DEF pods, locals
  <1>5. QED
    BY Zenon, <1>1, <1>2, <1>3, <1>4, Goes

\* One more attempt, or the end of them.
LEMMA BackoffStep ==
  ASSUME NodeInv, NEW n \in Nodes, backoffAndRetry(n), pc[n] \notin {"idle", "put"},
         UNCHANGED <<stored, pods, cache, queue, locals, connections, reader>>
  PROVE  NodeInv'
  <1>1. inst[n].retries \in 0..MaxRetries
    BY Zenon, Instance
  <1>2. PICK step \in {"retry", "delete"} :
          Goto(n, step) /\ (step = "retry" => inst[n].retries < MaxRetries)
    BY Zenon, <1>1, Count DEF backoffAndRetry
  <1>3. step \in Steps \ {"put"}
    BY Zenon DEF Steps
  <1>4. QED
    BY Zenon, <1>2, <1>3, MoveStep

\* The pod of the endpoint is looked up; the connection of a deleted object goes.
LEMMA ResolveStep == ASSUME NodeInv, NEW n \in Nodes, resolveEndpoint(n) PROVE NodeInv'
  <1>0. /\ pc[n] = "resolve" /\ inst[n].endpoint \in Pods
        /\ UNCHANGED <<stored, pods, cache, queue, locals, reader>>
    BY Zenon, Instance DEF resolveEndpoint
  <1>1. CASE inst[n].deleting
    <2>1. Goto(n, "removeFinalizer") /\ Delete(inst[n].endpoint)
      BY Zenon, <1>1 DEF resolveEndpoint, DeletedKey
    <2>2. /\ ConnInv'
          /\ pool' \in [Pods -> Conns \cup {None}]
          /\ conn' \in [Conns -> [client : BOOLEAN, pod : Pods \cup {None}]]
      BY Zenon, <1>0, <2>1, Deleted DEF NodeInv, Goto, locals
    <2>3. pc' = [pc EXCEPT ![n] = "removeFinalizer"] /\ inst[n].exists
      BY Zenon, <1>0, <2>1, Instance DEF Goto
    <2>4. ObjectInv' /\ ReaderInv' /\ TypeOK'
      BY Zenon, <1>0, <2>2, <2>3
      DEF NodeInv, TypeOK, ObjectInv, ReaderInv, stored, pods, locals, Steps
    <2>5. QED
      BY Zenon, <2>2, <2>4 DEF NodeInv
  <1>2. CASE ~inst[n].deleting /\ Goto(n, "addFinalizer") /\ UNCHANGED connections
    <2>1. "addFinalizer" \in Steps \ {"put"}
      BY Zenon DEF Steps
    <2>2. QED
      BY Zenon, <1>0, <1>2, <2>1, MoveStep
  <1>3. CASE ~inst[n].deleting /\ backoffAndRetry(n) /\ UNCHANGED connections
    BY Zenon, <1>0, <1>3, BackoffStep
  <1>4. QED
    BY Zenon, <1>1, <1>2, <1>3 DEF resolveEndpoint

\* The finalizer is added.
LEMMA AddStep == ASSUME NodeInv, NEW n \in Nodes, addFinalizer(n) PROVE NodeInv'
  <1>0. /\ pc[n] = "addFinalizer" /\ "connect" \in Steps \ {"put"}
        /\ UNCHANGED <<live, past, cache, connections, reader>>
    BY Zenon DEF addFinalizer, Steps
  <1>1. CASE Goto(n, "connect") /\ UNCHANGED <<stored, sidecar, queue, locals>>
    BY Zenon, <1>0, <1>1, MoveStep DEF pods
  <1>2. CASE Update(n, [inst[n] EXCEPT !.finalizer = TRUE], "connect")
    <2> DEFINE o == [inst[n] EXCEPT !.finalizer = TRUE]
    <2>0. inst[n] \in Objects /\ inst[n].exists
      BY Zenon, <1>0, Instance
    <2>1. o \in Objects /\ o.exists
      BY Zenon, <2>0, Edits
    <2> HIDE DEF o
    <2>2. /\ Store(n, o, FALSE) /\ inst' = [inst EXCEPT ![n] = o]
          /\ pc' = [pc EXCEPT ![n] = "connect"] /\ UNCHANGED <<sidecar, cur, newConn, queue>>
      BY Zenon, <1>2 DEF Update, Goto, o
    <2>3. /\ sidecar' \in [Pods -> SidecarStates] /\ cur' \in [Nodes -> BOOLEAN]
          /\ queue' \subseteq Nodes
      BY Zenon, <2>2 DEF NodeInv, TypeOK, SidecarStates
    <2>4. StoredOK'
      BY Zenon, <2>1, <2>2, <2>3, Stores
    <2>5. QED
      BY Zenon, <1>0, <2>1, <2>2, <2>3, <2>4, Goes
  <1>3. CASE Fail(n)
    BY Zenon, <1>0, <1>3, FailStep
  <1>4. QED
    BY Zenon, <1>1, <1>2, <1>3 DEF addFinalizer

\* The finalizer is removed.
LEMMA RemoveStep == ASSUME NodeInv, NEW n \in Nodes, removeFinalizer(n) PROVE NodeInv'
  <1>0. UNCHANGED <<live, past, cache, connections, reader>>
    BY Zenon DEF removeFinalizer
  <1>1. CASE Store(n, NoNode, TRUE) /\ Notice(n, NoNode) /\ Return(n, FALSE)
    <2>1. StoredOK'
      BY Zenon, <1>1, NoNodeObject, Noticed, Stores
    <2>2. QED
      BY Zenon, <1>0, <1>1, <2>1, Returns
  <1>2. CASE Fail(n)
    BY Zenon, <1>0, <1>2, FailStep
  <1>3. CASE Return(n, FALSE) /\ UNCHANGED <<stored, sidecar>>
    <2>1. StoredOK'
      BY Zenon, <1>3, StoredTypes DEF StoredOK, stored
    <2>2. QED
      BY Zenon, <1>0, <1>3, <2>1, Returns
  <1>4. QED
    BY Zenon, <1>1, <1>2, <1>3 DEF removeFinalizer

\* A connection is made, or it fails.
LEMMA ConnectStep == ASSUME NodeInv, NEW n \in Nodes, NewConnection(n) PROVE NodeInv'
  <1>0. /\ pc[n] = "connect" /\ inst[n].endpoint \in Pods /\ inst[n].exists
        /\ UNCHANGED <<stored, pods, cache, queue, inst, cur, pool, reader>>
    BY Zenon, Instance DEF NewConnection
  <1>1. CASE backoffAndRetry(n) /\ UNCHANGED <<conn, newConn>>
    BY Zenon, <1>0, <1>1, BackoffStep DEF locals, connections
  <1>2. ASSUME NEW c \in Conns, Free(c), Goto(n, "put"),
               conn' = [conn EXCEPT ![c] = [client |-> TRUE, pod |-> inst[n].endpoint]],
               newConn' = [newConn EXCEPT ![n] = c]
        PROVE  NodeInv'
    <2>1. pc' = [pc EXCEPT ![n] = "put"]
      BY Zenon, <1>2 DEF Goto
    <2>2. /\ ConnInv'
          /\ newConn' \in [Nodes -> Conns \cup {None}]
          /\ conn' \in [Conns -> [client : BOOLEAN, pod : Pods \cup {None}]]
      BY Zenon, <1>0, <1>2, <2>1, Made DEF NodeInv
    <2>3. ObjectInv' /\ ReaderInv' /\ TypeOK'
      BY Zenon, <1>0, <2>1, <2>2 DEF NodeInv, TypeOK, ObjectInv, ReaderInv, stored, pods, Steps
    <2>4. QED
      BY Zenon, <2>2, <2>3 DEF NodeInv
  <1>3. QED
    BY Zenon, <1>1, <1>2 DEF NewConnection

\* The connection is put into the pool.
LEMMA PutStep == ASSUME NodeInv, NEW n \in Nodes, PutConnection(n) PROVE NodeInv'
  <1>0. /\ pc[n] = "put" /\ inst[n].endpoint \in Pods /\ inst[n].exists
        /\ pc' = [pc EXCEPT ![n] = "connected"]
        /\ UNCHANGED <<stored, pods, cache, queue, inst, cur, reader>>
    BY Zenon, Instance DEF PutConnection, Goto
  <1>1. /\ ConnInv'
        /\ newConn' \in [Nodes -> Conns \cup {None}]
        /\ pool' \in [Pods -> Conns \cup {None}]
        /\ conn' \in [Conns -> [client : BOOLEAN, pod : Pods \cup {None}]]
    BY Zenon, <1>0, Filed DEF NodeInv, PutConnection
  <1>2. ObjectInv' /\ ReaderInv' /\ TypeOK'
    BY Zenon, <1>0, <1>1 DEF NodeInv, TypeOK, ObjectInv, ReaderInv, stored, pods, Steps
  <1>3. QED
    BY Zenon, <1>1, <1>2 DEF NodeInv

\* The status is written.
LEMMA WriteStep ==
  ASSUME NodeInv, NEW n \in Nodes, NEW step, NEW s \in {"", "Connected", "Retrying"},
         NEW r \in 0..MaxRetries, WriteStatus(n, step, s, r)
  PROVE  NodeInv'
  <1>0. UNCHANGED <<live, past, cache, connections, reader>>
    BY Zenon DEF WriteStatus
  <1>1. CASE Fail(n)
    BY Zenon, <1>0, <1>1, FailStep
  <1>2. CASE /\ Store(n, [inst[n] EXCEPT !.state = s, !.retries = r], FALSE)
             /\ Return(n, TRUE) /\ UNCHANGED sidecar
    <2>1. [inst[n] EXCEPT !.state = s, !.retries = r] \in Objects
      BY Zenon, Instance, StatusEdits
    <2>2. sidecar' \in [Pods -> SidecarStates]
      BY Zenon, <1>2 DEF NodeInv, TypeOK, SidecarStates
    <2>3. StoredOK'
      BY Zenon, <1>2, <2>1, <2>2, Stores
    <2>4. QED
      BY Zenon, <1>0, <1>2, <2>3, Returns
  <1>3. QED
    BY Zenon, <1>1, <1>2 DEF WriteStatus

\* The node is connected, or there will be another attempt.
LEMMA StatusStep ==
  ASSUME NodeInv, NEW n \in Nodes, SetConnected(n) \/ SetRetrying(n)
  PROVE  NodeInv'
  <1>1. CASE SetConnected(n)
    <2>1. 0 \in 0..MaxRetries
      BY NodeAssumption
    <2>2. WriteStatus(n, "connected", "Connected", 0)
      BY Zenon, <1>1 DEF SetConnected
    <2>3. QED
      BY Zenon, <2>1, <2>2, WriteStep
  <1>2. CASE SetRetrying(n)
    <2>1. WriteStatus(n, "retry", "Retrying", inst[n].retries + 1)
      BY Zenon, <1>2 DEF SetRetrying
    <2>2. pc[n] = "retry"
      BY Zenon, <2>1 DEF WriteStatus
    <2>3. inst[n].retries \in 0..MaxRetries /\ inst[n].retries < MaxRetries
      BY Zenon, <2>2, Instance
    <2>4. inst[n].retries + 1 \in 0..MaxRetries
      BY Zenon, <2>3, Count
    <2>5. QED
      BY Zenon, <2>1, <2>4, WriteStep
  <1>3. QED
    BY Zenon, <1>1, <1>2

\* The object is deleted after the last attempt.
LEMMA GiveUpStep == ASSUME NodeInv, NEW n \in Nodes, DeleteAfterRetries(n) PROVE NodeInv'
  <1>0. UNCHANGED <<live, past, cache, connections, reader>> /\ Return(n, FALSE)
    BY Zenon DEF DeleteAfterRetries
  <1>1. CASE Store(n, MarkDeleted(n), TRUE) /\ Notice(n, MarkDeleted(n))
    <2>1. MarkDeleted(n) \in Objects
      BY Zenon, Instance, Edits, NoNodeObject DEF MarkDeleted
    <2>2. StoredOK'
      BY Zenon, <1>1, <2>1, Noticed, Stores
    <2>3. QED
      BY Zenon, <1>0, <2>2, Returns
  <1>2. CASE UNCHANGED <<stored, sidecar>>
    <2>1. StoredOK'
      BY Zenon, <1>2, StoredTypes DEF StoredOK, stored
    <2>2. QED
      BY Zenon, <1>0, <2>1, Returns
  <1>3. QED
    BY Zenon, <1>1, <1>2 DEF DeleteAfterRetries

\* The steps of a reconcile.
LEMMA ReconcileStep == ASSUME NodeInv, NEW n \in Nodes, Reconcile(n) \/ ApiError(n) PROVE NodeInv'
  <1>1. CASE getNetworkFenceClientStatus(n) \/ ApiError(n)
    BY Zenon, <1>1, FailStep DEF getNetworkFenceClientStatus, ApiError
  <1>2. QED
    BY Zenon, <1>1, StartStep, ResolveStep, AddStep, RemoveStep, ConnectStep, PutStep, StatusStep,
       GiveUpStep DEF Reconcile

\* The readers of the pool.
LEMMA ReaderStep == ASSUME NodeInv, NEW r \in Readers, Reader(r) PROVE NodeInv'
  <1>1. UNCHANGED <<stored, pods, cache, queue, pc, locals, pool>>
    BY Zenon DEF Reader, GetLease, GetLeaderByDriver, GetByNodeID, UseClient, connections
  <1>2. ASSUME NEW key \in Pods, pool[key] # None, Take(r, key)
        PROVE  /\ UNCHANGED conn
               /\ \E s \in [step : {"idle", "lease", "conn"}, key : Pods \cup {None},
                            conn : Conns \cup {None}] :
                    /\ s.step = "lease" => s.key \in Pods
                    /\ reader' = [reader EXCEPT ![r] = s]
    <2>1. UNCHANGED conn
      BY Zenon, <1>2, Taken DEF NodeInv, Take
    <2>2. pool[key] \in Conns
      BY Zenon, <1>2 DEF NodeInv, TypeOK
    <2>3. QED
      BY Zenon, <1>2, <2>1, <2>2 DEF Take
  <1>3. /\ UNCHANGED conn
        /\ \E s \in [step : {"idle", "lease", "conn"}, key : Pods \cup {None},
                     conn : Conns \cup {None}] :
             /\ s.step = "lease" => s.key \in Pods
             /\ reader' = [reader EXCEPT ![r] = s]
    <2>1. CASE GetLease(r)
      BY Zenon, <2>1 DEF NodeInv, TypeOK, GetLease, connections
    <2>2. CASE GetLeaderByDriver(r)
      <3>1. reader[r].key \in Pods
        BY Zenon, <2>2 DEF NodeInv, ReaderInv, GetLeaderByDriver
      <3>2. QED
        BY Zenon, <1>2, <2>2, <3>1 DEF GetLeaderByDriver, Idle
    <2>3. CASE \E n \in Nodes : GetByNodeID(r, n)
      BY Zenon, <1>2, <2>3 DEF GetByNodeID
    <2>4. CASE UseClient(r)
      BY Zenon, <2>4 DEF UseClient, Idle, connections
    <2>5. QED
      BY Zenon, <2>1, <2>2, <2>3, <2>4 DEF Reader
  <1>4. ConnInv'
    BY Zenon, <1>1, <1>3, SameConnections DEF NodeInv, locals
  <1>5. ObjectInv'
    BY Zenon, <1>1 DEF NodeInv, ObjectInv, stored, locals
  <1>6. ReaderInv'
    BY Zenon, <1>3 DEF NodeInv, TypeOK, ReaderInv
  <1>7. TypeOK'
    BY <1>1, <1>3 DEF NodeInv, TypeOK, stored, pods, locals
  <1>8. QED
    BY Zenon, <1>4, <1>5, <1>6, <1>7 DEF NodeInv

\* The manager restarts.
LEMMA CrashStep == ASSUME NodeInv, Crash PROVE NodeInv'
  <1>1. ObjectInv' /\ ReaderInv'
    BY Zenon, NoNodeObject DEF NodeInv, ObjectInv, ReaderInv, Crash, Idle
  <1>2. ConnInv'
    BY Zenon DEF ConnInv, HeldInv, OwnerInv, PooledIsOpen, Crash
  <1>3. TypeOK'
    BY Zenon, <1>1, ObjectTypes DEF NodeInv, TypeOK, ObjectInv, Crash, Steps, NoConn, Idle, pods
  <1>4. QED
    BY Zenon, <1>1, <1>2, <1>3 DEF NodeInv

\* The inductive invariant.
LEMMA NodeInvariant == Spec => []NodeInv
  <1>1. Init => NodeInv
    <2>. SUFFICES ASSUME Init PROVE NodeInv
      BY Zenon
    <2>1. ObjectInv /\ ReaderInv
      BY Zenon, NoNodeObject DEF Init, ObjectInv, ReaderInv, Idle
    <2>2. ConnInv
      BY Zenon DEF Init, ConnInv, HeldInv, OwnerInv, PooledIsOpen
    <2>3. TypeOK
      BY Zenon, <2>1, ObjectTypes DEF Init, TypeOK, ObjectInv, Steps, NoConn, Idle
    <2>4. QED
      BY Zenon, <2>1, <2>2, <2>3 DEF NodeInv
  <1>2. NodeInv /\ [Next]_vars => NodeInv'
    <2>. SUFFICES ASSUME NodeInv, [Next]_vars PROVE NodeInv'
      BY Zenon
    <2>1. CASE UNCHANGED vars
      <3>1. ConnInv'
        BY Zenon, <2>1, SameConnections DEF NodeInv, vars
      <3>2. ObjectInv' /\ ReaderInv' /\ TypeOK'
        BY Zenon, <2>1 DEF NodeInv, TypeOK, ObjectInv, ReaderInv, vars
      <3>3. QED
        BY Zenon, <3>1, <3>2 DEF NodeInv
    <2>2. QED
      BY Zenon, <2>1, DeleteNodeStep, SyncStep, ReconcileStep, PodStep, RegisterStep, ReaderStep,
         CrashStep
      DEF Next, Sidecar
  <1>3. QED
    BY <1>1, <1>2, PTL DEF Spec

\* Objects, connections and steps keep their types, for all nodes, pods and faults.
THEOREM TypeCorrect == Spec => []TypeOK
  <1>1. NodeInv => TypeOK
    BY Zenon DEF NodeInv
  <1>2. QED
    BY <1>1, NodeInvariant, PTL

\* Whatever a reader finds in the pool is open and leads to the pod it is filed
\* under (Put, Delete, GetByNodeID, GetLeaderByDriver).
THEOREM PoolIsOpen == Spec => []PooledIsOpen
  <1>1. NodeInv => PooledIsOpen
    BY Zenon DEF NodeInv, ConnInv
  <1>2. QED
    BY <1>1, NodeInvariant, PTL
-----------------------------------------------------------------------------
(* What a step does to the connections.                                    *)

\* A reconcile that returns, from a step other than "put", leaves them alone.
LEMMA ReturnKeeps ==
  ASSUME NodeInv, NEW n \in Nodes, NEW requeue, Return(n, requeue), pc[n] # "put"
  PROVE  UNCHANGED newConn
  BY Zenon, NoneHeld DEF NodeInv, Return

\* Only resolveEndpoint, NewConnection, PutConnection, a restart, and the return
\* when the clients of a fence class cannot be read, change the connections or who
\* has them.
LEMMA ConnectionSteps ==
  ASSUME NodeInv, [Next]_vars
  PROVE  \/ UNCHANGED <<newConn, pool, conn>>
         \/ Crash
         \/ \E n \in Nodes : \/ resolveEndpoint(n) \/ NewConnection(n) \/ PutConnection(n)
                             \/ getNetworkFenceClientStatus(n)
  <1>1. ASSUME NEW n \in Nodes, DeleteNode(n) \/ Sync(n)
        PROVE  UNCHANGED <<newConn, pool, conn>>
    BY Zenon, <1>1 DEF DeleteNode, Sync, locals, connections
  <1>2. ASSUME NEW n \in Nodes, ReconcileStart(n) PROVE UNCHANGED <<newConn, pool, conn>>
    BY Zenon, <1>2 DEF ReconcileStart, connections
  <1>3. ASSUME NEW n \in Nodes, addFinalizer(n) PROVE UNCHANGED <<newConn, pool, conn>>
    BY Zenon, <1>3, ReturnKeeps DEF addFinalizer, Update, Fail, locals, connections
  <1>4. ASSUME NEW n \in Nodes, removeFinalizer(n) \/ DeleteAfterRetries(n) \/ ApiError(n)
        PROVE  UNCHANGED <<newConn, pool, conn>>
    BY Zenon, <1>4, ReturnKeeps DEF removeFinalizer, DeleteAfterRetries, ApiError, Fail, connections
  <1>5. ASSUME NEW n \in Nodes, SetConnected(n) \/ SetRetrying(n)
        PROVE  UNCHANGED <<newConn, pool, conn>>
    BY Zenon, <1>5, ReturnKeeps DEF SetConnected, SetRetrying, WriteStatus, Fail, connections
  <1>6. ASSUME NEW p \in Pods, StartPod(p) \/ StopPod(p) \/ Sidecar(p)
        PROVE  UNCHANGED <<newConn, pool, conn>>
    BY Zenon, <1>6 DEF StartPod, StopPod, Sidecar, newCSIAddonsNode, watchCSIAddonsNode,
       DispatchWatcher, locals, connections
  <1>7. ASSUME NEW r \in Readers, Reader(r) PROVE UNCHANGED <<newConn, pool, conn>>
    <2>1. CASE GetLease(r) \/ UseClient(r)
      BY Zenon, <2>1 DEF GetLease, UseClient, locals, connections
    <2>2. CASE GetLeaderByDriver(r)
      <3>1. reader[r].key \in Pods
        BY Zenon, <2>2 DEF NodeInv, ReaderInv, GetLeaderByDriver
      <3>2. QED
        BY Zenon, <2>2, <3>1, Taken DEF NodeInv, GetLeaderByDriver, Take, locals
    <2>3. CASE \E n \in Nodes : GetByNodeID(r, n)
      BY Zenon, <2>3, Taken DEF NodeInv, GetByNodeID, Take, locals
    <2>4. QED
      BY Zenon, <1>7, <2>1, <2>2, <2>3 DEF Reader
  <1>8. CASE UNCHANGED vars
    BY Zenon, <1>8 DEF vars
  <1>9. QED
    BY Zenon, <1>1, <1>2, <1>3, <1>4, <1>5, <1>6, <1>7, <1>8 DEF Next, Reconcile

\* No open connection is forgotten, but for the return of Reconcile when the
\* clients of a fence class cannot be read: Delete and Put close what they take out
\* of the pool, and a reconcile that has made a connection puts it there.
THEOREM NoneForgotten == Spec => NeverForgotten
  <1>1. NodeInv /\ [Next]_vars =>
          [\A c \in Conns :
             Forgotten(c)' => Forgotten(c) \/ \E n \in Nodes : getNetworkFenceClientStatus(n)]_vars
    <2>. SUFFICES ASSUME NodeInv, [Next]_vars, NEW c \in Conns, Forgotten(c)',
                         ~\E n \in Nodes : getNetworkFenceClientStatus(n)
                  PROVE  Forgotten(c)
      BY Zenon
    <2>0. c # None /\ TypeOK /\ ConnInv
      BY Zenon, NodeAssumption DEF NodeInv
    <2>1. CASE UNCHANGED <<newConn, pool, conn>>
      BY Zenon, <2>1 DEF Forgotten
    <2>2. CASE Crash
      BY Zenon, <2>2 DEF Crash, Forgotten, NoConn
    <2>3. ASSUME NEW n \in Nodes, resolveEndpoint(n) PROVE Forgotten(c)
      <3>1. inst[n].endpoint \in Pods
        BY Zenon, <2>3, Instance DEF resolveEndpoint
      <3>2. CASE UNCHANGED connections
        BY Zenon, <2>3, <3>2 DEF resolveEndpoint, Forgotten, connections, locals
      <3>3. CASE Delete(inst[n].endpoint)
        <4> DEFINE key == inst[n].endpoint
        <4>1. UNCHANGED newConn
          BY Zenon, <2>3 DEF resolveEndpoint, locals
        <4>2. CASE pool[key] = None
          BY <2>0, <3>1, <3>3, <4>1, <4>2 DEF Delete, Forgotten, TypeOK
        <4>3. CASE pool[key] # None
          <5>1. conn' = [conn EXCEPT ![pool[key]].client = FALSE] /\ pool[key] \in Conns
            BY Zenon, <2>0, <3>1, <3>3, <4>3 DEF Delete, Close, TypeOK
          <5>2. c # pool[key] /\ conn[c].client
            BY <2>0, <5>1 DEF Forgotten, TypeOK
          <5>3. QED
            BY Zenon, <2>0, <3>1, <3>3, <4>1, <5>2 DEF Delete, Forgotten, TypeOK
        <4>4. QED
          BY Zenon, <4>2, <4>3
      <3>4. QED
        BY Zenon, <2>3, <3>2, <3>3 DEF resolveEndpoint, DeletedKey
    <2>4. ASSUME NEW n \in Nodes, NewConnection(n) PROVE Forgotten(c)
      <3>1. newConn[n] = None
        BY Zenon, <2>0, <2>4, NoneHeld DEF NewConnection
      <3>2. CASE UNCHANGED <<conn, newConn>>
        BY Zenon, <2>4, <3>2 DEF NewConnection, Forgotten
      <3>3. ASSUME NEW d \in Conns, newConn' = [newConn EXCEPT ![n] = d],
                   conn' = [conn EXCEPT ![d] = [client |-> TRUE, pod |-> inst[n].endpoint]]
            PROVE  Forgotten(c)
        <4>1. c # d
          BY Zenon, <2>0, <3>3 DEF Forgotten, TypeOK
        <4>2. QED
          BY <2>0, <2>4, <3>1, <3>3, <4>1 DEF NewConnection, Forgotten, TypeOK
      <3>4. QED
        BY Zenon, <2>4, <3>2, <3>3 DEF NewConnection
    <2>5. ASSUME NEW n \in Nodes, PutConnection(n) PROVE Forgotten(c)
      <3> DEFINE key == inst[n].endpoint
      <3>1. key \in Pods /\ Put(key, newConn[n]) /\ newConn' = [newConn EXCEPT ![n] = None]
        BY Zenon, <2>5, Instance DEF PutConnection
      <3>2. newConn[n] # c
        BY <2>0, <3>1 DEF Put, Forgotten, TypeOK
      <3>3. conn[c].client /\ pool[key] # c
        <4>1. CASE pool[key] = None
          BY Zenon, <2>0, <3>1, <4>1 DEF Put, Forgotten
        <4>2. CASE pool[key] # None
          <5>1. conn' = [conn EXCEPT ![pool[key]].client = FALSE] /\ pool[key] \in Conns
            BY Zenon, <2>0, <3>1, <4>2 DEF Put, Close, TypeOK
          <5>2. QED
            BY <2>0, <5>1 DEF Forgotten, TypeOK
        <4>3. QED
          BY Zenon, <4>1, <4>2
      <3>4. QED
        BY <2>0, <3>1, <3>2, <3>3 DEF Put, Forgotten, TypeOK
    <2>6. QED
      BY Zenon, <2>1, <2>2, <2>3, <2>4, <2>5, ConnectionSteps
  <1>2. QED
    BY <1>1, NodeInvariant, PTL DEF Spec, NeverForgotten
-----------------------------------------------------------------------------
(* A connection in the pool is of a registered node, when a node has one   *)
(* pod.  The finalizer is what ties the two: it is there before the first  *)
(* Put, and Delete comes before its removal.                               *)

OnePod == \A p, q \in Pods : NodeOf[p] = NodeOf[q] => p = q

Finalized(n) == node[n].exists /\ node[n].finalizer

OfNode(o, n) == o.exists => NodeOf[o.endpoint] = n

\* What a copy of the object shows of the finalizer holds of the object, unless
\* the copy is of an object that is being deleted.
Shows(o, n) == o.exists /\ o.finalizer /\ ~o.deleting => Finalized(n)

CopiesInv(n) ==
  /\ OfNode(node[n], n) /\ OfNode(cache[n], n) /\ OfNode(inst[n], n)
  /\ cacheCur[n] => cache[n] = node[n]
  /\ cur[n] => inst[n] = node[n] /\ (inst[n].deleting => cache[n].deleting)
  /\ Shows(cache[n], n) /\ Shows(inst[n], n)

BranchInv(n) ==
  /\ pc[n] \in {"addFinalizer", "connect", "put", "connected"} => ~inst[n].deleting
  /\ pc[n] \in {"connect", "put", "connected"} => inst[n].finalizer
  /\ pc[n] = "removeFinalizer" =>
       inst[n].deleting /\ \A p \in Pods : NodeOf[p] = n => pool[p] = None

FiledInv(n) == \A p \in Pods : NodeOf[p] = n /\ pool[p] # None => Finalized(n)

RegisteredInv(n) == CopiesInv(n) /\ BranchInv(n) /\ FiledInv(n)

\* A step that leaves a node, its reconcile and its connections alone.
LEMMA NodeElsewhere ==
  ASSUME NEW n \in Nodes, RegisteredInv(n),
         node'[n] = node[n], cache'[n] = cache[n], cacheCur'[n] = cacheCur[n],
         inst'[n] = inst[n], cur'[n] = cur[n], pc'[n] = pc[n],
         \A p \in Pods : NodeOf[p] = n => pool'[p] = pool[p]
  PROVE  RegisteredInv(n)'
  <1>1. CopiesInv(n)'
    BY Zenon DEF RegisteredInv, CopiesInv, OfNode, Shows, Finalized
  <1>2. BranchInv(n)'
    BY Zenon DEF RegisteredInv, BranchInv
  <1>3. FiledInv(n)'
    BY Zenon DEF RegisteredInv, FiledInv, Finalized
  <1>4. QED
    BY Zenon, <1>1, <1>2, <1>3 DEF RegisteredInv

\* The reconcile of a node that returns leaves nothing behind but the object, which
\* keeps its finalizer.
LEMMA NodeReturns ==
  ASSUME NodeInv, NEW n \in Nodes, RegisteredInv(n),
         inst'[n] = NoNode, cur'[n] = FALSE, pc'[n] = "idle", UNCHANGED <<cache, pool>>,
         OfNode(node'[n], n), cacheCur'[n] => cacheCur[n] /\ node'[n] = node[n],
         Finalized(n) => Finalized(n)'
  PROVE  RegisteredInv(n)'
  <1>1. CopiesInv(n)'
    BY Zenon, NoNodeObject DEF RegisteredInv, CopiesInv, OfNode, Shows
  <1>2. BranchInv(n)'
    BY Zenon DEF BranchInv
  <1>3. FiledInv(n)'
    BY Zenon DEF RegisteredInv, FiledInv
  <1>4. QED
    BY Zenon, <1>1, <1>2, <1>3 DEF RegisteredInv

\* A write of others to the object, which keeps its finalizer.
LEMMA NodeIsWritten ==
  ASSUME NodeInv, NEW n \in Nodes, RegisteredInv(n),
         cur'[n] = FALSE, cacheCur'[n] = FALSE, UNCHANGED <<cache, pool, inst, pc>>,
         OfNode(node'[n], n), Finalized(n) => Finalized(n)'
  PROVE  RegisteredInv(n)'
  <1>1. CopiesInv(n)'
    BY Zenon DEF RegisteredInv, CopiesInv, OfNode, Shows
  <1>2. BranchInv(n)'
    BY Zenon DEF RegisteredInv, BranchInv
  <1>3. FiledInv(n)'
    BY Zenon DEF RegisteredInv, FiledInv
  <1>4. QED
    BY Zenon, <1>1, <1>2, <1>3 DEF RegisteredInv

\* A step of a reconcile that keeps the object and its copies.
LEMMA NodeMoves ==
  ASSUME NodeInv, NEW n \in Nodes, RegisteredInv(n),
         UNCHANGED <<node, cache, cacheCur, inst, cur, pool>>, BranchInv(n)'
  PROVE  RegisteredInv(n)'
  <1>1. CopiesInv(n)'
    BY Zenon DEF RegisteredInv, CopiesInv, OfNode, Shows, Finalized
  <1>2. FiledInv(n)'
    BY Zenon DEF RegisteredInv, FiledInv, Finalized
  <1>3. QED
    BY Zenon, <1>1, <1>2 DEF RegisteredInv

\* What an object becomes keeps its pod, its finalizer, or is gone.
LEMMA WrittenObject ==
  ASSUME NodeInv, NEW n \in Nodes, OfNode(node[n], n)
  PROVE  /\ OfNode(MarkDeleted(n), n)
         /\ Finalized(n) => MarkDeleted(n).exists /\ MarkDeleted(n).finalizer
  <1>1. node[n] \in Objects
    BY Zenon, Instance
  <1>2. QED
    BY Zenon, <1>1, NoNodeObject DEF OfNode, Finalized, MarkDeleted, Objects, NodeObjects

\* What a write at n leaves alone.
LEMMA StoredElsewhere ==
  ASSUME NodeInv, NEW n \in Nodes, NEW o, NEW queues, Store(n, o, queues)
  PROVE  /\ node'[n] = o /\ cacheCur'[n] = FALSE
         /\ \A m \in Nodes : m # n => node'[m] = node[m] /\ cacheCur'[m] = cacheCur[m]
  BY Zenon DEF NodeInv, TypeOK, Store

\* What a return of the reconcile of n leaves alone.
LEMMA ReturnedElsewhere ==
  ASSUME NodeInv, NEW n \in Nodes, NEW requeue, Return(n, requeue)
  PROVE  /\ inst'[n] = NoNode /\ cur'[n] = FALSE /\ pc'[n] = "idle"
         /\ \A m \in Nodes : m # n => inst'[m] = inst[m] /\ cur'[m] = cur[m] /\ pc'[m] = pc[m]
  BY Zenon DEF NodeInv, TypeOK, Return, Goto

AllRegistered == \A n \in Nodes : RegisteredInv(n)

\* Users, or the garbage collector.
LEMMA DeleteNodeReg ==
  ASSUME NodeInv, AllRegistered, NEW n \in Nodes, DeleteNode(n)
  PROVE  AllRegistered'
  <1>1. Store(n, MarkDeleted(n), TRUE) /\ cur' = [cur EXCEPT ![n] = FALSE]
        /\ UNCHANGED <<cache, pool, inst, pc>>
    BY Zenon DEF DeleteNode, connections
  <1>2. RegisteredInv(n) /\ OfNode(node[n], n)
    BY Zenon DEF AllRegistered, RegisteredInv, CopiesInv
  <1>3. cur'[n] = FALSE /\ \A m \in Nodes : m # n => cur'[m] = cur[m]
    BY Zenon, <1>1 DEF NodeInv, TypeOK
  <1>a. node'[n] = MarkDeleted(n) /\ cacheCur'[n] = FALSE
    BY Zenon, <1>1, StoredElsewhere
  <1>b. /\ OfNode(MarkDeleted(n), n)
        /\ Finalized(n) => MarkDeleted(n).exists /\ MarkDeleted(n).finalizer
    BY Zenon, <1>2, WrittenObject
  <1>4. OfNode(node'[n], n) /\ (Finalized(n) => Finalized(n)')
    BY Zenon, <1>a, <1>b DEF Finalized
  <1>5. RegisteredInv(n)'
    BY Zenon, <1>1, <1>2, <1>3, <1>4, <1>a, NodeIsWritten
  <1>6. \A m \in Nodes : m # n => RegisteredInv(m)'
    BY Zenon, <1>1, <1>3, StoredElsewhere, NodeElsewhere DEF AllRegistered
  <1>7. QED
    BY Zenon, <1>5, <1>6 DEF AllRegistered

\* Informers: the copy is the object, and a reconcile that still has the current
\* one has the same.
LEMMA SyncReg ==
  ASSUME NodeInv, AllRegistered, NEW n \in Nodes, Sync(n)
  PROVE  AllRegistered'
  <1>1. /\ cache'[n] = node[n] /\ \A m \in Nodes : m # n => cache'[m] = cache[m] /\ cacheCur'[m] = cacheCur[m]
        /\ UNCHANGED <<node, pool, inst, cur, pc>>
    BY Zenon DEF NodeInv, TypeOK, Sync, locals, connections
  <1>2. CopiesInv(n)'
    BY <1>1 DEF AllRegistered, RegisteredInv, CopiesInv, OfNode, Shows, Finalized
  <1>3. BranchInv(n)' /\ FiledInv(n)'
    BY Zenon, <1>1 DEF AllRegistered, RegisteredInv, BranchInv, FiledInv, Finalized
  <1>4. \A m \in Nodes : m # n => RegisteredInv(m)'
    BY Zenon, <1>1, NodeElsewhere DEF AllRegistered
  <1>5. QED
    BY Zenon, <1>2, <1>3, <1>4 DEF AllRegistered, RegisteredInv

\* Sidecars register.
LEMMA RegisterReg ==
  ASSUME NodeInv, AllRegistered, NEW p \in Pods, newCSIAddonsNode(p)
  PROVE  AllRegistered'
  <1> DEFINE n == NodeOf[p]
             o == IF node[n].exists THEN [node[n] EXCEPT !.endpoint = p]
                  ELSE [NoNode EXCEPT !.exists = TRUE, !.endpoint = p]
  <1>0. n \in Nodes
    BY Zenon, NodeAssumption
  <1>1. Store(n, o, TRUE) /\ cur' = [cur EXCEPT ![n] = FALSE]
        /\ UNCHANGED <<cache, pool, inst, pc>>
    BY Zenon DEF newCSIAddonsNode, connections
  <1>2. node[n] \in Objects
    BY Zenon, <1>0, Instance
  <1>3. OfNode(o, n) /\ (Finalized(n) => o.exists /\ o.finalizer)
    BY Zenon, <1>2 DEF OfNode, Finalized, NoNode, Objects, NodeObjects
  <1> HIDE DEF o, n
  <1>4. RegisteredInv(n)
    BY Zenon, <1>0 DEF AllRegistered
  <1>5. cur'[n] = FALSE /\ \A m \in Nodes : m # n => cur'[m] = cur[m]
    BY Zenon, <1>0, <1>1 DEF NodeInv, TypeOK
  <1>a. node'[n] = o /\ cacheCur'[n] = FALSE
    BY Zenon, <1>0, <1>1, StoredElsewhere
  <1>6. OfNode(node'[n], n) /\ (Finalized(n) => Finalized(n)')
    BY Zenon, <1>3, <1>a DEF Finalized
  <1>7. RegisteredInv(n)'
    BY Zenon, <1>0, <1>1, <1>4, <1>5, <1>6, <1>a, NodeIsWritten
  <1>8. \A m \in Nodes : m # n => RegisteredInv(m)'
    BY Zenon, <1>0, <1>1, <1>5, StoredElsewhere, NodeElsewhere DEF AllRegistered
  <1>9. QED
    BY Zenon, <1>7, <1>8 DEF AllRegistered

\* A reconcile returns, and the object is kept.
LEMMA ReturnReg ==
  ASSUME NodeInv, AllRegistered, NEW n \in Nodes, NEW requeue, Return(n, requeue),
         UNCHANGED <<cache, pool>>, OfNode(node'[n], n), Finalized(n) => Finalized(n)',
         cacheCur'[n] => cacheCur[n] /\ node'[n] = node[n],
         \A m \in Nodes : m # n => node'[m] = node[m] /\ cacheCur'[m] = cacheCur[m]
  PROVE  AllRegistered'
  <1>1. RegisteredInv(n)'
    BY Zenon, ReturnedElsewhere, NodeReturns DEF AllRegistered
  <1>2. \A m \in Nodes : m # n => RegisteredInv(m)'
    BY Zenon, ReturnedElsewhere, NodeElsewhere DEF AllRegistered
  <1>3. QED
    BY Zenon, <1>1, <1>2 DEF AllRegistered

\* A reconcile returns and has written nothing.
LEMMA ReturnOnlyReg ==
  ASSUME NodeInv, AllRegistered, NEW n \in Nodes, NEW requeue, Return(n, requeue),
         UNCHANGED <<stored, cache, connections>>
  PROVE  AllRegistered'
  <1>1. UNCHANGED <<node, cacheCur, cache, pool>>
    BY Zenon DEF stored, connections
  <1>2. OfNode(node'[n], n) /\ (Finalized(n) => Finalized(n)')
    BY Zenon, <1>1 DEF AllRegistered, RegisteredInv, CopiesInv, Finalized
  <1>3. QED
    BY Zenon, <1>1, <1>2, ReturnReg

\* A reconcile goes on to a step, and nothing else happens.
LEMMA MoveReg ==
  ASSUME NodeInv, AllRegistered, NEW n \in Nodes, NEW step, Goto(n, step),
         UNCHANGED <<node, cacheCur, cache, inst, cur, pool>>,
         step \in {"addFinalizer", "connect", "put", "connected"} => ~inst[n].deleting,
         step \in {"connect", "put", "connected"} => inst[n].finalizer,
         step # "removeFinalizer"
  PROVE  AllRegistered'
  <1>1. pc'[n] = step /\ \A m \in Nodes : m # n => pc'[m] = pc[m]
    BY Zenon DEF NodeInv, TypeOK, Goto
  <1>2. BranchInv(n)'
    BY Zenon, <1>1 DEF BranchInv
  <1>3. RegisteredInv(n)'
    BY Zenon, <1>2, NodeMoves DEF AllRegistered
  <1>4. \A m \in Nodes : m # n => RegisteredInv(m)'
    BY Zenon, <1>1, NodeElsewhere DEF AllRegistered
  <1>5. QED
    BY Zenon, <1>3, <1>4 DEF AllRegistered

\* Get: the instance is the copy of the informer.
LEMMA StartReg ==
  ASSUME NodeInv, AllRegistered, NEW n \in Nodes, ReconcileStart(n)
  PROVE  AllRegistered'
  <1>0. UNCHANGED <<node, cacheCur, cache, pool>>
    BY Zenon DEF ReconcileStart, stored, connections
  <1>1. CASE UNCHANGED <<pc, inst, cur>>
    BY Zenon, <1>0, <1>1, NodeElsewhere DEF AllRegistered
  <1>2. CASE /\ Goto(n, "resolve")
             /\ inst' = [inst EXCEPT ![n] = cache[n]]
             /\ cur' = [cur EXCEPT ![n] = cacheCur[n]]
    <2>1. /\ pc'[n] = "resolve" /\ inst'[n] = cache[n] /\ cur'[n] = cacheCur[n]
          /\ \A m \in Nodes : m # n => pc'[m] = pc[m] /\ inst'[m] = inst[m] /\ cur'[m] = cur[m]
      BY Zenon, <1>2 DEF NodeInv, TypeOK, Goto
    <2>2. CopiesInv(n)'
      BY <1>0, <2>1 DEF AllRegistered, RegisteredInv, CopiesInv, OfNode, Shows, Finalized
    <2>3. BranchInv(n)' /\ FiledInv(n)'
      BY Zenon, <1>0, <2>1 DEF AllRegistered, RegisteredInv, BranchInv, FiledInv, Finalized
    <2>4. \A m \in Nodes : m # n => RegisteredInv(m)'
      BY Zenon, <1>0, <2>1, NodeElsewhere DEF AllRegistered
    <2>5. QED
      BY <2>2, <2>3, <2>4 DEF AllRegistered, RegisteredInv
  <1>3. QED
    BY Zenon, <1>1, <1>2 DEF ReconcileStart

\* Delete: the connection of the only pod is not in the pool when the finalizer
\* comes to be removed.
LEMMA ResolveReg ==
  ASSUME OnePod, NodeInv, AllRegistered, NEW n \in Nodes, resolveEndpoint(n)
  PROVE  AllRegistered'
  <1>0. /\ pc[n] = "resolve" /\ inst[n].endpoint \in Pods
        /\ UNCHANGED <<node, cacheCur, cache, inst, cur>>
    BY Zenon, Instance DEF resolveEndpoint, stored, locals
  <1>1. CASE inst[n].deleting
    <2>1. Goto(n, "removeFinalizer") /\ Delete(inst[n].endpoint)
      BY Zenon, <1>1 DEF resolveEndpoint, DeletedKey
    <2>2. pc'[n] = "removeFinalizer" /\ \A m \in Nodes : m # n => pc'[m] = pc[m]
      BY Zenon, <2>1 DEF NodeInv, TypeOK, Goto
    <2>3. NodeOf[inst[n].endpoint] = n
      BY Zenon, <1>0, Instance DEF AllRegistered, RegisteredInv, CopiesInv, OfNode
    <2>4. /\ pool'[inst[n].endpoint] = None
          /\ \A p \in Pods : p # inst[n].endpoint => pool'[p] = pool[p]
      BY Zenon, <1>0, <2>1 DEF NodeInv, TypeOK, Delete
    <2>5. CopiesInv(n)'
      BY Zenon, <1>0 DEF AllRegistered, RegisteredInv, CopiesInv, OfNode, Shows, Finalized
    <2>6. \A p \in Pods : NodeOf[p] = n => pool'[p] = None
      BY <1>0, <2>3, <2>4 DEF OnePod
    <2>7. BranchInv(n)' /\ FiledInv(n)'
      BY Zenon, <1>0, <1>1, <2>2, <2>6 DEF BranchInv, FiledInv
    <2>8. \A m \in Nodes : m # n => RegisteredInv(m)'
      BY Zenon, <1>0, <2>2, <2>3, <2>4, NodeElsewhere DEF AllRegistered
    <2>9. QED
      BY Zenon, <2>5, <2>7, <2>8 DEF AllRegistered, RegisteredInv
  <1>2. CASE ~inst[n].deleting
    <2>1. UNCHANGED pool /\ \E step \in {"addFinalizer", "delete", "retry"} : Goto(n, step)
      BY Zenon, <1>2 DEF resolveEndpoint, backoffAndRetry, connections
    <2>2. QED
      BY Zenon, <1>0, <1>2, <2>1, MoveReg
  <1>3. QED
    BY Zenon, <1>1, <1>2

\* The finalizer is there when the reconcile goes on to connect.
LEMMA AddReg ==
  ASSUME NodeInv, AllRegistered, NEW n \in Nodes, addFinalizer(n)
  PROVE  AllRegistered'
  <1>0. /\ pc[n] = "addFinalizer" /\ ~inst[n].deleting
        /\ UNCHANGED <<cache, connections, pool>>
    BY Zenon DEF addFinalizer, AllRegistered, RegisteredInv, BranchInv, connections
  <1>1. CASE inst[n].finalizer /\ Goto(n, "connect") /\ UNCHANGED <<stored, locals>>
    BY Zenon, <1>0, <1>1, MoveReg DEF stored, locals
  <1>2. CASE Update(n, [inst[n] EXCEPT !.finalizer = TRUE], "connect")
    <2> DEFINE o == [inst[n] EXCEPT !.finalizer = TRUE]
    <2>0. inst[n] \in Objects /\ inst[n].exists
      BY Zenon, <1>0, Instance
    <2>1. /\ o.exists /\ o.finalizer /\ o.deleting = inst[n].deleting
          /\ o.endpoint = inst[n].endpoint
      BY Zenon, <2>0 DEF Objects, NodeObjects
    <2> HIDE DEF o
    <2>2. Store(n, o, FALSE) /\ cur[n] /\ UNCHANGED cur
      BY Zenon, <1>2 DEF Update, o
    <2>3. /\ inst'[n] = o /\ pc'[n] = "connect"
          /\ \A m \in Nodes : m # n => pc'[m] = pc[m] /\ inst'[m] = inst[m]
      BY Zenon, <1>2 DEF NodeInv, TypeOK, Update, Goto, o
    <2>4. node'[n] = o /\ cacheCur'[n] = FALSE /\ Finalized(n)'
      BY Zenon, <2>1, <2>2, StoredElsewhere DEF Finalized
    <2>5. OfNode(o, n) /\ OfNode(cache[n], n) /\ ~o.deleting
      BY <1>0, <2>0, <2>1 DEF AllRegistered, RegisteredInv, CopiesInv, OfNode
    <2>6. CopiesInv(n)'
      BY Zenon, <1>0, <2>2, <2>3, <2>4, <2>5 DEF CopiesInv, Shows
    <2>7. BranchInv(n)' /\ FiledInv(n)'
      BY Zenon, <2>1, <2>3, <2>4, <2>5 DEF BranchInv, FiledInv
    <2>8. \A m \in Nodes : m # n => RegisteredInv(m)'
      BY Zenon, <1>0, <2>2, <2>3, StoredElsewhere, NodeElsewhere DEF AllRegistered
    <2>9. QED
      BY <2>6, <2>7, <2>8 DEF AllRegistered, RegisteredInv
  <1>3. CASE Fail(n)
    BY Zenon, <1>0, <1>3, ReturnOnlyReg DEF Fail
  <1>4. QED
    BY Zenon, <1>1, <1>2, <1>3 DEF addFinalizer

\* The finalizer is removed: the pool has nothing of the node, and the copies that
\* are left show that the object is being deleted.
LEMMA RemoveReg ==
  ASSUME NodeInv, AllRegistered, NEW n \in Nodes, removeFinalizer(n)
  PROVE  AllRegistered'
  <1>0. pc[n] = "removeFinalizer" /\ UNCHANGED <<cache, connections, pool>>
    BY Zenon DEF removeFinalizer, connections
  <1>1. CASE cur[n] /\ inst[n].deleting /\ Store(n, NoNode, TRUE) /\ Return(n, FALSE)
    <2>1. /\ node'[n] = NoNode /\ cacheCur'[n] = FALSE
          /\ inst'[n] = NoNode /\ cur'[n] = FALSE /\ pc'[n] = "idle"
      BY Zenon, <1>1, StoredElsewhere, ReturnedElsewhere
    <2>2. cache'[n].deleting /\ OfNode(cache'[n], n)
      BY Zenon, <1>0, <1>1 DEF AllRegistered, RegisteredInv, CopiesInv
    <2>3. CopiesInv(n)'
      BY Zenon, <2>1, <2>2, NoNodeObject DEF CopiesInv, OfNode, Shows
    <2>4. \A p \in Pods : NodeOf[p] = n => pool'[p] = None
      BY Zenon, <1>0 DEF AllRegistered, RegisteredInv, BranchInv
    <2>5. BranchInv(n)' /\ FiledInv(n)'
      BY Zenon, <2>1, <2>4 DEF BranchInv, FiledInv
    <2>a. \A m \in Nodes : m # n => node'[m] = node[m] /\ cacheCur'[m] = cacheCur[m]
      BY Zenon, <1>1, StoredElsewhere
    <2>b. \A m \in Nodes : m # n => inst'[m] = inst[m] /\ cur'[m] = cur[m] /\ pc'[m] = pc[m]
      BY Zenon, <1>1, ReturnedElsewhere
    <2>6. \A m \in Nodes : m # n => RegisteredInv(m)'
      BY Zenon, <1>0, <2>a, <2>b, NodeElsewhere DEF AllRegistered
    <2>7. QED
      BY <2>3, <2>5, <2>6 DEF AllRegistered, RegisteredInv
  <1>2. CASE Fail(n)
    BY Zenon, <1>0, <1>2, ReturnOnlyReg DEF Fail
  <1>3. CASE Return(n, FALSE) /\ UNCHANGED stored
    BY Zenon, <1>0, <1>3, ReturnOnlyReg
  <1>4. inst[n].deleting
    BY Zenon, <1>0 DEF AllRegistered, RegisteredInv, BranchInv
  <1>5. QED
    BY Zenon, <1>1, <1>2, <1>3, <1>4 DEF removeFinalizer

\* A connection is made, or it fails.
LEMMA ConnectReg ==
  ASSUME NodeInv, AllRegistered, NEW n \in Nodes, NewConnection(n)
  PROVE  AllRegistered'
  <1>1. /\ pc[n] = "connect" /\ ~inst[n].deleting /\ inst[n].finalizer
        /\ UNCHANGED <<node, cacheCur, cache, inst, cur, pool>>
    BY Zenon DEF NewConnection, AllRegistered, RegisteredInv, BranchInv, stored
  <1>2. \E step \in {"put", "delete", "retry"} : Goto(n, step)
    BY Zenon DEF NewConnection, backoffAndRetry
  <1>3. QED
    BY Zenon, <1>1, <1>2, MoveReg

\* Put: what the reconcile connects to has its finalizer.
LEMMA PutReg ==
  ASSUME NodeInv, AllRegistered, NEW n \in Nodes, PutConnection(n)
  PROVE  AllRegistered'
  <1>1. /\ pc[n] = "put" /\ ~inst[n].deleting /\ inst[n].finalizer
        /\ UNCHANGED <<node, cacheCur, cache, inst, cur>>
    BY Zenon DEF PutConnection, AllRegistered, RegisteredInv, BranchInv, stored
  <1>2. inst[n].endpoint \in Pods /\ inst[n].exists
    BY Zenon, <1>1, Instance
  <1>3. NodeOf[inst[n].endpoint] = n /\ Finalized(n)
    BY Zenon, <1>1, <1>2 DEF AllRegistered, RegisteredInv, CopiesInv, OfNode, Shows
  <1>4. pc'[n] = "connected" /\ \A m \in Nodes : m # n => pc'[m] = pc[m]
    BY Zenon DEF NodeInv, TypeOK, PutConnection, Goto
  <1>5. \A p \in Pods : p # inst[n].endpoint => pool'[p] = pool[p]
    BY Zenon, <1>2 DEF NodeInv, TypeOK, PutConnection, Put
  <1>6. CopiesInv(n)'
    BY Zenon, <1>1 DEF AllRegistered, RegisteredInv, CopiesInv, OfNode, Shows, Finalized
  <1>7. BranchInv(n)' /\ FiledInv(n)'
    BY Zenon, <1>1, <1>3, <1>4 DEF BranchInv, FiledInv, Finalized
  <1>8. \A m \in Nodes : m # n => RegisteredInv(m)'
    BY Zenon, <1>1, <1>3, <1>4, <1>5, NodeElsewhere DEF AllRegistered
  <1>9. QED
    BY <1>6, <1>7, <1>8 DEF AllRegistered, RegisteredInv

\* A status is written to the object that the reconcile has.
LEMMA WriteReg ==
  ASSUME NodeInv, AllRegistered, NEW n \in Nodes, NEW step, NEW s, NEW r,
         WriteStatus(n, step, s, r)
  PROVE  AllRegistered'
  <1>0. UNCHANGED <<cache, connections, pool>>
    BY Zenon DEF WriteStatus, connections
  <1>1. CASE Fail(n)
    BY Zenon, <1>0, <1>1, ReturnOnlyReg DEF Fail
  <1>2. CASE cur[n] /\ Store(n, [inst[n] EXCEPT !.state = s, !.retries = r], FALSE)
             /\ Return(n, TRUE)
    <2> DEFINE o == [inst[n] EXCEPT !.state = s, !.retries = r]
    <2>1. inst[n] = node[n] /\ OfNode(node[n], n) /\ node[n] \in Objects
      BY Zenon, <1>2, Instance DEF AllRegistered, RegisteredInv, CopiesInv
    <2>2. o.exists = node[n].exists /\ o.finalizer = node[n].finalizer
          /\ o.endpoint = node[n].endpoint
      BY Zenon, <2>1 DEF Objects, NodeObjects
    <2>3. Store(n, o, FALSE)
      BY Zenon, <1>2
    <2> HIDE DEF o
    <2>4. OfNode(node'[n], n) /\ (Finalized(n) => Finalized(n)')
      BY Zenon, <2>1, <2>2, <2>3, StoredElsewhere DEF OfNode, Finalized
    <2>5. QED
      BY Zenon, <1>0, <1>2, <2>3, <2>4, StoredElsewhere, ReturnReg
  <1>3. QED
    BY Zenon, <1>1, <1>2 DEF WriteStatus

\* The object is deleted after the last attempt: it keeps its finalizer.
LEMMA GiveUpReg ==
  ASSUME NodeInv, AllRegistered, NEW n \in Nodes, DeleteAfterRetries(n)
  PROVE  AllRegistered'
  <1>0. UNCHANGED <<cache, connections, pool>> /\ Return(n, FALSE)
    BY Zenon DEF DeleteAfterRetries, connections
  <1>1. CASE Store(n, MarkDeleted(n), TRUE)
    <2>1. OfNode(node[n], n)
      BY Zenon DEF AllRegistered, RegisteredInv, CopiesInv
    <2>2. OfNode(node'[n], n) /\ (Finalized(n) => Finalized(n)')
      BY Zenon, <1>1, <2>1, StoredElsewhere, WrittenObject DEF Finalized
    <2>3. QED
      BY Zenon, <1>0, <1>1, <2>2, StoredElsewhere, ReturnReg
  <1>2. CASE UNCHANGED stored
    BY Zenon, <1>0, <1>2, ReturnOnlyReg
  <1>3. QED
    BY Zenon, <1>1, <1>2 DEF DeleteAfterRetries

\* The steps of a reconcile.
LEMMA ReconcileReg ==
  ASSUME OnePod, NodeInv, AllRegistered, NEW n \in Nodes, Reconcile(n) \/ ApiError(n)
  PROVE  AllRegistered'
  <1>1. CASE getNetworkFenceClientStatus(n) \/ ApiError(n)
    BY Zenon, <1>1, ReturnOnlyReg DEF getNetworkFenceClientStatus, ApiError, Fail
  <1>2. CASE SetConnected(n) \/ SetRetrying(n)
    BY Zenon, <1>2, WriteReg DEF SetConnected, SetRetrying
  <1>3. QED
    BY Zenon, <1>1, <1>2, StartReg, ResolveReg, AddReg, RemoveReg, ConnectReg, PutReg, GiveUpReg
    DEF Reconcile

\* The manager restarts with the objects as they are and an empty pool.
LEMMA CrashReg == ASSUME NodeInv, AllRegistered, Crash PROVE AllRegistered'
  <1>. SUFFICES ASSUME NEW n \in Nodes PROVE RegisteredInv(n)'
    BY Zenon DEF AllRegistered
  <1>1. /\ cache'[n] = node[n] /\ node'[n] = node[n] /\ inst'[n] = NoNode
        /\ cur'[n] = FALSE /\ pc'[n] = "idle" /\ \A p \in Pods : pool'[p] = None
    BY Zenon DEF Crash
  <1>2. CopiesInv(n)'
    BY Zenon, <1>1, NoNodeObject
    DEF AllRegistered, RegisteredInv, CopiesInv, OfNode, Shows, Finalized
  <1>3. BranchInv(n)' /\ FiledInv(n)'
    BY Zenon, <1>1 DEF BranchInv, FiledInv
  <1>4. QED
    BY Zenon, <1>2, <1>3 DEF RegisteredInv

\* Pods, readers, and steps that change nothing leave all of it alone.
LEMMA OtherReg ==
  ASSUME AllRegistered, UNCHANGED <<node, cache, cacheCur, inst, cur, pc, pool>>
  PROVE  AllRegistered'
  BY Zenon, NodeElsewhere DEF AllRegistered

\* A connection in the pool is of a node whose object is there and has its finalizer
\* (addFinalizer before Put, Delete before removeFinalizer), for any nodes of one pod
\* each and all faults: deletions, conflicts, restarts, failed calls.
THEOREM PoolIsRegistered == ASSUME OnePod PROVE Spec => []PooledIsRegistered
  <1>1. Init => AllRegistered
    <2>. SUFFICES ASSUME Init, NEW n \in Nodes PROVE RegisteredInv(n)
      BY Zenon DEF AllRegistered
    <2>1. /\ node[n] = NoNode /\ cache[n] = NoNode /\ inst[n] = NoNode
          /\ cur[n] = FALSE /\ pc[n] = "idle" /\ \A p \in Pods : pool[p] = None
      BY Zenon DEF Init
    <2>2. CopiesInv(n)
      BY Zenon, <2>1, NoNodeObject DEF CopiesInv, OfNode, Shows
    <2>3. BranchInv(n) /\ FiledInv(n)
      BY Zenon, <2>1 DEF BranchInv, FiledInv
    <2>4. QED
      BY Zenon, <2>2, <2>3 DEF RegisteredInv
  <1>2. NodeInv /\ AllRegistered /\ [Next]_vars => AllRegistered'
    <2>. SUFFICES ASSUME NodeInv, AllRegistered, [Next]_vars PROVE AllRegistered'
      BY Zenon
    <2>1. CASE UNCHANGED vars
      BY Zenon, <2>1, OtherReg DEF vars
    <2>2. ASSUME NEW p \in Pods,
                 StartPod(p) \/ StopPod(p) \/ watchCSIAddonsNode(p) \/ DispatchWatcher(p)
          PROVE  AllRegistered'
      BY Zenon, <2>2, OtherReg
      DEF StartPod, StopPod, watchCSIAddonsNode, DispatchWatcher, stored, locals, connections
    <2>3. ASSUME NEW r \in Readers, Reader(r) PROVE AllRegistered'
      BY Zenon, <2>3, OtherReg
      DEF Reader, GetLease, GetLeaderByDriver, GetByNodeID, UseClient, stored, locals, connections
    <2>4. QED
      BY Zenon, <2>1, <2>2, <2>3, DeleteNodeReg, SyncReg, RegisterReg, ReconcileReg, CrashReg
      DEF Next, Sidecar
  <1>3. NodeInv /\ AllRegistered => PooledIsRegistered
    <2>. SUFFICES ASSUME AllRegistered, NEW p \in Pods, pool[p] # None
                  PROVE  node[NodeOf[p]].exists /\ node[NodeOf[p]].finalizer
      BY Zenon DEF PooledIsRegistered
    <2>1. NodeOf[p] \in Nodes
      BY Zenon, NodeAssumption
    <2>2. QED
      BY Zenon, <2>1 DEF AllRegistered, RegisteredInv, FiledInv, Finalized
  <1>4. QED
    BY <1>1, <1>2, <1>3, NodeInvariant, PTL DEF Spec
=============================================================================
