-------------------------- MODULE ConditionReporter --------------------------
(***************************************************************************)
(* The volume condition reporter of the sidecar.  At every tick it lists   *)
(* the volumes that are attached to its node, asks its driver for the      *)
(* condition of each, and passes a condition that differs from the cached  *)
(* one to the recorders.  The kubelet attaches, stages and publishes       *)
(* volumes meanwhile, and their conditions change.                         *)
(***************************************************************************)
EXTENDS Integers, FiniteSets

CONSTANTS Volumes,             \* volume handles
          Conditions,          \* records of "healthy" and "message"
          Staging,             \* the driver stages volumes
          MaxChanges,          \* of conditions, and by the kubelet
          Faults, MaxFaults    \* what goes wrong, and how often

ReporterFaults == {"node", "driver", "volume", "claim"}
Recorders == {"log", "event"}
None == [healthy |-> TRUE, message |-> "none"]
Stages == {"detached", "attached", "staged", "published"}

VARIABLES stage,          \* how far the kubelet is with a volume of this driver
          others,         \* volumes of other drivers, which may have the same handles
          condition,      \* as the driver finds it
          conditionCache,
          running, pc, loc,
          told,           \* the condition that each recorder got last, of each volume
          missed,         \* recorders that did not get one since
          changes, faults

outside == <<stage, others, condition>>
history == <<told, missed>>
vars == <<outside, conditionCache, running, pc, loc, history, changes, faults>>

Locals == [listed : SUBSET Volumes, todo : SUBSET Volumes, vol : Volumes,
           vc : Conditions \cup {None}, recorders : SUBSET Recorders]
NoLocals == [listed |-> {}, todo |-> {}, vol |-> CHOOSE v \in Volumes : TRUE,
             vc |-> None, recorders |-> {}]
Nothing(x) == [r \in Recorders |-> [v \in Volumes |-> x]]

ASSUME ReporterAssumption ==
  /\ Volumes # {} /\ None \notin Conditions
  /\ Staging \in BOOLEAN /\ MaxChanges \in Nat
  /\ Faults \subseteq ReporterFaults /\ MaxFaults \in Nat

Fault(kind) ==
  /\ kind \in Faults
  /\ faults < MaxFaults
  /\ faults' = faults + 1

-----------------------------------------------------------------------------
(* The kubelet and the storage.                                            *)

Change ==
  /\ changes < MaxChanges
  /\ changes' = changes + 1
  /\ UNCHANGED <<conditionCache, running, pc, loc, history, faults>>

ChangeCondition(v) ==
  /\ \E c \in Conditions \ {condition[v]} : condition' = [condition EXCEPT ![v] = c]
  /\ Change /\ UNCHANGED <<stage, others>>

ChangeStage(v) ==
  /\ \E s \in {<<"detached", "attached">>, <<"attached", "staged">>, <<"staged", "published">>} :
       \E to \in {1, 2} : stage[v] = s[3 - to] /\ stage' = [stage EXCEPT ![v] = s[to]]
  /\ Change /\ UNCHANGED <<others, condition>>

ChangeOthers(v) ==
  /\ others' = (others \cup {v}) \ (others \cap {v})
  /\ Change /\ UNCHANGED <<stage, condition>>

-----------------------------------------------------------------------------
(* The reporter.                                                           *)

\* A new process finds the driver and its node, or tries again.
NewVolumeConditionReporter ==
  /\ ~running
  /\ running' = TRUE
  /\ conditionCache' = [v \in Volumes |-> None]
  /\ told' = Nothing(None) /\ missed' = Nothing(FALSE)
  /\ UNCHANGED <<outside, pc, loc, changes, faults>>

\* The volumes in the status of the node, of whatever driver.  A node that cannot
\* be read ends the process.
ListCSIVolumes == {v \in Volumes : stage[v] # "detached"} \cup others

Tick ==
  /\ running /\ pc = "wait"
  /\ \/ /\ pc' = "check"
        /\ loc' = [NoLocals EXCEPT !.listed = ListCSIVolumes,
                                   !.todo = {v \in Volumes : stage[v] # "detached"}]
        /\ UNCHANGED <<running, faults>>
     \/ Fault("node") /\ running' = FALSE /\ UNCHANGED <<pc, loc>>
  /\ UNCHANGED <<outside, conditionCache, history, changes>>

\* The driver is asked with the path where the volume is mounted.
MountPoint(v) == stage[v] \in IF Staging THEN {"staged", "published"} ELSE {"published"}

isUpdatedVolumeCondition_always(v, vc) == TRUE

isUpdatedVolumeCondition_health(v, vc) ==
  conditionCache[v] = None \/ conditionCache[v].healthy # vc.healthy

isUpdatedVolumeCondition(v, vc) == conditionCache[v] # vc

\* An update is in the cache before any recorder has it.
Store(v, vc) == conditionCache' = [conditionCache EXCEPT ![v] = vc]

Skip(v) ==
  /\ loc' = [loc EXCEPT !.todo = @ \ {v}]
  /\ UNCHANGED <<conditionCache, pc>>

GetVolumeCondition(v) ==
  /\ running /\ pc = "check" /\ v \in loc.todo
  /\ \/ /\ MountPoint(v)
        /\ isUpdatedVolumeCondition(v, condition[v])
        /\ Store(v, condition[v])
        /\ pc' = "resolve"
        /\ loc' = [loc EXCEPT !.vol = v, !.vc = condition[v], !.todo = @ \ {v}]
        /\ UNCHANGED faults
     \/ /\ ~(MountPoint(v) /\ isUpdatedVolumeCondition(v, condition[v]))
        /\ Skip(v)
        /\ UNCHANGED faults
     \/ MountPoint(v) /\ Fault("driver") /\ Skip(v)
  /\ UNCHANGED <<outside, running, history, changes>>

\* The name of a volume is found with those that are published to pods.
ResolvePersistentVolumeName(v) == stage[v] = "published"

recordVolumeCondition ==
  /\ running /\ pc = "resolve"
  /\ \/ /\ ResolvePersistentVolumeName(loc.vol)
        /\ pc' = "record"
        /\ loc' = [loc EXCEPT !.recorders = Recorders]
        /\ UNCHANGED <<missed, faults>>
     \/ /\ IF ResolvePersistentVolumeName(loc.vol) THEN Fault("volume") ELSE UNCHANGED faults
        /\ missed' = [r \in Recorders |-> [missed[r] EXCEPT ![loc.vol] = TRUE]]
        /\ pc' = "check" /\ UNCHANGED loc
  /\ UNCHANGED <<outside, conditionCache, running, told, changes>>

\* The log takes everything.  An event needs the claim of the volume.
record(r) ==
  /\ running /\ pc = "record" /\ r \in loc.recorders
  /\ \/ /\ told' = [told EXCEPT ![r][loc.vol] = loc.vc]
        /\ missed' = [missed EXCEPT ![r][loc.vol] = FALSE]
        /\ UNCHANGED faults
     \/ /\ r = "event" /\ Fault("claim")
        /\ missed' = [missed EXCEPT ![r][loc.vol] = TRUE]
        /\ UNCHANGED told
  /\ loc' = [loc EXCEPT !.recorders = @ \ {r}]
  /\ pc' = IF loc.recorders = {r} THEN "check" ELSE "record"
  /\ UNCHANGED <<outside, conditionCache, running, changes>>

pruneConditionCache_never ==
  /\ running /\ pc = "check" /\ loc.todo = {}
  /\ told' = [r \in Recorders |-> [v \in Volumes |-> IF v \in loc.listed THEN told[r][v] ELSE None]]
  /\ missed' = [r \in Recorders |-> [v \in Volumes |-> v \in loc.listed /\ missed[r][v]]]
  /\ pc' = "wait" /\ loc' = NoLocals
  /\ UNCHANGED <<outside, conditionCache, running, changes, faults>>

\* What was not listed is forgotten, so that it is reported when it is back.
pruneConditionCache ==
  /\ running /\ pc = "check" /\ loc.todo = {}
  /\ conditionCache' = [v \in Volumes |-> IF v \in loc.listed THEN conditionCache[v] ELSE None]
  /\ told' = [r \in Recorders |-> [v \in Volumes |-> IF v \in loc.listed THEN told[r][v] ELSE None]]
  /\ missed' = [r \in Recorders |-> [v \in Volumes |-> v \in loc.listed /\ missed[r][v]]]
  /\ pc' = "wait" /\ loc' = NoLocals
  /\ UNCHANGED <<outside, running, changes, faults>>

-----------------------------------------------------------------------------

\* The first process has yet to start.
Init ==
  /\ stage \in [Volumes -> {"detached", "published"}]
  /\ others = {}
  /\ condition \in [Volumes -> Conditions]
  /\ conditionCache = [v \in Volumes |-> None]
  /\ running = FALSE /\ pc = "wait" /\ loc = NoLocals
  /\ told = Nothing(None) /\ missed = Nothing(FALSE)
  /\ changes = 0 /\ faults = 0

Environment == \E v \in Volumes : ChangeCondition(v) \/ ChangeStage(v) \/ ChangeOthers(v)

Run ==
  \/ NewVolumeConditionReporter \/ Tick \/ recordVolumeCondition \/ pruneConditionCache
  \/ \E v \in Volumes : GetVolumeCondition(v)
  \/ \E r \in Recorders : record(r)

Next == Environment \/ Run

Spec == Init /\ [][Next]_vars

\* The kubelet restarts the process, and the loop goes on.
FairSpec == Spec /\ WF_vars(Run)

-----------------------------------------------------------------------------
(* Properties.                                                             *)

\* Type correctness.  What is being recorded is in the cache (isUpdatedVolumeCondition),
\* so that whatever becomes of it, it is not recorded again.
TypeOK ==
  /\ stage \in [Volumes -> Stages] /\ others \subseteq Volumes
  /\ condition \in [Volumes -> Conditions]
  /\ conditionCache \in [Volumes -> Conditions \cup {None}]
  /\ running \in BOOLEAN /\ pc \in {"wait", "check", "resolve", "record"} /\ loc \in Locals
  /\ told \in [Recorders -> [Volumes -> Conditions \cup {None}]]
  /\ missed \in [Recorders -> [Volumes -> BOOLEAN]]
  /\ changes \in 0..MaxChanges /\ faults \in 0..MaxFaults
  /\ pc \in {"resolve", "record"} => conditionCache[loc.vol] = loc.vc

\* "Only new/updated volume conditions are reported, this prevents noise of
\* recurring conditions" (Run): no recorder gets the condition that it got last of
\* that volume, unless it missed one since.
NoNoise ==
  pc = "record" => \A r \in loc.recorders :
    told[r][loc.vol] # loc.vc \/ missed[r][loc.vol]

\* The cache is what the recorders know (pruneConditionCache): it holds nothing that
\* a recorder neither got nor missed, forgets nothing of a volume that is listed at
\* every tick, and keeps nothing of one that was not listed at the last one.
CachedIsTold ==
  running /\ pc \in {"wait", "check"} =>
    \A r \in Recorders, v \in Volumes :
      ~missed[r][v] => conditionCache[v] = told[r][v]

\* In the end every volume in use has its condition told to every recorder that
\* did not miss it: also a volume that was detached and is back.
GetsReported ==
  <>[](\A r \in Recorders, v \in Volumes :
         stage[v] = "published" => told[r][v] = condition[v] \/ missed[r][v])

\* The condition of a volume in use is reported in the end, in the log and as an
\* event (docs/volume-condition.md), if no call fails.
AllReported ==
  <>[](\A r \in Recorders, v \in Volumes : stage[v] = "published" => told[r][v] = condition[v])
==============================================================================
