----------------------- MODULE ConditionReporterProofs -----------------------
(***************************************************************************)
(* For any volumes, conditions and faults: the reporter makes no noise,    *)
(* and between two recordings its cache is what the recorders know.        *)
(***************************************************************************)
EXTENDS ConditionReporter, TLAPS

\* The recorder knows what is cached of the volume, or missed it.
Knows(r, v) == ~missed[r][v] => conditionCache[v] = told[r][v]

\* What is to be recorded is news to the recorder.
News(r) == told[r][loc.vol] # loc.vc \/ missed[r][loc.vol]

\* While a condition is being recorded, the recorders that still have to get it
\* are behind the cache, for its volume only.
KnowledgeInv ==
  /\ ~running => pc = "wait"
  /\ running =>
       \A r \in Recorders, v \in Volumes :
         /\ pc \in {"wait", "check"} => Knows(r, v)
         /\ pc = "resolve" => IF v = loc.vol THEN News(r) ELSE Knows(r, v)
         /\ pc = "record" => IF v = loc.vol /\ r \in loc.recorders THEN News(r) ELSE Knows(r, v)

ReporterInv == TypeOK /\ KnowledgeInv

\* The local variables at the start of a tick.
LEMMA NoLocalsType == NoLocals \in Locals
  <1>1. (CHOOSE v \in Volumes : TRUE) \in Volumes
    BY Zenon, ReporterAssumption
  <1>2. QED
    BY Zenon, <1>1 DEF NoLocals, Locals

\* The number of faults stays within its bound.
LEMMA FaultCount == ASSUME TypeOK, NEW kind, Fault(kind) PROVE faults' \in 0..MaxFaults
  BY ReporterAssumption DEF TypeOK, Fault

\* So does the number of changes.
LEMMA ChangeCount == ASSUME TypeOK, Change PROVE changes' \in 0..MaxChanges
  BY ReporterAssumption DEF TypeOK, Change

\* The kubelet and the storage.
LEMMA EnvironmentStep == ASSUME ReporterInv, Environment PROVE ReporterInv'
  <1>1. Change
    BY Zenon DEF Environment, ChangeCondition, ChangeStage, ChangeOthers
  <1>2. UNCHANGED <<conditionCache, running, pc, loc, told, missed, faults>>
    BY Zenon, <1>1 DEF Change, history
  <1>3. stage' \in [Volumes -> Stages] /\ others' \subseteq Volumes
        /\ condition' \in [Volumes -> Conditions]
    <2>1. ASSUME NEW v \in Volumes, ChangeCondition(v)
          PROVE  condition' \in [Volumes -> Conditions] /\ UNCHANGED <<stage, others>>
      BY <2>1 DEF ReporterInv, TypeOK, ChangeCondition
    <2>2. ASSUME NEW v \in Volumes, ChangeOthers(v)
          PROVE  others' \subseteq Volumes /\ UNCHANGED <<stage, condition>>
      BY Zenon, <2>2 DEF ReporterInv, TypeOK, ChangeOthers
    <2>3. ASSUME NEW v \in Volumes, ChangeStage(v)
          PROVE  stage' \in [Volumes -> Stages] /\ UNCHANGED <<others, condition>>
      <3>1. PICK s \in {<<"detached", "attached">>, <<"attached", "staged">>, <<"staged", "published">>},
                 to \in {1, 2} : stage' = [stage EXCEPT ![v] = s[to]]
        BY Zenon, <2>3 DEF ChangeStage
      <3>2. s[to] \in Stages
        BY DEF Stages
      <3>3. QED
        BY Zenon, <2>3, <3>1, <3>2 DEF ReporterInv, TypeOK, ChangeStage
    <2>4. QED
      BY Zenon, <2>1, <2>2, <2>3 DEF Environment, ReporterInv, TypeOK
  <1>4. TypeOK'
    BY Zenon, <1>1, <1>2, <1>3, ChangeCount DEF ReporterInv, TypeOK
  <1>5. KnowledgeInv'
    BY <1>2 DEF ReporterInv, KnowledgeInv, Knows, News
  <1>6. QED
    BY Zenon, <1>4, <1>5 DEF ReporterInv

\* A new process knows nothing, and its recorders have got nothing.
LEMMA NewStep == ASSUME ReporterInv, NewVolumeConditionReporter PROVE ReporterInv'
  <1>1. /\ ~running /\ running' = TRUE
        /\ conditionCache' = [v \in Volumes |-> None]
        /\ told' = [r \in Recorders |-> [v \in Volumes |-> None]]
        /\ missed' = [r \in Recorders |-> [v \in Volumes |-> FALSE]]
        /\ UNCHANGED <<stage, others, condition, pc, loc, changes, faults>>
    BY Zenon DEF NewVolumeConditionReporter, Nothing, outside
  <1>2. pc = "wait"
    BY Zenon, <1>1 DEF ReporterInv, KnowledgeInv
  <1>3. TypeOK'
    BY Zenon, <1>1, <1>2 DEF ReporterInv, TypeOK
  <1>4. KnowledgeInv'
    BY Zenon, <1>1, <1>2 DEF KnowledgeInv, Knows
  <1>5. QED
    BY <1>3, <1>4 DEF ReporterInv

\* A tick.
LEMMA TickStep == ASSUME ReporterInv, Tick PROVE ReporterInv'
  <1>0. pc = "wait" /\ running /\ UNCHANGED <<stage, others, condition, conditionCache, told, missed, changes>>
    BY Zenon DEF Tick, outside, history
  <1>1. CASE /\ pc' = "check" /\ UNCHANGED <<running, faults>>
             /\ loc' = [NoLocals EXCEPT !.listed = ListCSIVolumes,
                                        !.todo = {v \in Volumes : stage[v] # "detached"}]
    <2>1. ListCSIVolumes \subseteq Volumes
      BY Zenon DEF ListCSIVolumes, ReporterInv, TypeOK
    <2>2. loc' \in Locals
      BY Zenon, <1>1, <2>1, NoLocalsType DEF Locals
    <2>3. TypeOK'
      BY Zenon, <1>0, <1>1, <2>2 DEF ReporterInv, TypeOK
    <2>4. KnowledgeInv'
      BY Zenon, <1>0, <1>1 DEF ReporterInv, KnowledgeInv, Knows
    <2>5. QED
      BY <2>3, <2>4 DEF ReporterInv
  <1>2. CASE Fault("node") /\ running' = FALSE /\ UNCHANGED <<pc, loc>>
    <2>1. TypeOK'
      BY Zenon, <1>0, <1>2, FaultCount DEF ReporterInv, TypeOK
    <2>2. KnowledgeInv'
      BY Zenon, <1>0, <1>2 DEF KnowledgeInv
    <2>3. QED
      BY <2>1, <2>2 DEF ReporterInv
  <1>3. QED
    BY Zenon, <1>1, <1>2 DEF Tick

\* A volume is asked about.
LEMMA GetStep == ASSUME ReporterInv, NEW v \in Volumes, GetVolumeCondition(v) PROVE ReporterInv'
  <1>0. /\ running /\ pc = "check"
        /\ UNCHANGED <<stage, others, condition, running, told, missed, changes>>
    BY Zenon DEF GetVolumeCondition, outside, history
  <1>1. CASE Skip(v) /\ faults' \in 0..MaxFaults
    <2>1. loc' \in Locals /\ UNCHANGED <<conditionCache, pc>>
      BY Zenon, <1>1 DEF Skip, ReporterInv, TypeOK, Locals
    <2>2. TypeOK'
      BY Zenon, <1>0, <1>1, <2>1 DEF ReporterInv, TypeOK
    <2>3. KnowledgeInv'
      BY Zenon, <1>0, <2>1 DEF ReporterInv, KnowledgeInv, Knows
    <2>4. QED
      BY Zenon, <2>2, <2>3 DEF ReporterInv
  <1>2. CASE /\ isUpdatedVolumeCondition(v, condition[v]) /\ Store(v, condition[v])
             /\ pc' = "resolve" /\ UNCHANGED faults
             /\ loc' = [loc EXCEPT !.vol = v, !.vc = condition[v], !.todo = @ \ {v}]
    <2>1. condition[v] \in Conditions /\ conditionCache[v] # condition[v]
      BY Zenon, <1>2 DEF ReporterInv, TypeOK, isUpdatedVolumeCondition
    <2>2. loc' \in Locals /\ loc'.vol = v /\ loc'.vc = condition[v]
      BY Zenon, <1>2, <2>1 DEF ReporterInv, TypeOK, Locals
    <2>3. /\ conditionCache' \in [Volumes -> Conditions \cup {None}]
          /\ conditionCache'[v] = condition[v]
          /\ \A w \in Volumes : w # v => conditionCache'[w] = conditionCache[w]
      BY Zenon, <1>2, <2>1 DEF ReporterInv, TypeOK, Store
    <2>4. TypeOK'
      BY Zenon, <1>0, <1>2, <2>2, <2>3 DEF ReporterInv, TypeOK
    <2>5. \A r \in Recorders : News(r)'
      BY Zenon, <1>0, <2>1, <2>2 DEF ReporterInv, KnowledgeInv, Knows, News
    <2>6. \A r \in Recorders, w \in Volumes : w # v => Knows(r, w)'
      BY Zenon, <1>0, <2>3 DEF ReporterInv, KnowledgeInv, Knows
    <2>7. KnowledgeInv'
      BY Zenon, <1>0, <1>2, <2>2, <2>5, <2>6 DEF KnowledgeInv
    <2>8. QED
      BY <2>4, <2>7 DEF ReporterInv
  <1>3. faults \in 0..MaxFaults
    BY Zenon DEF ReporterInv, TypeOK
  <1>4. QED
    BY Zenon, <1>1, <1>2, <1>3, FaultCount DEF GetVolumeCondition, ReporterInv
\* The volume is found, or its condition goes unreported.
LEMMA ResolveStep == ASSUME ReporterInv, recordVolumeCondition PROVE ReporterInv'
  <1>0. /\ running /\ pc = "resolve" /\ loc.vol \in Volumes
        /\ UNCHANGED <<stage, others, condition, conditionCache, running, told, changes>>
    BY Zenon DEF recordVolumeCondition, outside, ReporterInv, TypeOK, Locals
  <1>1. CASE pc' = "record" /\ loc' = [loc EXCEPT !.recorders = Recorders] /\ UNCHANGED <<missed, faults>>
    <2>1. loc' \in Locals /\ loc'.vol = loc.vol /\ loc'.vc = loc.vc /\ loc'.recorders = Recorders
      BY Zenon, <1>1 DEF ReporterInv, TypeOK, Locals
    <2>2. TypeOK'
      BY Zenon, <1>0, <1>1, <2>1 DEF ReporterInv, TypeOK
    <2>3. KnowledgeInv'
      BY <1>0, <1>1, <2>1 DEF ReporterInv, KnowledgeInv, Knows, News
    <2>4. QED
      BY <2>2, <2>3 DEF ReporterInv
  <1>2. CASE /\ faults' \in 0..MaxFaults /\ pc' = "check" /\ UNCHANGED loc
             /\ missed' = [r \in Recorders |-> [missed[r] EXCEPT ![loc.vol] = TRUE]]
    <2>1. /\ missed' \in [Recorders -> [Volumes -> BOOLEAN]]
          /\ \A r \in Recorders : /\ missed'[r][loc.vol]
                                  /\ \A v \in Volumes : v # loc.vol => missed'[r][v] = missed[r][v]
      BY Zenon, <1>0, <1>2 DEF ReporterInv, TypeOK
    <2>2. TypeOK'
      BY Zenon, <1>0, <1>2, <2>1 DEF ReporterInv, TypeOK
    <2>3. \A r \in Recorders, v \in Volumes : Knows(r, v)'
      BY <1>0, <2>1 DEF ReporterInv, KnowledgeInv, Knows
    <2>4. KnowledgeInv'
      BY Zenon, <1>0, <1>2, <2>3 DEF KnowledgeInv
    <2>5. QED
      BY <2>2, <2>4 DEF ReporterInv
  <1>3. faults \in 0..MaxFaults
    BY Zenon DEF ReporterInv, TypeOK
  <1>4. QED
    BY Zenon, <1>1, <1>2, <1>3, FaultCount DEF recordVolumeCondition, ReporterInv

\* A recorder gets the condition, or misses it.
LEMMA RecordStep == ASSUME ReporterInv, NEW s \in Recorders, record(s) PROVE ReporterInv'
  <1>0. /\ running /\ pc = "record" /\ s \in loc.recorders
        /\ loc \in Locals /\ loc.vol \in Volumes /\ loc.vc \in Conditions \cup {None}
        /\ conditionCache[loc.vol] = loc.vc
        /\ UNCHANGED <<stage, others, condition, conditionCache, running, changes>>
    BY Zenon DEF record, outside, ReporterInv, TypeOK, Locals
  <1>1. /\ loc' \in Locals /\ loc'.vol = loc.vol /\ loc'.vc = loc.vc
        /\ loc'.recorders = loc.recorders \ {s}
    BY Zenon, <1>0 DEF record, Locals
  <1>2. pc' \in {"check", "record"} /\ (pc' = "check" => loc.recorders = {s})
    BY Zenon DEF record
  <1>3. /\ told' \in [Recorders -> [Volumes -> Conditions \cup {None}]]
        /\ missed' \in [Recorders -> [Volumes -> BOOLEAN]]
        /\ faults' \in 0..MaxFaults
        /\ missed'[s][loc.vol] \/ told'[s][loc.vol] = loc.vc
        /\ \A r \in Recorders, v \in Volumes :
             r # s \/ v # loc.vol => told'[r][v] = told[r][v] /\ missed'[r][v] = missed[r][v]
    <2>1. CASE /\ told' = [told EXCEPT ![s][loc.vol] = loc.vc]
               /\ missed' = [missed EXCEPT ![s][loc.vol] = FALSE] /\ UNCHANGED faults
      BY Zenon, <1>0, <2>1 DEF ReporterInv, TypeOK
    <2>2. CASE /\ Fault("claim") /\ UNCHANGED told
               /\ missed' = [missed EXCEPT ![s][loc.vol] = TRUE]
      BY Zenon, <1>0, <2>2, FaultCount DEF ReporterInv, TypeOK
    <2>3. QED
      BY Zenon, <2>1, <2>2 DEF record
  <1>4. TypeOK'
    BY Zenon, <1>0, <1>1, <1>2, <1>3 DEF ReporterInv, TypeOK
  <1>5. \A r \in Recorders, v \in Volumes :
          IF v = loc.vol /\ r \in loc.recorders \ {s} THEN News(r)' ELSE Knows(r, v)'
    BY <1>0, <1>1, <1>3 DEF ReporterInv, KnowledgeInv, Knows, News
  <1>6. KnowledgeInv'
    BY Zenon, <1>0, <1>1, <1>2, <1>5 DEF KnowledgeInv
  <1>7. QED
    BY Zenon, <1>4, <1>6 DEF ReporterInv

\* What was not listed is forgotten.
LEMMA PruneStep == ASSUME ReporterInv, pruneConditionCache PROVE ReporterInv'
  <1>0. /\ running /\ pc = "check" /\ pc' = "wait" /\ loc' = NoLocals
        /\ UNCHANGED <<stage, others, condition, running, changes, faults>>
    BY Zenon DEF pruneConditionCache, outside
  <1>1. /\ conditionCache' \in [Volumes -> Conditions \cup {None}]
        /\ told' \in [Recorders -> [Volumes -> Conditions \cup {None}]]
        /\ missed' \in [Recorders -> [Volumes -> BOOLEAN]]
    BY Zenon DEF pruneConditionCache, ReporterInv, TypeOK
  <1>2. TypeOK'
    BY Zenon, <1>0, <1>1, NoLocalsType DEF ReporterInv, TypeOK
  <1>3. \A r \in Recorders, v \in Volumes : Knows(r, v)'
    BY Zenon, <1>0 DEF pruneConditionCache, ReporterInv, KnowledgeInv, Knows
  <1>4. KnowledgeInv'
    BY Zenon, <1>0, <1>3 DEF KnowledgeInv
  <1>5. QED
    BY <1>2, <1>4 DEF ReporterInv

\* The inductive invariant.
LEMMA ReporterInvariant == Spec => []ReporterInv
  <1>1. Init => ReporterInv
    <2>. SUFFICES ASSUME Init PROVE ReporterInv
      BY Zenon
    <2>1. 0 \in 0..MaxChanges /\ 0 \in 0..MaxFaults
      BY ReporterAssumption
    <2>2. TypeOK
      BY Zenon, <2>1, NoLocalsType DEF Init, TypeOK, Nothing, Stages
    <2>3. KnowledgeInv
      BY Zenon DEF Init, KnowledgeInv
    <2>4. QED
      BY Zenon, <2>2, <2>3 DEF ReporterInv
  <1>2. ReporterInv /\ [Next]_vars => ReporterInv'
    <2>. SUFFICES ASSUME ReporterInv, [Next]_vars PROVE ReporterInv'
      BY Zenon
    <2>1. CASE UNCHANGED vars
      BY <2>1 DEF ReporterInv, TypeOK, KnowledgeInv, Knows, News, vars, outside, history
    <2>2. QED
      BY Zenon, <2>1, EnvironmentStep, NewStep, TickStep, GetStep, ResolveStep, RecordStep,
         PruneStep
      DEF Next, Run
  <1>3. QED
    BY <1>1, <1>2, PTL DEF Spec

\* Type correctness: in particular, what is being recorded is in the cache.
THEOREM TypeCorrect == Spec => []TypeOK
  <1>1. ReporterInv => TypeOK
    BY Zenon DEF ReporterInv
  <1>2. QED
    BY <1>1, ReporterInvariant, PTL

\* No recorder gets the condition that it got last, unless it missed one since
\* (isUpdatedVolumeCondition).
THEOREM Noiseless == Spec => []NoNoise
  <1>1. ReporterInv => NoNoise
    <2>. SUFFICES ASSUME ReporterInv, pc = "record", NEW r \in loc.recorders PROVE News(r)
      BY Zenon DEF NoNoise, News
    <2>1. running /\ loc.vol \in Volumes /\ r \in Recorders
      BY Zenon DEF ReporterInv, KnowledgeInv, TypeOK, Locals
    <2>2. QED
      BY Zenon, <2>1 DEF ReporterInv, KnowledgeInv
  <1>2. QED
    BY <1>1, ReporterInvariant, PTL

\* The cache is what the recorders know, whatever they miss and however volumes
\* come and go (pruneConditionCache).
THEOREM CacheIsTold == Spec => []CachedIsTold
  <1>1. ReporterInv => CachedIsTold
    BY Zenon DEF ReporterInv, KnowledgeInv, Knows, CachedIsTold
  <1>2. QED
    BY <1>1, ReporterInvariant, PTL
==============================================================================
