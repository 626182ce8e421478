---------------------------- MODULE CronJobProofs ----------------------------
(***************************************************************************)
(* For any schedule, history limits, edits and faults: no two jobs of a    *)
(* cron job are unfinished at a time, unless a job was created that the    *)
(* informer did not show to the reconcile after it.  If history keeps a    *)
(* job of either result, no time gets two jobs, as long as none is         *)
(* overlooked, removed or never started.                                   *)
(***************************************************************************)
EXTENDS CronJob, FiniteSetTheorems, TLAPS

Steps == {"idle", "prune1", "prune2", "schedule", "start"}

\* The part of the type invariant that the argument needs.
CronTypes ==
  /\ spec \in Specs
  /\ phase \in [Due -> Job!Phases]
  /\ cache \in [Due -> Views]
  /\ pc \in Steps
  /\ loc \in Locals
  /\ now \in 0..Horizon

\* What the informer shows of an unfinished job is that it is active, if it shows
\* the job at all.
CacheInv == \A t \in Due : phase[t] \in Unfinished => cache[t] \in {"active", "gone"}

\* While a reconcile is under way: a job that was not listed is not there, for the
\* informer either; one that was listed with a result is finished; and the time
\* to start a job for has none.
ListInv ==
  /\ pc # "idle" =>
       \A t \in Due : /\ loc.jobs[t] = "gone" => phase[t] = "gone" /\ cache[t] = "gone"
                      /\ loc.jobs[t] \in Job!Results => phase[t] \notin Unfinished
  /\ pc = "start" => loc.missed \in Due /\ loc.jobs[loc.missed] = "gone"

\* At most one job is unfinished.
OneInv == \A t, u \in Due : phase[t] \in Unfinished /\ phase[u] \in Unfinished => t = u

CronInv == CronTypes /\ ("blind" \in odd \/ (CacheInv /\ ListInv /\ OneInv))
-----------------------------------------------------------------------------
(* Times.                                                                  *)

\* A bounded set of natural numbers that is not empty has a smallest element.
LEMMA MinLemma ==
  ASSUME NEW S, S \subseteq Nat, S # {}
  PROVE  Min(S) \in S
  <1>1. PICK x \in S : \A y \in S : ~(<<y, x>> \in OpToRel(<,Nat))
    BY Zenon, NatLessThanWellFounded, WFMin
  <1>2. \A y \in S : ~(y < x)
    BY Zenon, <1>1 DEF OpToRel
  <1>3. \A y \in S : x =< y
    BY <1>2
  <1>4. QED
    BY Zenon, <1>3 DEF Min

\* And a largest.
LEMMA MaxLemma ==
  ASSUME NEW h \in Nat, NEW S, S \subseteq 0..h, S # {}
  PROVE  Max(S) \in S /\ \A y \in S : y <= Max(S)
  <1> DEFINE T == {d \in Nat : \E y \in S : d = h - y}
  <1>1. T \subseteq Nat /\ T # {}
    <2>1. PICK y \in S : TRUE
      BY Zenon
    <2>2. h - y \in Nat
      OBVIOUS
    <2>3. QED
      BY Zenon, <2>2
  <1>2. PICK d \in T : \A e \in T : ~(<<e, d>> \in OpToRel(<,Nat))
    BY Zenon, <1>1, NatLessThanWellFounded, WFMin
  <1>3. \A e \in T : ~(e < d)
    BY Zenon, <1>2 DEF OpToRel
  <1>4. PICK x \in S : d = h - x
    BY Zenon
  <1>5. \A y \in S : x >= y
    <2>1. TAKE y \in S
    <2>2. h - y \in T
      OBVIOUS
    <2>3. QED
      BY <1>3, <1>4, <2>2
  <1>6. Max(S) \in S /\ \A y \in S : Max(S) >= y
    BY Zenon, <1>5 DEF Max
  <1>7. QED
    BY Zenon, <1>6

\* A set of times is bounded by the horizon.
LEMMA DueBounds == Horizon \in Nat /\ Due \subseteq 1..Horizon /\ Due \subseteq 0..Horizon
                   /\ Due \subseteq Nat /\ 0 \notin Due
  BY CronAssumption

\* The time to start a job for is of the schedule, and later than every listed job.
LEMMA MissedTime ==
  ASSUME CronTypes, NEW list \in [Due -> Views],
         getNextSchedule(parseJobList(list).mostRecentTime).missed # {}
  PROVE  LET m == Max(getNextSchedule(parseJobList(list).mostRecentTime).missed)
         IN  m \in Due /\ list[m] = "gone" /\ \A t \in Due : list[t] # "gone" => t < m
  <1> DEFINE there == {t \in Due : list[t] # "gone"}
             last == Latest(there)
             earliest == Max({last, now - spec.deadline})
             missed == {t \in Due : earliest < t /\ t <= now}
             m == Max(missed)
  <1>1. getNextSchedule(parseJobList(list).mostRecentTime).missed = missed
    BY Zenon DEF getNextSchedule, parseJobList
  <1>2. last \in Nat /\ \A t \in there : t <= last
    <2>1. CASE there = {}
      BY Zenon, <2>1 DEF Latest
    <2>2. CASE there # {}
      <3>1. there \subseteq 0..Horizon /\ Horizon \in Nat /\ there \subseteq Nat
        BY Zenon, DueBounds
      <3>2. last = Max(there)
        BY Zenon, <2>2 DEF Latest
      <3>3. Max(there) \in there /\ \A y \in there : y <= Max(there)
        BY Zenon, <2>2, <3>1, MaxLemma
      <3>4. QED
        BY Zenon, <3>1, <3>2, <3>3
    <2>3. QED
      BY Zenon, <2>1, <2>2
  <1>3. now - spec.deadline \in Int
    BY CronAssumption DEF CronTypes, Specs
  <1>4. earliest \in Int /\ earliest >= last
    <2> HIDE DEF last
    <2>1. \E x \in {last, now - spec.deadline} : \A y \in {last, now - spec.deadline} : x >= y
      BY <1>2, <1>3
    <2>2. /\ earliest \in {last, now - spec.deadline}
          /\ \A y \in {last, now - spec.deadline} : earliest >= y
      BY Zenon, <2>1 DEF Max
    <2>3. QED
      BY <1>2, <1>3, <2>2
  <1>5. missed # {} /\ missed \subseteq 0..Horizon /\ Horizon \in Nat
    BY Zenon, <1>1, DueBounds
  <1>6. m \in missed
    <2> HIDE DEF missed
    <2>1. QED
      BY Zenon, <1>5, MaxLemma
  <1>7. m \in Due /\ earliest < m
    <2> HIDE DEF m, earliest
    <2>1. QED
      BY Zenon, <1>6
  <1>8. m \notin there /\ \A t \in there : t < m
    <2> HIDE DEF m, earliest, there, last
    <2>1. there \subseteq Nat
      BY Zenon, DueBounds DEF there
    <2>2. QED
      BY <1>2, <1>4, <1>7, <2>1, DueBounds
  <1>9. QED
    BY Zenon, <1>1, <1>7, <1>8

\* The next time of the schedule, if any.
LEMMA NextRunType == ASSUME NEW last PROVE getNextSchedule(last).nextRun \in Due \cup {0}
  <1> DEFINE later == {t \in Due : t > now}
  <1>1. getNextSchedule(last).nextRun = Earliest(later)
    BY Zenon DEF getNextSchedule
  <1>2. CASE later = {}
    BY Zenon, <1>1, <1>2 DEF Earliest
  <1>3. CASE later # {}
    <2>1. later \subseteq Nat
      BY Zenon, DueBounds
    <2>2. Min(later) \in later
      BY Zenon, <1>3, <2>1, MinLemma
    <2>3. QED
      BY Zenon, <1>1, <1>3, <2>2 DEF Earliest
  <1>4. QED
    BY Zenon, <1>2, <1>3

-----------------------------------------------------------------------------
(* Steps.                                                                  *)

\* The local variables at rest.
LEMMA NoLocalsType == NoLocals \in Locals
  BY Zenon DEF NoLocals, Locals, Views, ConcurrencyPolicies

\* A step that creates no job, and lists none, keeps the invariant.
LEMMA ShrinkStep ==
  ASSUME CronInv, spec' \in Specs, now' \in 0..Horizon, cache' = cache, odd \subseteq odd',
         phase' \in [Due -> Job!Phases],
         \A t \in Due : phase'[t] \in Unfinished => phase[t] \in Unfinished,
         \A t \in Due : phase[t] = "gone" => phase'[t] = "gone",
         pc' \in Steps, loc' \in Locals,
         pc' # "idle" => pc # "idle" /\ loc'.jobs = loc.jobs,
         pc' = "start" => loc'.missed \in Due /\ loc.jobs[loc'.missed] = "gone"
  PROVE  CronInv'
  <1>1. CronTypes'
    BY Zenon DEF CronInv, CronTypes
  <1>2. ASSUME "blind" \notin odd' PROVE (CacheInv /\ ListInv /\ OneInv)'
    <2>1. CacheInv /\ ListInv /\ OneInv
      BY Zenon, <1>2 DEF CronInv
    <2>2. CacheInv' /\ OneInv'
      BY Zenon, <2>1 DEF CacheInv, OneInv
    <2>3. ListInv'
      BY Zenon, <2>1 DEF ListInv
    <2>4. QED
      BY Zenon, <2>2, <2>3
  <1>3. QED
    BY Zenon, <1>1, <1>2 DEF CronInv

\* A step that changes no job, and goes on nowhere.
LEMMA QuietStep ==
  ASSUME CronInv, spec' \in Specs, now' \in 0..Horizon, UNCHANGED <<cache, odd, phase>>,
         UNCHANGED <<pc, loc>> \/ Done
  PROVE  CronInv'
  <1>1. phase' \in [Due -> Job!Phases] /\ pc' \in Steps /\ loc' \in Locals
    BY Zenon, NoLocalsType DEF CronInv, CronTypes, Done, Goto, Steps
  <1>2. UNCHANGED <<pc, loc>> \/ pc' = "idle"
    BY Zenon DEF Done, Goto
  <1>3. CASE pc' = "idle"
    BY Zenon, <1>1, <1>3, ShrinkStep
  <1>4. CASE UNCHANGED <<pc, loc>>
    <2>1. CASE "blind" \in odd
      BY Zenon, <1>1, <1>4, <2>1 DEF CronInv, CronTypes
    <2>2. CASE "blind" \notin odd
      <3>1. pc' = "start" => loc'.missed \in Due /\ loc.jobs[loc'.missed] = "gone"
        BY Zenon, <1>4, <2>2 DEF CronInv, ListInv
      <3>2. QED
        BY Zenon, <1>1, <1>4, <3>1, ShrinkStep
    <2>3. QED
      BY Zenon, <2>1, <2>2
  <1>5. QED
    BY Zenon, <1>2, <1>3, <1>4

\* A step of a job: none appears.
LEMMA JobStep ==
  ASSUME CronInv, spec' \in Specs, now' \in 0..Horizon, UNCHANGED <<cache, pc, loc>>,
         odd \subseteq odd', NEW t \in Due, phase[t] # "gone", NEW p \in Job!Phases,
         phase' = [phase EXCEPT ![t] = p], p \in Unfinished => phase[t] \in Unfinished
  PROVE  CronInv'
  <1>1. phase \in [Due -> Job!Phases] /\ phase' \in [Due -> Job!Phases] /\ pc' \in Steps /\ loc' \in Locals
    BY Zenon DEF CronInv, CronTypes
  <1>2. /\ \A u \in Due : phase'[u] \in Unfinished => phase[u] \in Unfinished
        /\ \A u \in Due : phase[u] = "gone" => phase'[u] = "gone"
    BY Zenon, <1>1
  <1>3. CASE "blind" \in odd
    BY Zenon, <1>1, <1>3 DEF CronInv, CronTypes
  <1>4. CASE "blind" \notin odd
    <2>1. pc' = "start" => loc'.missed \in Due /\ loc.jobs[loc'.missed] = "gone"
      BY Zenon, <1>4 DEF CronInv, ListInv
    <2>2. QED
      BY Zenon, <1>1, <1>2, <2>1, ShrinkStep
  <1>5. QED
    BY Zenon, <1>3, <1>4

\* The informer shows a job as it is.
LEMMA SyncJobStep == ASSUME CronInv, NEW t \in Due, SyncJob(t) PROVE CronInv'
  <1>1. UNCHANGED <<spec, phase, odd, pc, loc, now>> /\ cache' = [cache EXCEPT ![t] = View(phase[t])]
    BY Zenon DEF SyncJob, stored, jobs
  <1>2. phase[t] \in Job!Phases /\ cache \in [Due -> Views]
    BY Zenon DEF CronInv, CronTypes
  <1>3. View(phase[t]) \in Views /\ (phase[t] \in Unfinished => View(phase[t]) = "active")
        /\ (phase[t] = "gone" => View(phase[t]) = "gone")
    BY Zenon, <1>2 DEF View, Views, Unfinished, Job!Phases, Job!Results
  <1>4. /\ cache' \in [Due -> Views] /\ cache'[t] = View(phase[t])
        /\ \A u \in Due : u # t => cache'[u] = cache[u]
    BY Zenon, <1>1, <1>2, <1>3
  <1>5. CronTypes'
    BY Zenon, <1>1, <1>4 DEF CronInv, CronTypes
  <1>6. ASSUME "blind" \notin odd PROVE (CacheInv /\ ListInv /\ OneInv)'
    BY <1>1, <1>3, <1>4, <1>6 DEF CronInv, CacheInv, ListInv, OneInv
  <1>7. QED
    BY Zenon, <1>1, <1>5, <1>6 DEF CronInv

\* The jobs are listed: with a job missing, the reconcile is blind.
LEMMA UpdateStatusStep == ASSUME CronInv, UpdateStatus, pc = "idle" PROVE CronInv'
  <1>1. UNCHANGED <<spec, phase, cache, now>> /\ spec' \in Specs /\ now' \in 0..Horizon
    BY Zenon DEF UpdateStatus, CronInv, CronTypes
  <1>2. CASE UNCHANGED <<pc, loc, odd>>
    BY Zenon, <1>1, <1>2, QuietStep
  <1>3. CASE /\ loc' = [NoLocals EXCEPT !.suspend = spec.suspend, !.policy = spec.policy, !.jobs = cache]
             /\ odd' = IF \E t \in Due : phase[t] # "gone" /\ cache[t] = "gone"
                       THEN odd \cup {"blind"} ELSE odd
             /\ pc' = "prune1"
    <2>1. loc' \in Locals /\ loc'.jobs = cache
      BY Zenon, <1>3, NoLocalsType DEF Locals, CronInv, CronTypes, Specs
    <2>2. CronTypes'
      BY Zenon, <1>1, <1>3, <2>1 DEF CronInv, CronTypes, Steps
    <2>3. ASSUME "blind" \notin odd' PROVE (CacheInv /\ ListInv /\ OneInv)'
      <3>1. /\ \A t \in Due : cache[t] = "gone" => phase[t] = "gone"
            /\ CacheInv /\ OneInv
        BY Zenon, <1>3, <2>3 DEF CronInv
      <3>2. \A t \in Due : cache[t] \in Job!Results => phase[t] \notin Unfinished
        BY Zenon, <3>1 DEF CacheInv, Job!Results
      <3>3. CacheInv' /\ OneInv'
        BY Zenon, <1>1, <3>1 DEF CacheInv, OneInv
      <3>4. ListInv'
        BY Zenon, <1>1, <1>3, <2>1, <3>1, <3>2 DEF ListInv
      <3>5. QED
        BY Zenon, <3>3, <3>4
    <2>4. QED
      BY Zenon, <2>2, <2>3 DEF CronInv
  <1>4. QED
    BY Zenon, <1>2, <1>3 DEF UpdateStatus, Goto

\* Old jobs are deleted.
LEMMA DeleteOldStep ==
  ASSUME CronInv, NEW result, NEW next \in {"prune2", "schedule"}, deleteOldJobs(result, next),
         pc # "idle"
  PROVE  CronInv'
  <1>1. UNCHANGED <<spec, cache, loc, now, odd>> /\ pc' = next
    BY Zenon DEF deleteOldJobs, stored, Goto
  <1>2. PICK gone \in SUBSET Due :
          phase' = [t \in Due |-> IF t \in gone THEN "gone" ELSE phase[t]]
    BY Zenon DEF deleteOldJobs, OldJobs
  <1>3. phase \in [Due -> Job!Phases] /\ "gone" \in Job!Phases /\ "gone" \notin Unfinished
    BY Zenon DEF CronInv, CronTypes, Job!Phases, Unfinished
  <1>4. /\ phase' \in [Due -> Job!Phases]
        /\ \A t \in Due : phase'[t] \in Unfinished => phase[t] \in Unfinished
        /\ \A t \in Due : phase[t] = "gone" => phase'[t] = "gone"
    BY Zenon, <1>2, <1>3
  <1>5. spec' \in Specs /\ now' \in 0..Horizon /\ pc' \in Steps /\ loc' \in Locals /\ pc' # "start"
    BY Zenon, <1>1 DEF CronInv, CronTypes, Steps
  <1>6. QED
    BY Zenon, <1>1, <1>4, <1>5, ShrinkStep

\* The time to start a job for is found, or there is none.
LEMMA ScheduleStep == ASSUME CronInv, Schedule, pc # "idle" PROVE CronInv'
  <1> DEFINE last == parseJobList(loc.jobs).mostRecentTime
             next == getNextSchedule(last)
  <1>1. UNCHANGED <<spec, phase, cache, odd, now>> /\ spec' \in Specs /\ now' \in 0..Horizon
        /\ loc \in Locals /\ loc.jobs \in [Due -> Views]
    BY Zenon DEF Schedule, stored, jobs, CronInv, CronTypes, Locals
  <1>2. CASE Done
    BY Zenon, <1>1, <1>2, QuietStep
  <1>3. CASE /\ next.missed # {}
             /\ loc' = [loc EXCEPT !.missed = Max(next.missed), !.nextRun = next.nextRun]
             /\ pc' = "start"
    <2>1. Max(next.missed) \in Due /\ loc.jobs[Max(next.missed)] = "gone"
      BY Zenon, <1>1, <1>3, MissedTime DEF CronInv
    <2>2. next.nextRun \in Due \cup {0}
      BY Zenon, NextRunType
    <2>3. loc' \in Locals /\ loc'.jobs = loc.jobs /\ loc'.missed = Max(next.missed)
      <3> HIDE DEF next
      <3>1. QED
        BY Zenon, <1>1, <1>3, <2>1, <2>2 DEF Locals
    <2>4. phase' \in [Due -> Job!Phases] /\ pc' \in Steps
      BY Zenon, <1>1, <1>3 DEF CronInv, CronTypes, Steps
    <2>5. loc'.missed \in Due /\ loc.jobs[loc'.missed] = "gone"
      BY Zenon, <2>1, <2>3
    <2>6. QED
      BY Zenon, <1>1, <2>3, <2>4, <2>5, ShrinkStep
  <1>4. QED
    BY Zenon, <1>2, <1>3 DEF Schedule, Return, RequeueAt, Goto

\* A job is created: every job that was listed had a result, and every other one
\* is gone, so that it is the only one unfinished.
LEMMA CreateStep ==
  ASSUME CronInv, pc = "start", Active = {}, phase[loc.missed] = "gone", Done,
         phase' = [phase EXCEPT ![loc.missed] = "waiting"],
         UNCHANGED <<spec, cache, odd, now>>
  PROVE  CronInv'
  <1>1. pc' = "idle" /\ loc' \in Locals
    BY Zenon, NoLocalsType DEF Done, Goto
  <1>2. phase \in [Due -> Job!Phases] /\ "waiting" \in Job!Phases /\ loc.jobs \in [Due -> Views]
    BY Zenon DEF CronInv, CronTypes, Job!Phases, Locals
  <1>3. CronTypes'
    BY Zenon, <1>1, <1>2 DEF CronInv, CronTypes, Steps
  <1>4. ASSUME "blind" \notin odd PROVE (CacheInv /\ ListInv /\ OneInv)'
    <2>1. CacheInv /\ ListInv /\ loc.missed \in Due /\ cache[loc.missed] = "gone"
      BY Zenon, <1>4 DEF CronInv, ListInv
    <2>2. /\ phase'[loc.missed] = "waiting"
          /\ \A t \in Due : t # loc.missed => phase'[t] = phase[t]
      BY Zenon, <1>2, <2>1
    <2>3. \A t \in Due : loc.jobs[t] # "active"
      BY Zenon DEF Active, parseJobList
    <2>4. \A t \in Due : phase[t] \notin Unfinished
      BY Zenon, <1>2, <2>1, <2>3 DEF ListInv, Views, Unfinished
    <2>5. CacheInv' /\ OneInv'
      BY <2>1, <2>2, <2>4 DEF CacheInv, OneInv
    <2>6. ListInv'
      BY Zenon, <1>1 DEF ListInv
    <2>7. QED
      BY Zenon, <2>5, <2>6
  <1>5. QED
    BY Zenon, <1>3, <1>4 DEF CronInv

\* The job is started, or it is too late, or another one is active.
LEMMA StartStep == ASSUME CronInv, Start, pc = "start" PROVE CronInv'
  <1>1. UNCHANGED <<spec, cache, now>> /\ spec' \in Specs /\ now' \in 0..Horizon
    BY Zenon DEF Start, stored, CronInv, CronTypes
  <1>2. CASE Done /\ UNCHANGED <<phase, odd>>
    BY Zenon, <1>1, <1>2, QuietStep
  <1>3. ASSUME NEW t \in Due, Done, phase' = [phase EXCEPT ![t] = "gone"], odd \subseteq odd'
        PROVE  CronInv'
    <2>1. phase \in [Due -> Job!Phases] /\ "gone" \in Job!Phases /\ "gone" \notin Unfinished
      BY Zenon DEF CronInv, CronTypes, Job!Phases, Unfinished
    <2>2. /\ phase' \in [Due -> Job!Phases]
          /\ \A u \in Due : phase'[u] \in Unfinished => phase[u] \in Unfinished
          /\ \A u \in Due : phase[u] = "gone" => phase'[u] = "gone"
      BY Zenon, <1>3, <2>1
    <2>3. pc' = "idle" /\ pc' \in Steps /\ loc' \in Locals
      BY Zenon, <1>3, NoLocalsType DEF Done, Goto, Steps
    <2>4. QED
      BY Zenon, <1>1, <1>3, <2>2, <2>3, ShrinkStep
  <1>4. CASE Replace
    <2>1. CASE Active = {} /\ Fail /\ UNCHANGED jobs
      BY Zenon, <1>2, <2>1 DEF Fail, jobs
    <2>2. ASSUME NEW t \in Active, phase' = [phase EXCEPT ![t] = "gone"],
                 odd' = odd \cup {"removed"}, RequeueAt(loc.nextRun)
          PROVE  CronInv'
      BY Zenon, <1>3, <2>2 DEF Active, parseJobList, RequeueAt
    <2>3. QED
      BY Zenon, <1>4, <2>1, <2>2 DEF Replace
  <1>5. CASE Active = {} /\ Create
    <2>1. CASE Fail /\ UNCHANGED jobs
      BY Zenon, <1>2, <2>1 DEF Fail, jobs
    <2>2. CASE /\ phase[loc.missed] = "gone"
               /\ phase' = [phase EXCEPT ![loc.missed] = "waiting"]
               /\ RequeueAt(loc.nextRun) /\ UNCHANGED odd
      BY Zenon, <1>1, <1>5, <2>2, CreateStep DEF RequeueAt
    <2>3. QED
      BY Zenon, <1>5, <2>1, <2>2 DEF Create
  <1>6. CASE RequeueAt(loc.nextRun) /\ UNCHANGED jobs
    BY Zenon, <1>2, <1>6 DEF RequeueAt, jobs
  <1>7. QED
    BY Zenon, <1>4, <1>5, <1>6 DEF Start

\* The manager restarts with what the API server has.
LEMMA CrashStep == ASSUME CronInv, Crash PROVE CronInv'
  <1>1. /\ UNCHANGED <<spec, phase, odd, now>> /\ pc' = "idle" /\ loc' \in Locals
        /\ cache' = [t \in Due |-> View(phase[t])]
    BY Zenon, NoLocalsType DEF Crash, jobs
  <1>2. \A t \in Due : /\ View(phase[t]) \in Views
                       /\ phase[t] \in Unfinished => View(phase[t]) = "active"
    BY Zenon DEF CronInv, CronTypes, View, Views, Unfinished, Job!Phases, Job!Results
  <1>3. CronTypes'
    BY Zenon, <1>1, <1>2 DEF CronInv, CronTypes, Steps
  <1>4. ASSUME "blind" \notin odd PROVE (CacheInv /\ ListInv /\ OneInv)'
    BY Zenon, <1>1, <1>2, <1>4 DEF CronInv, CacheInv, ListInv, OneInv
  <1>5. QED
    BY Zenon, <1>1, <1>3, <1>4 DEF CronInv

\* The steps of a job, of its controller or of whoever removes it.
LEMMA JobSteps ==
  ASSUME CronInv, NEW t \in Due,
         BeginJob(t) \/ (\E result \in Job!Results : CompleteJob(t, result)) \/ RemoveJob(t)
  PROVE  CronInv'
  <1>1. UNCHANGED <<spec, cache, pc, loc, now>> /\ odd \subseteq odd'
        /\ spec' \in Specs /\ now' \in 0..Horizon
    BY Zenon DEF BeginJob, CompleteJob, RemoveJob, stored, CronInv, CronTypes
  <1>2. CASE BeginJob(t)
    <2>1. phase[t] = "waiting" /\ phase' = [phase EXCEPT ![t] = "running"]
          /\ "running" \in Job!Phases /\ phase[t] \in Unfinished
      BY Zenon, <1>2 DEF BeginJob, Job!Begin, Job!Phases, Unfinished
    <2>2. QED
      BY Zenon, <1>1, <2>1, JobStep
  <1>3. ASSUME NEW result \in Job!Results, CompleteJob(t, result) PROVE CronInv'
    <2>1. phase[t] \in Unfinished /\ phase' = [phase EXCEPT ![t] = result]
          /\ result \in Job!Phases /\ phase[t] # "gone"
      BY Zenon, <1>3 DEF CompleteJob, Job!Complete, Job!Phases, Unfinished
    <2>2. QED
      BY Zenon, <1>1, <2>1, JobStep
  <1>4. CASE RemoveJob(t)
    <2>1. phase[t] # "gone" /\ phase' = [phase EXCEPT ![t] = "gone"]
          /\ "gone" \in Job!Phases /\ "gone" \notin Unfinished
      BY Zenon, <1>4 DEF RemoveJob, Job!Remove, Job!Phases, Unfinished
    <2>2. QED
      BY Zenon, <1>1, <2>1, JobStep
  <1>5. QED
    BY Zenon, <1>2, <1>3, <1>4

\* Users, the clock and the informer of the cron job touch no job.
LEMMA OtherSteps ==
  ASSUME CronInv, SyncCron \/ Tick \/ WakeUp \/ EditCron \/ DeleteCron \/ ApiError \/ UNCHANGED vars
  PROVE  CronInv'
  <1>1. UNCHANGED <<cache, odd, phase>> /\ (UNCHANGED <<pc, loc>> \/ Done)
    BY Zenon DEF SyncCron, Tick, WakeUp, EditCron, DeleteCron, ApiError, Fail, stored, jobs, vars
  <1>2. now' \in 0..Horizon
    BY CronAssumption
    DEF SyncCron, Tick, WakeUp, EditCron, DeleteCron, ApiError, stored, jobs, vars, CronInv, CronTypes
  <1>3. spec' \in Specs
    <2>0. spec \in Specs
      BY Zenon DEF CronInv, CronTypes
    <2>1. CASE UNCHANGED spec
      BY Zenon, <2>0, <2>1
    <2>2. CASE spec' = [spec EXCEPT !.suspend = ~@] \/ spec' = [spec EXCEPT !.exists = FALSE]
      BY Zenon, <2>0, <2>2 DEF Specs
    <2>3. ASSUME NEW policy \in ConcurrencyPolicies, spec' = [spec EXCEPT !.policy = policy]
          PROVE  spec' \in Specs
      BY Zenon, <2>0, <2>3 DEF Specs
    <2>4. QED
      BY Zenon, <2>1, <2>2, <2>3
      DEF SyncCron, Tick, WakeUp, EditCron, DeleteCron, ApiError, stored, vars
  <1>4. QED
    BY Zenon, <1>1, <1>2, <1>3, QuietStep

\* The steps of a reconcile, of either controller.
LEMMA ReconcileSteps ==
  ASSUME CronInv, ReconcileReclaim \/ ReconcileRotation PROVE CronInv'
  <1>1. CASE UpdateStatus /\ pc = "idle"
    BY Zenon, <1>1, UpdateStatusStep
  <1>2. ASSUME NEW result, NEW next \in {"prune2", "schedule"}, deleteOldJobs(result, next), pc # "idle"
        PROVE  CronInv'
    BY Zenon, <1>2, DeleteOldStep
  <1>3. CASE Schedule /\ pc = "schedule"
    BY Zenon, <1>3, ScheduleStep
  <1>4. CASE Start /\ pc = "start"
    BY Zenon, <1>4, StartStep
  <1>5. QED
    BY Zenon, <1>1, <1>2, <1>3, <1>4
    DEF ReconcileReclaim, ReconcileRotation, ListReclaim, PruneReclaim, ListRotation,
        PruneRotation, ScheduleRotation, StartRotation, Work

-----------------------------------------------------------------------------
(* The theorem.                                                            *)

\* The invariant holds at first.
LEMMA InitInv == ASSUME Init PROVE CronInv
  <1>1. CronTypes
    BY NoLocalsType, CronAssumption DEF Init, CronTypes, Steps, Views, Job!Phases
  <1>2. CacheInv /\ ListInv /\ OneInv
    BY Zenon DEF Init, CacheInv, ListInv, OneInv, Unfinished
  <1>3. QED
    BY Zenon, <1>1, <1>2 DEF CronInv

\* The inductive invariant holds in every state.
LEMMA Invariance == Spec => []CronInv
  <1>1. Init => CronInv
    BY Zenon, InitInv
  <1>2. CronInv /\ [Next]_vars => CronInv'
    BY Zenon, SyncJobStep, JobSteps, OtherSteps, ReconcileSteps, CrashStep DEF Next, System
  <1>3. QED
    BY <1>1, <1>2, PTL DEF Spec

\* No two jobs are unfinished at a time, unless the informer did not show a job to
\* the reconcile that followed its creation (ReclaimSpaceCronJobReconciler.Reconcile
\* and its twin for key rotation).
THEOREM NeverTwoJobs == Spec => []NoOverlap
  <1>1. CronInv => NoOverlap
    <2> SUFFICES ASSUME OneInv PROVE Cardinality({t \in Due : phase[t] \in Unfinished}) <= 1
      BY Zenon DEF CronInv, NoOverlap
    <2> DEFINE busy == {t \in Due : phase[t] \in Unfinished}
    <2>2. busy = {} \/ \E t \in Due : busy = {t}
      BY DEF OneInv
    <2>3. CASE busy = {}
      BY <2>3, FS_EmptySet
    <2>4. ASSUME NEW t \in Due, busy = {t} PROVE Cardinality(busy) <= 1
      <3>1. Cardinality({t}) = 1
        BY Zenon, FS_Singleton
      <3>2. QED
        BY <2>4, <3>1
    <2>5. QED
      BY Zenon, <2>2, <2>3, <2>4
  <1>2. QED
    BY <1>1, Invariance, PTL
-----------------------------------------------------------------------------
(* One job for a time.                                                     *)

\* History keeps a job of either result, as it does by default.
HistoryKept == \A s \in CronJobs : \A r \in Job!Results : s.limit[r] >= 1

\* Start times are counted, and bounded by some number.
StartInv == \E h \in Nat : started \in [Due -> 0..h]

\* A job has a start time from its first attempt until it is gone.  Later times
\* have later start times, and only the latest job may be unfinished.
OrderInv ==
  /\ \A t \in Due : started[t] = 0 <=> phase[t] \in {"gone", "waiting"}
  /\ \A t, u \in Due : t < u /\ started[u] > 0 => started[t] < started[u]
  /\ \A t, u \in Due : t < u /\ phase[u] # "gone" => phase[t] \notin Unfinished

\* No time has got two jobs, and the latest that has got one still has it.
LatestInv ==
  /\ \A t \in Due : ran[t] <= 1
  /\ \A t \in Due : ran[t] > 0 => \E u \in Due : t <= u /\ phase[u] # "gone"

\* The time to start a job for is later than every job that was listed.
MissedInv ==
  pc = "start" =>
    loc.missed \in Due /\ \A t \in Due : loc.jobs[t] # "gone" => t < loc.missed

OnceInv ==
  /\ CronInv /\ StartInv /\ MissedInv
  /\ ran \in [Due -> 0..2]
  /\ \A r \in Job!Results : spec.limit[r] >= 1
  /\ odd = {} => OrderInv /\ LatestInv

\* A job starts later than those that are there.
LEMMA StartingLast ==
  ASSUME StartInv, NEW t \in Due
  PROVE  \E h \in Nat : /\ Starting(t) \in [Due -> 0..h]
                        /\ \A u \in Due : u # t => Starting(t)[u] = started[u]
                        /\ \A u \in Due : started[u] < Starting(t)[t]
  <1> DEFINE S == {started[u] : u \in Due}
  <1>1. PICK h \in Nat : started \in [Due -> 0..h]
    BY Zenon DEF StartInv
  <1>2. S \subseteq 0..h /\ S # {}
    BY Zenon, <1>1
  <1>3. Max(S) \in S /\ \A y \in S : y <= Max(S)
    <2> HIDE DEF S
    <2>1. QED
      BY Zenon, <1>2, MaxLemma
  <1>4. Max(S) \in 0..h /\ \A u \in Due : started[u] <= Max(S)
    BY Zenon, <1>2, <1>3
  <1>5. PICK x \in 0..h : x = Max(S)
    BY Zenon, <1>4
  <1>6. Starting(t) = [started EXCEPT ![t] = 1 + x]
    BY Zenon, <1>5 DEF Starting
  <1>7. /\ Starting(t) \in [Due -> 0..(h + 1)]
        /\ \A u \in Due : u # t => Starting(t)[u] = started[u]
        /\ Starting(t)[t] = 1 + x
    BY <1>1, <1>6
  <1>8. \A u \in Due : started[u] \in Nat /\ started[u] <= x
    BY <1>1, <1>4, <1>5
  <1>9. h + 1 \in Nat /\ \A u \in Due : started[u] < 1 + x
    BY <1>8
  <1>10. QED
    BY Zenon, <1>7, <1>9

\* A job that goes loses its start time.
LEMMA WithoutType ==
  ASSUME StartInv, NEW times
  PROVE  \E h \in Nat : Without(times) \in [Due -> 0..h]
  <1>1. PICK h \in Nat : started \in [Due -> 0..h]
    BY Zenon DEF StartInv
  <1>2. Without(times) \in [Due -> 0..h]
    BY <1>1 DEF Without
  <1>3. QED
    BY Zenon, <1>2

\* What history keeps is never all of it, if there is something to keep.
LEMMA SomeKept ==
  ASSUME NEW listed \in SUBSET Due, NEW limit \in Nat, limit >= 1,
         NEW old \in OldJobs(listed, limit), NEW t \in old
  PROVE  \E u \in listed \ old : started[t] <= started[u]
  <1>1. /\ old \subseteq listed /\ Cardinality(old) = Max({0, Cardinality(listed) - limit})
        /\ \A v \in old, u \in listed \ old : started[v] <= started[u]
    BY Zenon DEF OldJobs
  <1>2. IsFiniteSet(listed)
    <2>1. listed \subseteq 1..Horizon /\ 1 \in Int /\ Horizon \in Int
      BY DueBounds
    <2>2. IsFiniteSet(1..Horizon)
      BY Zenon, <2>1, FS_Interval
    <2>3. QED
      BY Zenon, <2>1, <2>2, FS_Subset
  <1>3. PICK n \in Nat : n = Cardinality(listed)
    BY Zenon, <1>2, FS_CardinalityType
  <1>4. n # 0
    BY Zenon, <1>1, <1>2, <1>3, FS_EmptySet
  <1>5. Max({0, n - limit}) # n
    <2>1. \E x \in {0, n - limit} : \A y \in {0, n - limit} : x >= y
      OBVIOUS
    <2>2. Max({0, n - limit}) \in {0, n - limit}
      BY Zenon, <2>1 DEF Max
    <2>3. QED
      BY <1>4, <2>2
  <1>6. old # listed
    BY Zenon, <1>1, <1>3, <1>5
  <1>7. PICK u \in listed : u \notin old
    BY Zenon, <1>1, <1>6
  <1>8. QED
    BY Zenon, <1>1, <1>7

\* What is known of the start times and the limits.
LEMMA OnceTypes ==
  ASSUME OnceInv
  PROVE  /\ CronInv /\ CronTypes /\ StartInv /\ MissedInv
         /\ ran \in [Due -> 0..2] /\ phase \in [Due -> Job!Phases] /\ started \in [Due -> Nat]
         /\ \A r \in Job!Results : spec.limit[r] >= 1
  <1>1. CronInv /\ StartInv /\ MissedInv /\ ran \in [Due -> 0..2]
        /\ \A r \in Job!Results : spec.limit[r] >= 1
    BY Zenon DEF OnceInv
  <1>2. CronTypes /\ phase \in [Due -> Job!Phases]
    BY Zenon, <1>1 DEF CronInv, CronTypes
  <1>3. started \in [Due -> Nat]
    BY <1>1 DEF StartInv
  <1>4. QED
    BY Zenon, <1>1, <1>2, <1>3

\* A step that touches no job.
LEMMA IdleStep ==
  ASSUME OnceInv, CronInv', MissedInv', UNCHANGED <<phase, started, ran>>, odd \subseteq odd',
         spec'.limit = spec.limit
  PROVE  OnceInv'
  <1>1. StartInv' /\ ran' \in [Due -> 0..2] /\ \A r \in Job!Results : spec'.limit[r] >= 1
    BY Zenon DEF OnceInv, StartInv
  <1>2. ASSUME odd' = {} PROVE OrderInv' /\ LatestInv'
    BY Zenon, <1>2 DEF OnceInv, OrderInv, LatestInv
  <1>3. QED
    BY Zenon, <1>1, <1>2 DEF OnceInv

\* A step with which something irregular has happened.
LEMMA OddStep ==
  ASSUME OnceInv, CronInv', MissedInv', StartInv', ran' = ran, spec'.limit = spec.limit, odd' # {}
  PROVE  OnceInv'
  BY Zenon DEF OnceInv

\* A job starts, or it completes: it keeps its start time, or gets one that is
\* later than all others.
LEMMA ProgressStep ==
  ASSUME OnceInv, CronInv', UNCHANGED <<ran, pc, loc, odd, spec>>, NEW t \in Due,
         phase[t] \in Unfinished, NEW p \in {"running"} \cup Job!Results,
         phase' = [phase EXCEPT ![t] = p],
         (started[t] # 0 /\ started' = started) \/ started' = Starting(t)
  PROVE  OnceInv'
  <1>1. /\ started \in [Due -> Nat] /\ phase \in [Due -> Job!Phases]
        /\ StartInv /\ MissedInv /\ \A r \in Job!Results : spec.limit[r] >= 1
    BY Zenon, OnceTypes
  <1>2. MissedInv'
    BY Zenon, <1>1 DEF MissedInv
  <1>3. phase'[t] = p /\ \A u \in Due : u # t => phase'[u] = phase[u]
    BY Zenon, <1>1
  <1>4. p \notin {"gone", "waiting"} /\ phase[t] # "gone"
    BY Zenon DEF Job!Results, Unfinished
  <1>5. CASE started[t] # 0 /\ started' = started
    <2>1. StartInv'
      BY Zenon, <1>1, <1>5 DEF StartInv
    <2>2. ASSUME odd' = {} PROVE OrderInv' /\ LatestInv'
      <3>1. OrderInv /\ LatestInv
        BY Zenon, <2>2 DEF OnceInv
      <3>2. OrderInv'
        <4>1. \A u \in Due : started'[u] = 0 <=> phase'[u] \in {"gone", "waiting"}
          BY Zenon, <1>3, <1>4, <1>5, <3>1 DEF OrderInv
        <4>2. \A u, v \in Due : u < v /\ started'[v] > 0 => started'[u] < started'[v]
          BY Zenon, <1>5, <3>1 DEF OrderInv
        <4>3. \A u, v \in Due : u < v /\ phase'[v] # "gone" => phase'[u] \notin Unfinished
          <5>1. TAKE u, v \in Due
          <5>2. HAVE u < v /\ phase'[v] # "gone"
          <5>3. phase[v] # "gone"
            BY Zenon, <1>3, <1>4, <5>2
          <5>4. phase[u] \notin Unfinished
            BY Zenon, <3>1, <5>2, <5>3 DEF OrderInv
          <5>5. QED
            BY Zenon, <1>3, <5>4
        <4>4. QED
          BY Zenon, <4>1, <4>2, <4>3 DEF OrderInv
      <3>3. LatestInv'
        BY Zenon, <1>3, <1>4, <3>1 DEF LatestInv
      <3>4. QED
        BY Zenon, <3>2, <3>3
    <2>3. QED
      BY Zenon, <1>2, <2>1, <2>2 DEF OnceInv
  <1>6. CASE started' = Starting(t)
    <2>1. PICK h \in Nat : /\ started' \in [Due -> 0..h]
                           /\ \A u \in Due : u # t => started'[u] = started[u]
                           /\ \A u \in Due : started[u] < started'[t]
      BY Zenon, <1>1, <1>6, StartingLast
    <2>2. StartInv' /\ started' \in [Due -> Nat] /\ started'[t] > 0
      BY <1>1, <1>6, <2>1 DEF StartInv
    <2>3. ASSUME odd' = {} PROVE OrderInv' /\ LatestInv'
      <3>1. OrderInv /\ LatestInv
        BY Zenon, <2>3 DEF OnceInv
      <3>2. \A u \in Due : t < u => phase[u] = "gone" /\ started[u] = 0
        BY Zenon, <3>1 DEF OrderInv
      <3>3. OrderInv'
        <4>1. \A u \in Due : started'[u] = 0 <=> phase'[u] \in {"gone", "waiting"}
          BY <1>3, <1>4, <2>1, <2>2, <3>1 DEF OrderInv
        <4>2. \A u, v \in Due : u < v /\ started'[v] > 0 => started'[u] < started'[v]
          <5>1. TAKE u, v \in Due
          <5>2. HAVE u < v /\ started'[v] > 0
          <5>3. u # v
            BY <5>2, DueBounds
          <5>4. CASE v = t
            BY Zenon, <2>1, <5>3, <5>4
          <5>5. CASE v # t /\ u = t
            <6>1. started[v] = 0 /\ started'[v] = 0
              BY Zenon, <2>1, <3>2, <5>2, <5>5
            <6>2. QED
              BY <5>2, <6>1
          <5>6. CASE v # t /\ u # t
            <6>1. started'[v] = started[v] /\ started'[u] = started[u]
              BY Zenon, <2>1, <5>6
            <6>2. QED
              BY Zenon, <3>1, <5>2, <6>1 DEF OrderInv
          <5>7. QED
            BY Zenon, <5>4, <5>5, <5>6
        <4>3. \A u, v \in Due : u < v /\ phase'[v] # "gone" => phase'[u] \notin Unfinished
          <5>1. TAKE u, v \in Due
          <5>2. HAVE u < v /\ phase'[v] # "gone"
          <5>3. phase[v] # "gone"
            BY Zenon, <1>3, <1>4, <5>2
          <5>4. phase[u] \notin Unfinished
            BY Zenon, <3>1, <5>2, <5>3 DEF OrderInv
          <5>5. QED
            BY Zenon, <1>3, <5>4
        <4>4. QED
          BY Zenon, <4>1, <4>2, <4>3 DEF OrderInv
      <3>4. LatestInv'
        BY Zenon, <1>3, <1>4, <3>1 DEF LatestInv
      <3>5. QED
        BY Zenon, <3>3, <3>4
    <2>4. QED
      BY Zenon, <1>2, <2>2, <2>3 DEF OnceInv
  <1>7. QED
    BY Zenon, <1>5, <1>6

\* Old jobs go, but never the latest: another one would have to be younger.
LEMMA PruneStep ==
  ASSUME OnceInv, CronInv', NEW result \in Job!Results, NEW next \in {"prune2", "schedule"},
         deleteOldJobs(result, next), pc # "idle"
  PROVE  OnceInv'
  <1> DEFINE listed == {t \in Due : loc.jobs[t] = result}
  <1>1. UNCHANGED <<spec, loc, ran, odd>> /\ pc' # "start"
    BY Zenon DEF deleteOldJobs, stored, Goto
  <1>0. PICK old \in OldJobs(listed, spec.limit[result]) : \E failed \in SUBSET old :
          /\ phase' = [t \in Due |-> IF t \in old \ failed THEN "gone" ELSE phase[t]]
          /\ started' = Without(old \ failed)
    BY Zenon DEF deleteOldJobs
  <1>2. PICK failed \in SUBSET old :
          /\ phase' = [t \in Due |-> IF t \in old \ failed THEN "gone" ELSE phase[t]]
          /\ started' = Without(old \ failed)
    BY Zenon, <1>0
  <1>3. /\ started \in [Due -> Nat] /\ phase \in [Due -> Job!Phases] /\ StartInv /\ CronTypes /\ CronInv
        /\ spec.limit[result] >= 1 /\ \A r \in Job!Results : spec.limit[r] >= 1
    BY Zenon, OnceTypes
  <1>4. spec.limit[result] \in Nat /\ old \subseteq listed
    BY <1>3 DEF CronTypes, Specs, OldJobs
  <1>5. StartInv' /\ MissedInv'
    BY Zenon, <1>1, <1>2, <1>3, WithoutType DEF StartInv, MissedInv
  <1>6. ASSUME odd' = {} PROVE OrderInv' /\ LatestInv'
    <2>1. OrderInv /\ LatestInv /\ ListInv
      BY Zenon, <1>1, <1>3, <1>6 DEF OnceInv, CronInv
    <2> DEFINE gone == old \ failed
    <2>2. \A t \in Due : /\ t \in gone => phase'[t] = "gone" /\ started'[t] = 0
                         /\ t \notin gone => phase'[t] = phase[t] /\ started'[t] = started[t]
      BY Zenon, <1>2 DEF Without
    <2>3. \A t \in Due : started'[t] \in Nat /\ started'[t] <= started[t]
      BY <1>3, <2>2
    <2>4. OrderInv'
      <3> HIDE DEF gone
      <3>1. \A t \in Due : started'[t] = 0 <=> phase'[t] \in {"gone", "waiting"}
        BY Zenon, <2>1, <2>2 DEF OrderInv
      <3>2. \A t, u \in Due : t < u /\ started'[u] > 0 => started'[t] < started'[u]
        <4>1. TAKE t, u \in Due
        <4>2. HAVE t < u /\ started'[u] > 0
        <4>3. started'[u] = started[u]
          BY <2>2, <4>2
        <4>4. started[t] < started[u]
          BY Zenon, <2>1, <4>2, <4>3 DEF OrderInv
        <4>5. QED
          BY <1>3, <2>3, <4>3, <4>4
      <3>3. \A t, u \in Due : t < u /\ phase'[u] # "gone" => phase'[t] \notin Unfinished
        BY Zenon, <2>1, <2>2 DEF OrderInv, Unfinished
      <3>4. QED
        BY Zenon, <3>1, <3>2, <3>3 DEF OrderInv
    <2>5. ASSUME NEW t \in Due, ran[t] > 0 PROVE \E u \in Due : t <= u /\ phase'[u] # "gone"
      <3> DEFINE there == {u \in Due : phase[u] # "gone"}
                 m == Max(there)
      <3>1. PICK w \in Due : t <= w /\ phase[w] # "gone"
        BY Zenon, <2>1, <2>5 DEF LatestInv
      <3>2. there \subseteq 0..Horizon /\ Horizon \in Nat /\ there # {} /\ w \in there
        BY Zenon, <3>1, DueBounds
      <3>3. m \in there /\ \A y \in there : y <= m
        <4> HIDE DEF there
        <4>1. QED
          BY Zenon, <3>2, MaxLemma
      <3>4. m \in Due /\ phase[m] # "gone" /\ w <= m /\ \A y \in Due : phase[y] # "gone" => y <= m
        <4> HIDE DEF m
        <4>1. QED
          BY Zenon, <3>2, <3>3
      <3> HIDE DEF m, there
      <3>5. t <= m
        <4>1. t \in Nat /\ w \in Nat /\ m \in Nat /\ t <= w /\ w <= m
          BY Zenon, <2>5, <3>1, <3>4, DueBounds
        <4>2. QED
          BY <4>1
      <3>6. m \notin old
        <4> SUFFICES ASSUME m \in old PROVE FALSE
          BY Zenon
        <4>1. listed \in SUBSET Due
          BY Zenon
        <4>2. PICK u \in listed \ old : started[m] <= started[u]
          <5> HIDE DEF listed
          <5>1. QED
            BY <1>2, <1>3, <1>4, <4>1, SomeKept
        <4>3. loc.jobs[m] \in Job!Results
          BY Zenon, <1>4
        <4>4. phase[m] \notin Unfinished
          BY Zenon, <2>1, <3>4, <4>3 DEF ListInv
        <4>5. started[m] > 0
          BY <1>3, <2>1, <3>4, <4>4 DEF OrderInv, Unfinished
        <4>6. started[u] > 0 /\ u \in Due /\ u # m
          BY <1>3, <3>4, <4>2, <4>5
        <4>7. phase[u] # "gone"
          BY <2>1, <4>6 DEF OrderInv
        <4>8. u < m
          BY <3>4, <4>6, <4>7, DueBounds
        <4>9. started[u] < started[m]
          BY <2>1, <3>4, <4>5, <4>6, <4>8 DEF OrderInv
        <4>10. started[u] \in Nat /\ started[m] \in Nat
          BY Zenon, <1>3, <3>4, <4>6
        <4>11. QED
          BY <4>2, <4>9, <4>10
      <3>7. phase'[m] # "gone"
        BY Zenon, <2>2, <3>4, <3>6
      <3>8. QED
        BY Zenon, <3>4, <3>5, <3>7
    <2>6. LatestInv'
      BY Zenon, <1>1, <2>1, <2>5 DEF LatestInv
    <2>7. QED
      BY Zenon, <2>4, <2>6
  <1>7. QED
    BY Zenon, <1>1, <1>3, <1>5, <1>6 DEF OnceInv

\* A job is created for a time later than every job that is there: the time has
\* got none before.
LEMMA FirstJob ==
  ASSUME OnceInv, CronInv', pc = "start", Active = {}, phase[loc.missed] = "gone", Done,
         phase' = [phase EXCEPT ![loc.missed] = "waiting"],
         ran' = [ran EXCEPT ![loc.missed] = Min({2, @ + 1})],
         UNCHANGED <<spec, started, odd>>
  PROVE  OnceInv'
  <1> DEFINE m == loc.missed
  <1>1. /\ started \in [Due -> Nat] /\ phase \in [Due -> Job!Phases] /\ ran \in [Due -> 0..2]
        /\ StartInv /\ MissedInv /\ CronInv /\ CronTypes /\ \A r \in Job!Results : spec.limit[r] >= 1
    BY Zenon, OnceTypes
  <1>2. m \in Due /\ \A t \in Due : loc.jobs[t] # "gone" => t < m
    BY Zenon, <1>1 DEF MissedInv
  <1>3. MissedInv' /\ StartInv'
    BY Zenon, <1>1 DEF MissedInv, StartInv, Done, Goto
  <1>4. PICK k \in 0..2 : k = ran[m]
    BY Zenon, <1>1, <1>2
  <1>5. Min({2, k + 1}) \in {2, k + 1} /\ (k = 0 => Min({2, k + 1}) = 1)
    <2>1. {2, k + 1} \subseteq Nat
      OBVIOUS
    <2>2. Min({2, k + 1}) \in {2, k + 1}
      BY Zenon, <2>1, MinLemma
    <2>3. \E x \in {2, k + 1} : \A y \in {2, k + 1} : x =< y
      BY <1>4
    <2>4. \A y \in {2, k + 1} : Min({2, k + 1}) =< y
      BY Zenon, <2>3 DEF Min
    <2>5. QED
      BY <2>2, <2>4
  <1>6. PICK n \in 0..2 : n = Min({2, k + 1}) /\ (k = 0 => n = 1)
    <2>1. k + 1 \in 0..3 /\ Min({2, k + 1}) \in 0..3
      BY <1>5
    <2>2. Min({2, k + 1}) \in 0..2
      <3>1. \E x \in {2, k + 1} : \A y \in {2, k + 1} : x =< y
        BY <1>4
      <3>2. Min({2, k + 1}) =< 2
        BY Zenon, <3>1 DEF Min
      <3>3. QED
        BY <2>1, <3>2
    <2>3. QED
      BY Zenon, <1>5, <2>2
  <1>7. ran' = [ran EXCEPT ![m] = n]
    BY Zenon, <1>4, <1>6
  <1>8. /\ ran' \in [Due -> 0..2] /\ ran'[m] = n
        /\ \A t \in Due : t # m => ran'[t] = ran[t]
    BY Zenon, <1>1, <1>2, <1>7
  <1>9. phase'[m] = "waiting" /\ \A t \in Due : t # m => phase'[t] = phase[t]
    BY Zenon, <1>1, <1>2
  <1>10. ASSUME odd' = {} PROVE OrderInv' /\ LatestInv'
    <2>1. OrderInv /\ LatestInv /\ ListInv
      BY Zenon, <1>1, <1>10 DEF OnceInv, CronInv
    <2>2. \A t \in Due : phase[t] # "gone" => t < m
      BY Zenon, <1>2, <2>1 DEF ListInv
    <2>3. \A t \in Due : phase[t] \notin Unfinished
      <3>1. loc.jobs \in [Due -> Views] /\ \A t \in Due : loc.jobs[t] # "active"
        BY Zenon, <1>1 DEF CronTypes, Locals, Active, parseJobList
      <3>2. QED
        BY Zenon, <2>1, <3>1 DEF ListInv, Views, Unfinished
    <2>4. ran[m] = 0
      <3> SUFFICES ASSUME ran[m] > 0 PROVE FALSE
        BY <1>4
      <3>1. PICK u \in Due : m <= u /\ phase[u] # "gone"
        BY Zenon, <1>2, <2>1 DEF LatestInv
      <3>2. u < m /\ m \in Nat /\ u \in Nat
        BY Zenon, <1>2, <2>2, <3>1, DueBounds
      <3>3. QED
        BY <3>1, <3>2
    <2>5. ran'[m] = 1
      BY Zenon, <1>4, <1>6, <1>8, <2>4
    <2> HIDE DEF m
    <2>6. LatestInv'
      <3>1. ASSUME NEW t \in Due PROVE ran'[t] <= 1
        <4>1. CASE t = m
          BY <2>5, <4>1
        <4>2. CASE t # m
          BY Zenon, <1>8, <2>1, <3>1, <4>2 DEF LatestInv
        <4>3. QED
          BY Zenon, <4>1, <4>2
      <3>2. ASSUME NEW t \in Due, ran'[t] > 0 PROVE \E u \in Due : t <= u /\ phase'[u] # "gone"
        <4>1. CASE t = m
          BY <1>2, <1>9, <4>1, DueBounds
        <4>2. CASE t # m
          <5>1. ran[t] > 0
            BY Zenon, <1>8, <3>2, <4>2
          <5>2. PICK u \in Due : t <= u /\ phase[u] # "gone"
            BY Zenon, <2>1, <5>1 DEF LatestInv
          <5>3. phase'[u] # "gone"
            BY Zenon, <1>9, <5>2
          <5>4. QED
            BY Zenon, <5>2, <5>3
        <4>3. QED
          BY Zenon, <4>1, <4>2
      <3>3. QED
        BY Zenon, <3>1, <3>2 DEF LatestInv
    <2>7. phase[m] = "gone"
      BY Zenon DEF m
    <2>8. OrderInv'
      <3>1. \A t \in Due : started'[t] = 0 <=> phase'[t] \in {"gone", "waiting"}
        BY <1>2, <1>9, <2>1, <2>7 DEF OrderInv
      <3>2. \A t, u \in Due : t < u /\ started'[u] > 0 => started'[t] < started'[u]
        BY Zenon, <2>1 DEF OrderInv
      <3>3. \A t, u \in Due : t < u /\ phase'[u] # "gone" => phase'[t] \notin Unfinished
        <4>1. TAKE t, u \in Due
        <4>2. HAVE t < u /\ phase'[u] # "gone"
        <4>3. t # m
          <5>1. u = m \/ u < m
            BY Zenon, <1>9, <2>2, <4>2
          <5>2. QED
            BY <1>2, <4>2, <5>1, DueBounds
        <4>4. QED
          BY <1>9, <2>3, <4>3
      <3>4. QED
        BY <3>1, <3>2, <3>3 DEF OrderInv
    <2>9. QED
      BY Zenon, <2>6, <2>8
  <1>11. QED
    BY Zenon, <1>1, <1>3, <1>8, <1>10 DEF OnceInv

\* The job is started, or it is too late, or another one is active.
LEMMA StartOnce == ASSUME OnceInv, CronInv', Start, pc = "start" PROVE OnceInv'
  <1>1. UNCHANGED spec /\ spec'.limit = spec.limit
    BY Zenon DEF Start, stored
  <1>2. ASSUME Done PROVE MissedInv'
    BY Zenon, <1>2 DEF MissedInv, Done, Goto
  <1>3. CASE Done /\ UNCHANGED jobs
    BY Zenon, <1>1, <1>2, <1>3, IdleStep DEF jobs
  <1>4. CASE Replace
    <2>1. CASE Active = {} /\ Fail /\ UNCHANGED jobs
      BY Zenon, <1>3, <2>1 DEF Fail
    <2>2. ASSUME NEW t \in Active, started' = Without({t}), odd' = odd \cup {"removed"},
                 RequeueAt(loc.nextRun), UNCHANGED ran
          PROVE  OnceInv'
      <3>1. StartInv'
        BY Zenon, <2>2, OnceTypes, WithoutType DEF StartInv
      <3>2. Done /\ odd' # {}
        BY Zenon, <2>2 DEF RequeueAt
      <3>3. QED
        BY Zenon, <1>1, <1>2, <2>2, <3>1, <3>2, OddStep
    <2>3. QED
      BY Zenon, <1>4, <2>1, <2>2 DEF Replace
  <1>5. CASE Active = {} /\ Create
    <2>1. CASE Fail /\ UNCHANGED jobs
      BY Zenon, <1>3, <2>1 DEF Fail
    <2>2. CASE /\ phase[loc.missed] = "gone"
               /\ phase' = [phase EXCEPT ![loc.missed] = "waiting"]
               /\ ran' = [ran EXCEPT ![loc.missed] = Min({2, @ + 1})]
               /\ RequeueAt(loc.nextRun) /\ UNCHANGED <<started, odd>>
      BY Zenon, <1>1, <1>5, <2>2, FirstJob DEF RequeueAt
    <2>3. QED
      BY Zenon, <1>5, <2>1, <2>2 DEF Create
  <1>6. CASE RequeueAt(loc.nextRun) /\ UNCHANGED jobs
    BY Zenon, <1>3, <1>6 DEF RequeueAt
  <1>7. QED
    BY Zenon, <1>4, <1>5, <1>6 DEF Start

\* The time to start a job for is later than all that were listed.
LEMMA ScheduleOnce == ASSUME OnceInv, CronInv', Schedule, pc = "schedule" PROVE OnceInv'
  <1> DEFINE last == parseJobList(loc.jobs).mostRecentTime
             next == getNextSchedule(last)
  <1>1. UNCHANGED <<phase, started, ran, odd>> /\ spec'.limit = spec.limit
    BY Zenon DEF Schedule, stored, jobs
  <1>2. CronTypes /\ loc \in Locals /\ loc.jobs \in [Due -> Views]
    BY Zenon, OnceTypes DEF CronTypes, Locals
  <1>3. CASE Done
    <2>1. MissedInv'
      BY Zenon, <1>3 DEF MissedInv, Done, Goto
    <2>2. QED
      BY Zenon, <1>1, <2>1, IdleStep
  <1>4. CASE /\ next.missed # {}
             /\ loc' = [loc EXCEPT !.missed = Max(next.missed), !.nextRun = next.nextRun]
    <2>1. Max(next.missed) \in Due /\ \A t \in Due : loc.jobs[t] # "gone" => t < Max(next.missed)
      BY <1>2, <1>4, MissedTime
    <2>2. loc'.jobs = loc.jobs /\ loc'.missed = Max(next.missed)
      <3> HIDE DEF next
      <3>1. QED
        BY Zenon, <1>2, <1>4 DEF Locals
    <2>3. MissedInv'
      <3> HIDE DEF next
      <3>1. QED
        BY Zenon, <2>1, <2>2 DEF MissedInv
    <2>4. QED
      BY <1>1, <2>3, IdleStep
  <1>5. QED
    BY Zenon, <1>3, <1>4 DEF Schedule, Return, RequeueAt

\* The steps of a job.
LEMMA JobOnce ==
  ASSUME OnceInv, CronInv', NEW t \in Due,
         BeginJob(t) \/ (\E result \in Job!Results : CompleteJob(t, result)) \/ RemoveJob(t)
  PROVE  OnceInv'
  <1>1. UNCHANGED <<spec, pc, loc, ran>> /\ spec'.limit = spec.limit
    BY Zenon DEF BeginJob, CompleteJob, RemoveJob, stored
  <1>2. MissedInv' /\ StartInv
    BY Zenon, <1>1, OnceTypes DEF MissedInv
  <1>3. CASE BeginJob(t)
    <2>1. phase[t] \in Unfinished /\ phase' = [phase EXCEPT ![t] = "running"]
          /\ started' = Starting(t) /\ UNCHANGED odd
      BY Zenon, <1>3 DEF BeginJob, Job!Begin, Unfinished
    <2>2. QED
      BY Zenon, <1>1, <2>1, ProgressStep
  <1>4. ASSUME NEW result \in Job!Results, CompleteJob(t, result) PROVE OnceInv'
    <2>1. phase[t] \in Unfinished /\ phase' = [phase EXCEPT ![t] = result]
      BY Zenon, <1>4 DEF CompleteJob, Job!Complete, Unfinished
    <2>2. CASE (started' = IF started[t] = 0 THEN Starting(t) ELSE started) /\ UNCHANGED odd
      BY Zenon, <1>1, <2>1, <2>2, ProgressStep
    <2>3. CASE odd' = odd \cup {"unstarted"} /\ UNCHANGED started
      <3>1. StartInv' /\ odd' # {}
        BY Zenon, <1>2, <2>3 DEF StartInv
      <3>2. QED
        BY Zenon, <1>1, <1>2, <3>1, OddStep
    <2>4. QED
      BY Zenon, <1>4, <2>2, <2>3 DEF CompleteJob
  <1>5. CASE RemoveJob(t)
    <2>1. StartInv' /\ odd' # {}
      BY Zenon, <1>2, <1>5, WithoutType DEF RemoveJob, StartInv
    <2>2. QED
      BY Zenon, <1>1, <1>2, <2>1, OddStep
  <1>6. QED
    BY Zenon, <1>3, <1>4, <1>5

\* Steps that touch no job.
LEMMA OtherOnce ==
  ASSUME OnceInv, CronInv',
         \/ SyncCron \/ Tick \/ WakeUp \/ EditCron \/ DeleteCron \/ ApiError \/ Crash
         \/ UNCHANGED vars \/ (\E t \in Due : SyncJob(t)) \/ (UpdateStatus /\ pc = "idle")
  PROVE  OnceInv'
  <1>1. UNCHANGED <<phase, started, ran>> /\ odd \subseteq odd'
    BY Zenon
    DEF SyncCron, Tick, WakeUp, EditCron, DeleteCron, ApiError, Crash, SyncJob, UpdateStatus,
           jobs, vars
  <1>2. spec'.limit = spec.limit
    <2>1. spec \in Specs
      BY Zenon, OnceTypes DEF CronTypes
    <2>2. CASE UNCHANGED spec
      BY Zenon, <2>2
    <2>3. CASE spec' = [spec EXCEPT !.suspend = ~@] \/ spec' = [spec EXCEPT !.exists = FALSE]
      BY Zenon, <2>1, <2>3 DEF Specs
    <2>4. ASSUME NEW policy, spec' = [spec EXCEPT !.policy = policy] PROVE spec'.limit = spec.limit
      BY <2>1, <2>4 DEF Specs
    <2>5. QED
      BY <2>2, <2>3, <2>4
      DEF SyncCron, Tick, WakeUp, EditCron, DeleteCron, ApiError, Crash, SyncJob, UpdateStatus,
          stored, vars
  <1>3. UNCHANGED <<pc, loc>> \/ pc' # "start"
    BY Zenon
    DEF SyncCron, Tick, WakeUp, EditCron, DeleteCron, ApiError, Crash, SyncJob, UpdateStatus,
           Fail, Done, Goto, vars
  <1>4. MissedInv'
    BY Zenon, <1>3, OnceTypes DEF MissedInv
  <1>5. QED
    BY Zenon, <1>1, <1>2, <1>4, IdleStep

\* The steps of a reconcile after the list.
LEMMA ReconcileOnce ==
  ASSUME OnceInv, CronInv', ReconcileReclaim \/ ReconcileRotation PROVE OnceInv'
  <1>1. CASE UpdateStatus /\ pc = "idle"
    BY Zenon, <1>1, OtherOnce
  <1>2. ASSUME NEW result \in Job!Results, NEW next \in {"prune2", "schedule"},
               deleteOldJobs(result, next), pc # "idle"
        PROVE  OnceInv'
    BY Zenon, <1>2, PruneStep
  <1>3. CASE Schedule /\ pc = "schedule"
    BY Zenon, <1>3, ScheduleOnce
  <1>4. CASE Start /\ pc = "start"
    BY Zenon, <1>4, StartOnce
  <1>5. "Succeeded" \in Job!Results /\ "Failed" \in Job!Results
    BY Zenon DEF Job!Results
  <1>6. QED
    BY <1>1, <1>2, <1>3, <1>4, <1>5
    DEF ReconcileReclaim, ReconcileRotation, ListReclaim, PruneReclaim, ListRotation,
        PruneRotation, ScheduleRotation, StartRotation, Work

\* Every time of the schedule gets at most one job, if history keeps a job of
\* either result and as long as no job is overlooked, removed or never started:
\* the last time is read off the jobs that exist, and deleteOldJobs always leaves
\* the latest one (ReclaimSpaceCronJobReconciler.Reconcile and its twin for key
\* rotation).
THEOREM OneJobPerTime == ASSUME HistoryKept PROVE Spec => []OncePerTime
  <1>1. Init => OnceInv
    <2> SUFFICES ASSUME Init PROVE OnceInv
      BY Zenon
    <2>1. CronInv
      BY Zenon, InitInv
    <2>2. StartInv /\ MissedInv /\ ran \in [Due -> 0..2]
      BY DEF Init, StartInv, MissedInv
    <2>3. OrderInv /\ LatestInv
      BY DEF Init, OrderInv, LatestInv, Unfinished
    <2>4. \A r \in Job!Results : spec.limit[r] >= 1
      BY Zenon DEF Init, HistoryKept
    <2>5. QED
      BY <2>1, <2>2, <2>3, <2>4 DEF OnceInv
  <1>2. OnceInv /\ CronInv' /\ [Next]_vars => OnceInv'
    BY Zenon, JobOnce, OtherOnce, ReconcileOnce DEF Next, System
  <1>3. OnceInv => OncePerTime
    BY Zenon DEF OnceInv, LatestInv, OncePerTime
  <1>4. QED
    BY <1>1, <1>2, <1>3, Invariance, PTL DEF Spec
=============================================================================
