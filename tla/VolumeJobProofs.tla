-------------------------- MODULE VolumeJobProofs --------------------------
(***************************************************************************)
(* Theorems about VolumeJob for any set of jobs, any limits, deadlines and *)
(* bounds, and any set of faults.                                          *)
(***************************************************************************)
EXTENDS VolumeJob, TLAPS

-----------------------------------------------------------------------------
(* The inductive invariant.                                                *)

\* A job is counted past MaxRetries only by the attempt that ends it.
Counted == {o \in JobObjects : o.result # "Failed" => o.retries <= MaxRetries}

\* Object i is what an attempt makes of job o before its result is known, or
\* when it has failed.
Attempted(i, o) ==
  /\ i.exists
  /\ i.limit = o.limit
  /\ \/ /\ i.start
        /\ o.start => i.retries = o.retries + 1
        /\ ~o.start => i.retries = o.retries
     \/ i.result = "Failed" /\ i.start = o.start /\ i.retries = o.retries

\* A job without result.
Open(o) == o.result = ""

\* How often a job whose limit was not lowered may have been retried.
Within(o) ==
  /\ ~Open(o) => o.retries <= Limit(o)
  /\ Open(o) /\ o.start => o.retries < Limit(o)
  /\ Open(o) /\ ~o.start => o.retries = 0

ObjectInv(j) == job[j] \in Counted /\ cache[j] \in Counted /\ inst[j] \in Counted

\* A copy of the informer that is current is the stored job.
CopyInv(j) == cacheCur[j] => cache[j] = job[j]

\* A reconcile whose instance is current works on a job that has no result.
CurInv(j) == cur[j] => pc[j] # "idle" /\ ~Ignored(job[j]) /\ Attempted(inst[j], job[j])

RetryInv(j) == ~lowered[j] => Within(job[j])

\* Which services an attempt still has to hear from at each step, and that it
\* has succeeded only when there are none.
PlanInv(j) ==
  /\ pc[j] = "controller" => pending[j] \subseteq {"controller"} /\ kind[j] = "ReclaimSpace"
  /\ pc[j] = "node" /\ kind[j] = "KeyRotation" => pending[j] \subseteq {"node"}
  /\ pc[j] \in {"target", "node", "controller"} => Open(inst[j])
  /\ inst[j].result = "Succeeded" => pc[j] = "status" /\ pending[j] = {}

Good(j) ==
  /\ ObjectInv(j) /\ CopyInv(j) /\ CurInv(j) /\ RetryInv(j) /\ PlanInv(j)
  /\ pc[j] # "idle" => inst[j].exists

JobInv == TypeOK /\ \A j \in Jobs : Good(j)

-----------------------------------------------------------------------------
(* Lemmas about single jobs.                                               *)

\* What is known of a counted job's numbers.
LEMMA Numbers ==
  ASSUME NEW o \in Counted
  PROVE  /\ o \in JobObjects /\ o.retries \in 0..(MaxRetries + 1)
         /\ o.retries \in Nat /\ MaxRetries \in Nat /\ Limit(o) \in Nat
         /\ o.result # "Failed" => o.retries <= MaxRetries
  <1>1. o \in JobObjects
    BY Zenon DEF Counted
  <1>2. o.result # "Failed" => o.retries <= MaxRetries
    BY Zenon DEF Counted
  <1>3. o.retries \in 0..(MaxRetries + 1) /\ o.limit \in Limits
    BY Zenon, <1>1 DEF JobObjects
  <1>4. MaxRetries \in Nat /\ defaultBackoffLimit \in Nat /\ Limits \subseteq Nat
    BY Zenon, JobAssumption
  <1>5. o.retries \in Nat
    BY <1>3, <1>4
  <1>6. Limit(o) \in Nat
    BY Zenon, <1>3, <1>4 DEF Limit
  <1>7. QED
    BY Zenon, <1>1, <1>2, <1>3, <1>4, <1>5, <1>6

\* Updates of a job's fields.
LEMMA Updates ==
  ASSUME NEW o \in JobObjects
  PROVE  /\ \A l \in Limits : LET p == [o EXCEPT !.limit = l] IN
              /\ p \in JobObjects /\ p.limit = l /\ p.result = o.result
              /\ p.retries = o.retries /\ p.start = o.start /\ p.exists = o.exists
         /\ LET p == [o EXCEPT !.deleting = TRUE] IN
              /\ p \in JobObjects /\ p.limit = o.limit /\ p.result = o.result
              /\ p.retries = o.retries /\ p.start = o.start /\ p.exists = o.exists
         /\ LET p == [o EXCEPT !.start = TRUE] IN
              /\ p \in JobObjects /\ p.limit = o.limit /\ p.result = o.result
              /\ p.retries = o.retries /\ p.start = TRUE /\ p.exists = o.exists
         /\ \A n \in 0..(MaxRetries + 1) : LET p == [o EXCEPT !.retries = n] IN
              /\ p \in JobObjects /\ p.limit = o.limit /\ p.result = o.result
              /\ p.retries = n /\ p.start = o.start /\ p.exists = o.exists
         /\ \A r \in Results : LET p == [o EXCEPT !.result = r] IN
              /\ p \in JobObjects /\ p.limit = o.limit /\ p.result = r
              /\ p.retries = o.retries /\ p.start = o.start /\ p.exists = o.exists
  BY Zenon DEF JobObjects, Results

\* The job that stands for none.
LEMMA NoJobCounted == NoJob \in Counted /\ Within(NoJob) /\ NoJob.result # "Succeeded"
  <1>1. 0 \in Limits /\ MaxRetries \in Nat
    BY Zenon, JobAssumption
  <1>2. 0 \in 0..(MaxRetries + 1) /\ 0 <= MaxRetries
    BY <1>1
  <1>3. NoJob \in JobObjects
    BY Zenon, <1>1, <1>2 DEF NoJob, JobObjects
  <1>4. NoJob \in Counted
    BY Zenon, <1>2, <1>3 DEF NoJob, Counted
  <1>5. Within(NoJob)
    BY Zenon DEF NoJob, Within, Open
  <1>6. NoJob.result # "Succeeded"
    BY Zenon DEF NoJob
  <1>7. QED
    BY Zenon, <1>4, <1>5, <1>6

\* A user's edit of the limit: only a lower one can be exceeded.
LEMMA LimitEdits ==
  ASSUME NEW o \in Counted, NEW limit \in Limits
  PROVE  LET p == [o EXCEPT !.limit = limit] IN
         /\ p \in Counted
         /\ Within(o) /\ ~(Limit(p) < Limit(o)) => Within(p)
  <1> DEFINE p == [o EXCEPT !.limit = limit]
  <1>1. p \in JobObjects /\ p.result = o.result /\ p.retries = o.retries /\ p.start = o.start
    BY Zenon, Numbers, Updates
  <1> HIDE DEF p
  <1>2. p \in Counted
    BY Zenon, <1>1, Numbers DEF Counted
  <1>3. Limit(p) \in Nat /\ Limit(o) \in Nat /\ o.retries \in Nat
    BY Zenon, <1>2, Numbers
  <1>4. Open(p) <=> Open(o)
    BY Zenon, <1>1 DEF Open
  <1>5. Within(o) /\ ~(Limit(p) < Limit(o)) => Within(p)
    BY <1>1, <1>3, <1>4 DEF Within
  <1>6. QED
    BY Zenon, <1>2, <1>5 DEF p

\* A job that is marked as being deleted.
LEMMA Deletions ==
  ASSUME NEW o \in Counted
  PROVE  LET p == [o EXCEPT !.deleting = TRUE] IN
         p \in Counted /\ (Within(o) => Within(p))
  <1> DEFINE p == [o EXCEPT !.deleting = TRUE]
  <1>1. /\ p \in JobObjects /\ p.result = o.result /\ p.retries = o.retries
        /\ p.start = o.start /\ p.limit = o.limit
    BY Zenon, Numbers, Updates
  <1> HIDE DEF p
  <1>2. p \in Counted
    BY Zenon, <1>1, Numbers DEF Counted
  <1>3. Within(o) => Within(p)
    BY Zenon, <1>1 DEF Within, Limit, Open
  <1>4. QED
    BY Zenon, <1>2, <1>3 DEF p

\* An attempt is counted unless it is the first one.
LEMMA Attempts ==
  ASSUME NEW o \in JobObjects, o.retries \in Nat, o.retries <= MaxRetries, MaxRetries \in Nat
  PROVE  /\ Attempt(o) \in JobObjects /\ Attempt(o).exists = o.exists
         /\ Attempt(o).limit = o.limit /\ Attempt(o).result = o.result
         /\ Attempt(o).start
         /\ o.start => Attempt(o).retries = o.retries + 1
         /\ ~o.start => Attempt(o).retries = o.retries
  <1>1. o.retries + 1 \in 0..(MaxRetries + 1)
    OBVIOUS
  <1>2. CASE o.start
    <2>1. Attempt(o) = [o EXCEPT !.retries = o.retries + 1]
      BY Zenon, <1>2 DEF Attempt
    <2>2. \A n \in 0..(MaxRetries + 1) : [o EXCEPT !.retries = n] \in JobObjects
      BY Zenon, Updates
    <2>3. Attempt(o) \in JobObjects
      BY Zenon, <1>1, <2>1, <2>2
    <2>4. QED
      BY Zenon, <1>2, <2>1, <2>3 DEF JobObjects
  <1>3. CASE ~o.start
    BY Zenon, <1>3, Updates DEF Attempt
  <1>4. QED
    BY Zenon, <1>2, <1>3

\* The attempt that a reconcile begins, from a job that has no result.
LEMMA Begins ==
  ASSUME NEW o \in Counted, ~Ignored(o), o.retries < MaxRetries
  PROVE  /\ Attempt(o) \in Counted /\ Open(Attempt(o)) /\ Attempt(o).exists
         /\ Attempted(Attempt(o), o)
  <1>1. /\ o \in JobObjects /\ o.retries \in Nat /\ MaxRetries \in Nat /\ o.retries <= MaxRetries
        /\ o.exists /\ o.result = ""
    BY Zenon, Numbers DEF Ignored
  <1>2. /\ Attempt(o) \in JobObjects /\ Attempt(o).exists = o.exists
        /\ Attempt(o).limit = o.limit /\ Attempt(o).result = o.result
        /\ Attempt(o).start
        /\ o.start => Attempt(o).retries = o.retries + 1
        /\ ~o.start => Attempt(o).retries = o.retries
    BY Zenon, <1>1, Attempts
  <1>3. Attempt(o).retries <= MaxRetries
    <2>1. o.retries \in Nat /\ o.retries < MaxRetries /\ MaxRetries \in Nat
      BY Zenon, <1>1
    <2>2. /\ o.start => Attempt(o).retries = o.retries + 1
          /\ ~o.start => Attempt(o).retries = o.retries
      BY Zenon, <1>2
    <2>3. QED
      BY <2>1, <2>2
  <1>4. QED
    BY Zenon, <1>1, <1>2, <1>3 DEF Attempted, Counted, Open

\* The attempt of a job that is invalid or too old.
LEMMA Rejects ==
  ASSUME NEW o \in Counted, ~Ignored(o), NEW a, a = o \/ a = Attempt(o)
  PROVE  LET f == [a EXCEPT !.result = "Failed"] IN
         f \in Counted /\ f.exists /\ f.result = "Failed" /\ Attempted(f, o)
  <1> DEFINE f == [a EXCEPT !.result = "Failed"]
  <1>1. /\ o \in JobObjects /\ o.retries \in Nat /\ MaxRetries \in Nat /\ o.retries <= MaxRetries
        /\ o.exists
    BY Zenon, Numbers DEF Ignored
  <1>2. /\ a \in JobObjects /\ a.exists = o.exists /\ a.limit = o.limit
        /\ \/ a.start /\ (o.start => a.retries = o.retries + 1) /\ (~o.start => a.retries = o.retries)
           \/ a.start = o.start /\ a.retries = o.retries
    BY Zenon, <1>1, Attempts
  <1>3. /\ f \in JobObjects /\ f.limit = a.limit /\ f.result = "Failed"
        /\ f.retries = a.retries /\ f.start = a.start /\ f.exists = a.exists
    BY Zenon, <1>2, Updates DEF Results
  <1> HIDE DEF f
  <1>4. QED
    BY Zenon, <1>1, <1>2, <1>3 DEF Counted, Attempted, f

\* An operation that has succeeded.
LEMMA Succeeds ==
  ASSUME NEW i \in Counted, Open(i)
  PROVE  LET s == [i EXCEPT !.result = "Succeeded"] IN
         /\ s \in Counted /\ s.result = "Succeeded" /\ s.exists = i.exists
         /\ \A o : Attempted(i, o) => Attempted(s, o)
  <1> DEFINE s == [i EXCEPT !.result = "Succeeded"]
  <1>1. /\ s \in JobObjects /\ s.limit = i.limit /\ s.result = "Succeeded"
        /\ s.retries = i.retries /\ s.start = i.start /\ s.exists = i.exists
    BY Zenon, Numbers, Updates DEF Results
  <1> HIDE DEF s
  <1>2. i.result # "Failed"
    BY Zenon DEF Open
  <1>3. s \in Counted
    BY Zenon, <1>1, <1>2, Numbers DEF Counted
  <1>4. ASSUME NEW o, Attempted(i, o) PROVE Attempted(s, o)
    BY Zenon, <1>1, <1>2, <1>4 DEF Attempted
  <1>5. QED
    BY Zenon, <1>1, <1>3, <1>4 DEF s

\* What is stored at the end of an attempt keeps within the limit.
LEMMA Gives ==
  ASSUME NEW i \in Counted
  PROVE  /\ GiveUp(i) \in Counted
         /\ GiveUp(i).exists = i.exists /\ GiveUp(i).start = i.start
         /\ GiveUp(i).retries = i.retries /\ GiveUp(i).limit = i.limit
         /\ GiveUp(i).result = IF i.result = "" /\ i.retries = Limit(i) THEN "Failed" ELSE i.result
         /\ \A o \in Counted : Within(o) /\ ~Ignored(o) /\ Attempted(i, o) => Within(GiveUp(i))
  <1>1. i \in JobObjects /\ i.retries \in Nat /\ Limit(i) \in Nat
    BY Zenon, Numbers
  <1>2. LET p == [i EXCEPT !.result = "Failed"] IN
        /\ p \in JobObjects /\ p.limit = i.limit /\ p.result = "Failed"
        /\ p.retries = i.retries /\ p.start = i.start /\ p.exists = i.exists
    BY Zenon, <1>1, Updates DEF Results
  <1>3. /\ GiveUp(i).exists = i.exists /\ GiveUp(i).start = i.start
        /\ GiveUp(i).retries = i.retries /\ GiveUp(i).limit = i.limit
        /\ GiveUp(i).result = IF i.result = "" /\ i.retries = Limit(i) THEN "Failed" ELSE i.result
    BY Zenon, <1>2 DEF GiveUp
  <1>4. GiveUp(i) \in Counted
    BY Zenon, <1>2 DEF GiveUp, Counted
  <1>5. ASSUME NEW o \in Counted, Within(o), ~Ignored(o), Attempted(i, o)
        PROVE  Within(GiveUp(i))
    <2>1. o.retries \in Nat /\ Limit(o) \in Nat
      BY Zenon, Numbers
    <2>2. Limit(o) = Limit(i) /\ Limit(GiveUp(i)) = Limit(i) /\ Open(o)
      BY Zenon, <1>3, <1>5 DEF Limit, Attempted, Ignored, Open
    <2>3. (o.start => o.retries < Limit(i)) /\ (~o.start => o.retries = 0)
      BY Zenon, <1>5, <2>2 DEF Within
    <2>4. i.retries <= Limit(i) /\ (i.start \/ i.result = "Failed")
      BY <1>1, <1>5, <2>1, <2>2, <2>3 DEF Attempted
    <2>5. /\ Open(GiveUp(i)) => GiveUp(i).start /\ i.retries # Limit(i)
          /\ GiveUp(i).retries = i.retries
      BY Zenon, <1>3, <2>4 DEF Open
    <2>6. QED
      BY <1>1, <2>2, <2>4, <2>5 DEF Within
  <1>6. QED
    BY Zenon, <1>3, <1>4, <1>5

-----------------------------------------------------------------------------
(* The steps.                                                              *)

\* Nothing changes for job k.
SameJob(k) ==
  /\ kind'[k] = kind[k] /\ job'[k] = job[k] /\ lowered'[k] = lowered[k]
  /\ cache'[k] = cache[k] /\ cacheCur'[k] = cacheCur[k]
  /\ pc'[k] = pc[k] /\ inst'[k] = inst[k] /\ cur'[k] = cur[k] /\ pending'[k] = pending[k]

\* What holds of a job goes on to hold when it is left alone.
LEMMA Same == ASSUME NEW k, Good(k), SameJob(k) PROVE Good(k)'
  <1>1. ObjectInv(k)' /\ CopyInv(k)' /\ (pc[k] # "idle" => inst[k].exists)'
    BY Zenon DEF Good, SameJob, ObjectInv, CopyInv
  <1>2. CurInv(k)'
    BY Zenon DEF Good, SameJob, CurInv
  <1>3. RetryInv(k)'
    BY Zenon DEF Good, SameJob, RetryInv
  <1>4. PlanInv(k)'
    BY Zenon DEF Good, SameJob, PlanInv
  <1>5. QED
    BY Zenon, <1>1, <1>2, <1>3, <1>4 DEF Good

\* A step that is about job j only.
LEMMA OneJob ==
  ASSUME JobInv, TypeOK', NEW j \in Jobs, Good(j)', \A k \in Jobs \ {j} : SameJob(k)
  PROVE  JobInv'
  <1>1. ASSUME NEW k \in Jobs PROVE Good(k)'
    BY Zenon, Same DEF JobInv
  <1>2. QED
    BY Zenon, <1>1 DEF JobInv

\* Users change the limit of a job, or delete it.
LEMMA UserStep ==
  ASSUME JobInv, NEW j \in Jobs, EditLimit(j) \/ DeleteJob(j)
  PROVE  JobInv'
  <1>0. TypeOK /\ Good(j) /\ job[j] \in Counted
    BY Zenon DEF JobInv, Good, ObjectInv
  <1>1. PICK o \in Counted : Store(j, o, TRUE) /\ RetryInv(j)' /\ lowered' \in [Jobs -> BOOLEAN]
                             /\ \A k \in Jobs \ {j} : lowered'[k] = lowered[k]
    <2>1. CASE EditLimit(j)
      <3>1. PICK limit \in Limits : LET p == [job[j] EXCEPT !.limit = limit] IN
              /\ Store(j, p, TRUE)
              /\ lowered' = [lowered EXCEPT ![j] = lowered[j] \/ Limit(p) < Limit(job[j])]
        BY Zenon, <2>1 DEF EditLimit
      <3> DEFINE p == [job[j] EXCEPT !.limit = limit]
      <3>2. p \in Counted /\ (Within(job[j]) /\ ~(Limit(p) < Limit(job[j])) => Within(p))
        BY Zenon, <1>0, LimitEdits
      <3> HIDE DEF p
      <3>3. Store(j, p, TRUE) /\ lowered' = [lowered EXCEPT ![j] = lowered[j] \/ Limit(p) < Limit(job[j])]
        BY Zenon, <3>1 DEF p
      <3>4. job'[j] = p
        BY Zenon, <1>0, <3>3 DEF Store, TypeOK
      <3>5. lowered' \in [Jobs -> BOOLEAN] /\ \A k \in Jobs \ {j} : lowered'[k] = lowered[k]
        BY Zenon, <1>0, <3>3 DEF TypeOK
      <3>6. ~lowered'[j] => ~lowered[j] /\ ~(Limit(p) < Limit(job[j]))
        BY Zenon, <1>0, <3>3 DEF TypeOK
      <3>7. RetryInv(j)'
        BY Zenon, <1>0, <3>2, <3>4, <3>6 DEF RetryInv, Good
      <3>8. QED
        BY Zenon, <3>2, <3>3, <3>5, <3>7
    <2>2. CASE DeleteJob(j)
      <3>1. lowered' = lowered
        BY Zenon, <2>2 DEF DeleteJob
      <3>2. PICK o \in {NoJob, [job[j] EXCEPT !.deleting = TRUE]} : Store(j, o, TRUE)
        BY Zenon, <2>2 DEF DeleteJob
      <3>3. o \in Counted /\ (Within(job[j]) => Within(o))
        BY Zenon, <1>0, <3>2, NoJobCounted, Deletions
      <3>4. job'[j] = o
        BY Zenon, <1>0, <3>2 DEF Store, TypeOK
      <3>5. RetryInv(j)'
        BY Zenon, <1>0, <3>1, <3>3, <3>4 DEF RetryInv, Good
      <3>6. QED
        BY Zenon, <1>0, <3>1, <3>2, <3>3, <3>5 DEF TypeOK
    <2>3. QED
      BY Zenon, <2>1, <2>2
  <1>2. /\ cur' = [cur EXCEPT ![j] = FALSE]
        /\ UNCHANGED <<cache, queue, pc, inst, pending, target, now, kind>>
    BY Zenon DEF EditLimit, DeleteJob
  <1>3. TypeOK'
    BY Zenon, <1>0, <1>1, <1>2 DEF TypeOK, Store, Counted
  <1>4. Good(j)'
    BY Zenon, <1>0, <1>1, <1>2 DEF TypeOK, Store, Good, ObjectInv, CopyInv, CurInv, PlanInv
  <1>5. \A k \in Jobs \ {j} : SameJob(k)
    BY Zenon, <1>0, <1>1, <1>2 DEF TypeOK, Store, SameJob
  <1>6. QED
    BY Zenon, <1>3, <1>4, <1>5, OneJob

\* The informer catches up.
LEMMA SyncStep ==
  ASSUME JobInv, NEW j \in Jobs, Sync(j)
  PROVE  JobInv'
  <1>0. TypeOK /\ Good(j) /\ job[j] \in Counted
    BY Zenon DEF JobInv, Good, ObjectInv
  <1>1. TypeOK'
    BY Zenon, <1>0 DEF TypeOK, Sync, Counted, locals
  <1>2. Good(j)'
    BY Zenon, <1>0 DEF TypeOK, Sync, Good, ObjectInv, CopyInv, CurInv, RetryInv, PlanInv, locals
  <1>3. \A k \in Jobs \ {j} : SameJob(k)
    BY Zenon, <1>0 DEF TypeOK, Sync, SameJob, locals
  <1>4. QED
    BY Zenon, <1>1, <1>2, <1>3, OneJob
\* A reconcile begins.
LEMMA StartStep ==
  ASSUME JobInv, NEW j \in Jobs, pc[j] = "idle", ReconcileStart(j)
  PROVE  JobInv'
  <1> DEFINE o == cache[j]
             a == IF o.claim THEN Attempt(o) ELSE o
             failed == ~o.claim \/ Expired
             i == IF failed THEN [a EXCEPT !.result = "Failed"] ELSE a
  <1>0. /\ TypeOK /\ Good(j) /\ o \in Counted /\ queue' \subseteq Jobs
        /\ UNCHANGED <<job, event, cacheCur, lowered, cache, pending, target, now, kind>>
    BY Zenon DEF JobInv, Good, ObjectInv, ReconcileStart, TypeOK, stored
  <1>1. CASE UNCHANGED <<pc, inst, cur>>
    <2>1. \A k \in Jobs : SameJob(k)
      BY Zenon, <1>0, <1>1 DEF SameJob
    <2>2. TypeOK'
      BY Zenon, <1>0, <1>1 DEF TypeOK
    <2>3. QED
      BY Zenon, <2>1, <2>2, Same DEF JobInv
  <1>2. CASE /\ ~Ignored(o) /\ (o.retries < MaxRetries \/ failed)
             /\ inst' = [inst EXCEPT ![j] = i]
             /\ cur' = [cur EXCEPT ![j] = cacheCur[j]]
             /\ Goto(j, IF failed THEN "status" ELSE "target")
    <2>1. /\ i \in Counted /\ i.exists /\ Attempted(i, o)
          /\ failed => i.result = "Failed"
          /\ ~failed => Open(i)
      <3>1. CASE failed
        <4>1. i = [a EXCEPT !.result = "Failed"]
          BY Zenon, <3>1
        <4>2. a = o \/ a = Attempt(o)
          BY Zenon
        <4> HIDE DEF a, o, i, failed
        <4>3. QED
          BY Zenon, <1>0, <1>2, <3>1, <4>1, <4>2, Rejects
      <3>2. CASE ~failed
        <4>1. i = Attempt(o) /\ o.retries < MaxRetries
          BY Zenon, <1>2, <3>2
        <4> HIDE DEF a, o, i, failed
        <4>2. QED
          BY Zenon, <1>0, <1>2, <3>2, <4>1, Begins
      <3>3. QED
        BY Zenon, <3>1, <3>2
    <2> HIDE DEF a, i, failed
    <2>2. /\ pc'[j] = IF failed THEN "status" ELSE "target"
          /\ inst'[j] = i /\ cur'[j] = cacheCur[j]
          /\ job'[j] = job[j] /\ cache'[j] = o /\ cacheCur'[j] = cacheCur[j]
          /\ lowered'[j] = lowered[j] /\ pending'[j] = pending[j]
      BY Zenon, <1>0, <1>2 DEF TypeOK, Goto
    <2>3. TypeOK'
      BY Zenon, <1>0, <1>2, <2>1 DEF TypeOK, Goto, Counted
    <2>4. ObjectInv(j)' /\ CopyInv(j)' /\ RetryInv(j)'
      BY Zenon, <1>0, <2>1, <2>2 DEF Good, ObjectInv, CopyInv, RetryInv
    <2>5. CurInv(j)'
      BY Zenon, <1>0, <1>2, <2>1, <2>2 DEF Good, CopyInv, CurInv
    <2>6. PlanInv(j)'
      BY Zenon, <2>1, <2>2 DEF PlanInv, Open
    <2>7. Good(j)'
      BY Zenon, <2>1, <2>2, <2>4, <2>5, <2>6 DEF Good
    <2>8. \A k \in Jobs \ {j} : SameJob(k)
      BY Zenon, <1>0, <1>2 DEF TypeOK, Goto, SameJob
    <2>9. QED
      BY Zenon, <2>3, <2>7, <2>8, OneJob
  <1>3. QED
    BY Zenon, <1>1, <1>2 DEF ReconcileStart

\* A step of an attempt to a later one, that does not store anything.
LEMMA LocalStep ==
  ASSUME JobInv, NEW j \in Jobs, UNCHANGED Unstored,
         NEW step \in {"status", "node", "controller"}, NEW i \in Counted,
         NEW services \in SUBSET Services,
         pc[j] \in {"target", "node", "controller"}, Goto(j, step),
         inst' = [inst EXCEPT ![j] = i], pending' = [pending EXCEPT ![j] = services],
         i.exists, \A o : Attempted(inst[j], o) => Attempted(i, o),
         step = "controller" => services \subseteq {"controller"} /\ kind[j] = "ReclaimSpace",
         step = "node" /\ kind[j] = "KeyRotation" => services \subseteq {"node"},
         step # "status" => Open(i),
         i.result = "Succeeded" => step = "status" /\ services = {}
  PROVE  JobInv'
  <1>0. /\ TypeOK /\ Good(j)
        /\ UNCHANGED <<job, event, cacheCur, lowered, cache, queue, cur, target, now, kind>>
    BY Zenon DEF JobInv, Unstored, stored
  <1>1. TypeOK'
    BY Zenon, <1>0 DEF TypeOK, Goto, Counted, Services
  <1>2. pc'[j] = step /\ inst'[j] = i /\ pending'[j] = services
    BY Zenon, <1>0 DEF TypeOK, Goto
  <1>3. ObjectInv(j)' /\ CopyInv(j)' /\ RetryInv(j)' /\ (pc[j] # "idle" => inst[j].exists)'
    BY Zenon, <1>0, <1>2 DEF Good, ObjectInv, CopyInv, RetryInv
  <1>4. CurInv(j)'
    BY Zenon, <1>0, <1>2 DEF Good, CurInv
  <1>5. PlanInv(j)'
    BY Zenon, <1>0, <1>2 DEF PlanInv
  <1>6. \A k \in Jobs \ {j} : SameJob(k)
    BY Zenon, <1>0 DEF TypeOK, Goto, SameJob
  <1>7. QED
    BY Zenon, <1>1, <1>3, <1>4, <1>5, <1>6, OneJob DEF Good
\* An attempt that is between its start and its last call.
Calling == {"target", "node", "controller"}

\* What is known of it.
LEMMA Midway ==
  ASSUME JobInv, NEW j \in Jobs, pc[j] \in Calling
  PROVE  /\ inst[j] \in Counted /\ Open(inst[j]) /\ inst[j].exists /\ inst[j].result # "Succeeded"
         /\ inst = [inst EXCEPT ![j] = inst[j]] /\ pending = [pending EXCEPT ![j] = pending[j]]
         /\ pending[j] \in SUBSET Services
         /\ pc[j] = "controller" => pending[j] \subseteq {"controller"} /\ kind[j] = "ReclaimSpace"
         /\ pc[j] = "node" /\ kind[j] = "KeyRotation" => pending[j] \subseteq {"node"}
  <1>1. TypeOK /\ Good(j)
    BY Zenon DEF JobInv
  <1>2. inst[j] \in Counted /\ Open(inst[j]) /\ inst[j].exists /\ inst[j].result # "Succeeded"
    BY Zenon, <1>1 DEF Good, ObjectInv, PlanInv, Calling, Open
  <1>3. /\ inst = [inst EXCEPT ![j] = inst[j]] /\ pending = [pending EXCEPT ![j] = pending[j]]
        /\ pending[j] \in SUBSET Services
    BY Zenon, <1>1 DEF TypeOK
  <1>4. QED
    BY Zenon, <1>1, <1>2, <1>3 DEF Good, PlanInv

\* An attempt fails.
LEMMA FailStep ==
  ASSUME JobInv, NEW j \in Jobs, pc[j] \in Calling, Fail(j), UNCHANGED Unstored
  PROVE  JobInv'
  <1>1. Goto(j, "status") /\ inst' = inst /\ pending' = pending
    BY Zenon DEF Fail
  <1>2. /\ inst[j] \in Counted /\ inst[j].exists /\ inst[j].result # "Succeeded"
        /\ inst = [inst EXCEPT ![j] = inst[j]] /\ pending = [pending EXCEPT ![j] = pending[j]]
        /\ pending[j] \in SUBSET Services
    BY Zenon, Midway
  <1>3. QED
    BY Zenon, <1>1, <1>2, LocalStep DEF Calling

\* An attempt knows which services to call.
LEMMA PlanStep ==
  ASSUME JobInv, NEW j \in Jobs, pc[j] = "target", UNCHANGED Unstored,
         NEW services \in SUBSET Services, NEW step \in {"node", "controller"},
         Plan(j, services, step),
         step = "controller" => services \subseteq {"controller"} /\ kind[j] = "ReclaimSpace",
         step = "node" /\ kind[j] = "KeyRotation" => services \subseteq {"node"}
  PROVE  JobInv'
  <1>1. Goto(j, step) /\ inst' = inst /\ pending' = [pending EXCEPT ![j] = services]
    BY Zenon DEF Plan
  <1>2. /\ inst[j] \in Counted /\ Open(inst[j]) /\ inst[j].exists /\ inst[j].result # "Succeeded"
        /\ inst = [inst EXCEPT ![j] = inst[j]]
    BY Zenon, Midway DEF Calling
  <1>3. QED
    BY Zenon, <1>1, <1>2, LocalStep

\* A service is called, and the next one is the controller's or none.
LEMMA CallStep ==
  ASSUME JobInv, NEW j \in Jobs, pc[j] \in Calling, UNCHANGED Unstored,
         NEW service, NEW answers, NEW next \in {"status", "controller"},
         Call(j, service, answers, next),
         next = "status" => pending[j] \subseteq {service},
         next = "controller" => pending[j] \subseteq {service, "controller"} /\ kind[j] = "ReclaimSpace"
  PROVE  JobInv'
  <1>0. /\ inst[j] \in Counted /\ Open(inst[j]) /\ inst[j].exists /\ inst[j].result # "Succeeded"
        /\ inst = [inst EXCEPT ![j] = inst[j]] /\ pending[j] \in SUBSET Services
    BY Zenon, Midway
  <1>1. CASE Fail(j)
    BY Zenon, <1>1, FailStep
  <1>2. CASE /\ pending' = [pending EXCEPT ![j] = @ \ {service}]
             /\ inst' = IF next = "status" THEN [inst EXCEPT ![j].result = "Succeeded"] ELSE inst
             /\ Goto(j, next)
    <2> DEFINE s == [inst[j] EXCEPT !.result = "Succeeded"]
    <2>1. pending' = [pending EXCEPT ![j] = pending[j] \ {service}] /\ pending[j] \ {service} \in SUBSET Services
      BY Zenon, <1>0, <1>2
    <2>2. CASE next = "status"
      <3>1. inst' = [inst EXCEPT ![j] = s]
        BY Zenon, <1>2, <2>2
      <3>2. /\ s \in Counted /\ s.result = "Succeeded" /\ s.exists
            /\ \A o : Attempted(inst[j], o) => Attempted(s, o)
        BY Zenon, <1>0, Succeeds
      <3>3. pending[j] \ {service} = {}
        BY Zenon, <2>2
      <3> HIDE DEF s
      <3>4. QED
        BY Zenon, <1>2, <2>1, <2>2, <3>1, <3>2, <3>3, LocalStep DEF Calling
    <2>3. CASE next = "controller"
      <3>1. inst' = [inst EXCEPT ![j] = inst[j]]
        BY Zenon, <1>0, <1>2, <2>3
      <3>2. pending[j] \ {service} \subseteq {"controller"} /\ kind[j] = "ReclaimSpace"
        BY Zenon, <2>3
      <3>3. QED
        BY Zenon, <1>0, <1>2, <2>1, <2>3, <3>1, <3>2, LocalStep DEF Calling
    <2>4. QED
      BY Zenon, <2>2, <2>3
  <1>3. QED
    BY Zenon, <1>1, <1>2 DEF Call

\* Reconcile returns, with or without having stored job o.
LEMMA ReturnStep ==
  ASSUME JobInv, NEW j \in Jobs, NEW requeue \in BOOLEAN, NEW o \in Counted, Return(j, requeue),
         \/ UNCHANGED stored /\ o = job[j]
         \/ Store(j, o, FALSE) /\ (~lowered[j] => Within(o)),
         UNCHANGED <<lowered, cache, pending, target, now, kind>>
  PROVE  JobInv'
  <1>0. TypeOK /\ Good(j)
    BY Zenon DEF JobInv
  <1>1. /\ pc'[j] = "idle" /\ inst'[j] = NoJob /\ cur'[j] = FALSE
        /\ lowered'[j] = lowered[j] /\ cache'[j] = cache[j]
    BY Zenon, <1>0 DEF Return, Goto, TypeOK
  <1>2. job'[j] = o /\ (cacheCur'[j] => cacheCur[j] /\ job'[j] = job[j])
    BY Zenon, <1>0 DEF TypeOK, Store, stored
  <1>3. TypeOK'
    <2>1. job' \in [Jobs -> JobObjects] /\ cacheCur' \in [Jobs -> BOOLEAN] /\ event' \in [Jobs -> BOOLEAN]
      <3>1. CASE UNCHANGED stored
        BY Zenon, <1>0, <3>1 DEF TypeOK, stored
      <3>2. CASE Store(j, o, FALSE)
        BY Zenon, <1>0, <3>2 DEF TypeOK, Store, Counted
      <3>3. QED
        BY Zenon, <3>1, <3>2
    <2>2. /\ pc' = [pc EXCEPT ![j] = "idle"] /\ inst' = [inst EXCEPT ![j] = NoJob]
          /\ cur' = [cur EXCEPT ![j] = FALSE] /\ queue' \subseteq Jobs
      BY Zenon, <1>0 DEF Return, Goto, TypeOK
    <2>3. NoJob \in JobObjects
      BY Zenon, NoJobCounted DEF Counted
    <2>4. QED
      BY Zenon, <1>0, <2>1, <2>2, <2>3 DEF TypeOK
  <1>4. ObjectInv(j)' /\ CopyInv(j)' /\ CurInv(j)' /\ (pc[j] # "idle" => inst[j].exists)'
    BY Zenon, <1>0, <1>1, <1>2, NoJobCounted DEF Good, ObjectInv, CopyInv, CurInv
  <1>5. RetryInv(j)'
    BY Zenon, <1>0, <1>1, <1>2 DEF Good, RetryInv
  <1>6. PlanInv(j)'
    <2>1. inst'[j].result # "Succeeded"
      BY Zenon, <1>1, NoJobCounted
    <2>2. QED
      BY Zenon, <1>1, <2>1 DEF PlanInv
  <1>7. \A k \in Jobs \ {j} : SameJob(k)
    BY <1>0 DEF TypeOK, Return, Goto, Store, stored, SameJob
  <1>8. QED
    BY Zenon, <1>3, <1>4, <1>5, <1>6, <1>7, OneJob DEF Good

\* The status is stored, or conflicts.
LEMMA StatusStep ==
  ASSUME JobInv, NEW j \in Jobs, UpdateStatus(j)
  PROVE  JobInv'
  <1>0. Good(j) /\ inst[j] \in Counted /\ job[j] \in Counted
    BY Zenon DEF JobInv, Good, ObjectInv
  <1>1. CASE cur[j] /\ Store(j, GiveUp(inst[j]), FALSE) /\ Return(j, GiveUp(inst[j]).result = "")
    <2>1. GiveUp(inst[j]) \in Counted
      BY Zenon, <1>0, Gives
    <2>2. ~lowered[j] => Within(GiveUp(inst[j]))
      BY Zenon, <1>0, <1>1, Gives DEF Good, RetryInv, CurInv
    <2>3. QED
      BY Zenon, <1>1, <2>1, <2>2, ReturnStep DEF UpdateStatus
  <1>2. CASE ~cur[j] /\ Return(j, TRUE) /\ UNCHANGED stored
    BY Zenon, <1>0, <1>2, ReturnStep DEF UpdateStatus
  <1>3. QED
    BY Zenon, <1>1, <1>2 DEF UpdateStatus
\* A reconcile of either kind takes a step.
LEMMA ReconcileStep ==
  ASSUME JobInv, NEW j \in Jobs, Reconcile(j)
  PROVE  JobInv'
  <1>1. CASE ReconcileReclaim(j) \/ ReconcileRotation(j)
    BY Zenon, <1>1, StartStep DEF ReconcileReclaim, ReconcileRotation, Work
  <1>2. CASE ReclaimTarget(j)
    <2>1. pc[j] = "target" /\ kind[j] = "ReclaimSpace" /\ UNCHANGED Unstored
      BY Zenon, <1>2 DEF ReclaimTarget, Work
    <2>2. CASE Fail(j)
      BY Zenon, <2>1, <2>2, FailStep DEF Calling
    <2>3. CASE Plan(j, {"controller"}, "controller")
      BY Zenon, <2>1, <2>3, PlanStep DEF Services
    <2>4. CASE Plan(j, {"node", "controller"}, "node")
      BY Zenon, <2>1, <2>4, PlanStep DEF Services
    <2>5. QED
      BY Zenon, <1>2, <2>2, <2>3, <2>4 DEF ReclaimTarget
  <1>3. CASE nodeReclaimSpace(j)
    <2>1. pc[j] \in Calling /\ kind[j] = "ReclaimSpace" /\ UNCHANGED Unstored
      BY Zenon, <1>3 DEF nodeReclaimSpace, Work, Calling
    <2>2. pending[j] \subseteq {"node", "controller"}
      BY Zenon, <2>1, Midway DEF Services
    <2>3. CASE Call(j, "node", NodeReclaimSpace, "controller")
      BY Zenon, <2>1, <2>2, <2>3, CallStep
    <2>4. CASE NoClient(j)
      BY Zenon, <2>1, <2>4, FailStep DEF NoClient
    <2>5. QED
      BY Zenon, <1>3, <2>3, <2>4 DEF nodeReclaimSpace
  <1>4. CASE controllerReclaimSpace(j)
    <2>1. pc[j] \in Calling /\ pc[j] = "controller" /\ UNCHANGED Unstored
      BY Zenon, <1>4 DEF controllerReclaimSpace, Work, Calling
    <2>2. pending[j] \subseteq {"controller"}
      BY Zenon, <2>1, Midway
    <2>3. CASE Call(j, "controller", ControllerReclaimSpace, "status")
      BY Zenon, <2>1, <2>2, <2>3, CallStep
    <2>4. CASE NoClient(j)
      BY Zenon, <2>1, <2>4, FailStep DEF NoClient
    <2>5. QED
      BY Zenon, <1>4, <2>3, <2>4 DEF controllerReclaimSpace
  <1>5. CASE RotationTarget(j)
    <2>1. pc[j] = "target" /\ UNCHANGED Unstored
      BY Zenon, <1>5 DEF RotationTarget, Work
    <2>2. CASE Fail(j)
      BY Zenon, <2>1, <2>2, FailStep DEF Calling
    <2>3. CASE Plan(j, {"node"}, "node")
      BY Zenon, <2>1, <2>3, PlanStep DEF Services
    <2>4. QED
      BY Zenon, <1>5, <2>2, <2>3 DEF RotationTarget
  <1>6. CASE rotateEncryptionKey(j)
    <2>1. pc[j] \in Calling /\ pc[j] = "node" /\ kind[j] = "KeyRotation" /\ UNCHANGED Unstored
      BY Zenon, <1>6 DEF rotateEncryptionKey, Work, Calling
    <2>2. pending[j] \subseteq {"node"}
      BY Zenon, <2>1, Midway
    <2>3. CASE Call(j, "node", EncryptionKeyRotate, "status")
      BY Zenon, <2>1, <2>2, <2>3, CallStep
    <2>4. CASE NoClient(j)
      BY Zenon, <2>1, <2>4, FailStep DEF NoClient
    <2>5. QED
      BY Zenon, <1>6, <2>3, <2>4 DEF rotateEncryptionKey
  <1>7. CASE ReclaimStatus(j) \/ RotationStatus(j)
    BY Zenon, <1>7, StatusStep DEF ReclaimStatus, RotationStatus
  <1>8. QED
    BY Zenon, <1>1, <1>2, <1>3, <1>4, <1>5, <1>6, <1>7 DEF Reconcile

\* A call of the API server fails.
LEMMA ApiErrorStep ==
  ASSUME JobInv, NEW j \in Jobs, ApiError(j)
  PROVE  JobInv'
  <1>1. CASE pc[j] = "target" /\ Fail(j) /\ UNCHANGED <<cur, queue>>
    BY Zenon, <1>1, FailStep DEF ApiError, Calling, Unstored
  <1>2. CASE Return(j, TRUE) /\ UNCHANGED pending
    <2>1. job[j] \in Counted
      BY Zenon DEF JobInv, Good, ObjectInv
    <2>2. QED
      BY Zenon, <1>2, <2>1, ReturnStep DEF ApiError
  <1>3. QED
    BY Zenon, <1>1, <1>2 DEF ApiError

\* The manager restarts, or something happens that is not about a job.
LEMMA RestStep ==
  ASSUME JobInv, Crash \/ Retarget \/ Tick \/ UNCHANGED vars
  PROVE  JobInv'
  <1>0. TypeOK /\ \A k \in Jobs : Good(k)
    BY Zenon DEF JobInv
  <1>1. CASE Crash
    <2>1. NoJob \in JobObjects
      BY Zenon, NoJobCounted DEF Counted
    <2>2. TypeOK'
      BY Zenon, <1>0, <1>1, <2>1 DEF TypeOK, Crash
    <2>3. ASSUME NEW k \in Jobs PROVE Good(k)'
      <3>1. /\ pc'[k] = "idle" /\ inst'[k] = NoJob /\ cur'[k] = FALSE /\ cache'[k] = job[k]
            /\ job'[k] = job[k] /\ lowered'[k] = lowered[k]
        BY Zenon, <1>1 DEF Crash
      <3>2. ObjectInv(k)' /\ CopyInv(k)' /\ CurInv(k)' /\ RetryInv(k)' /\ (pc[k] # "idle" => inst[k].exists)'
        BY Zenon, <1>0, <3>1, NoJobCounted DEF Good, ObjectInv, CopyInv, CurInv, RetryInv
      <3>3. inst'[k].result # "Succeeded"
        BY Zenon, <3>1, NoJobCounted
      <3>4. PlanInv(k)'
        BY Zenon, <3>1, <3>3 DEF PlanInv
      <3>5. QED
        BY Zenon, <3>2, <3>4 DEF Good
    <2>4. QED
      BY Zenon, <2>2, <2>3 DEF JobInv
  <1>2. CASE Retarget \/ Tick \/ UNCHANGED vars
    <2>1. /\ UNCHANGED <<job, event, cacheCur, lowered, cache, queue, pc, inst, cur, pending, kind>>
          /\ target' \in Targets
      BY Zenon, <1>0, <1>2 DEF Retarget, Tick, vars, stored, locals, TypeOK
    <2>2. now' \in 0..MaxTime
      BY <1>0, <1>2, JobAssumption DEF Retarget, Tick, vars, TypeOK
    <2>3. TypeOK'
      BY Zenon, <1>0, <2>1, <2>2 DEF TypeOK
    <2>4. \A k \in Jobs : SameJob(k)
      BY Zenon, <2>1 DEF SameJob
    <2>5. QED
      BY Zenon, <1>0, <2>3, <2>4, Same DEF JobInv
  <1>3. QED
    BY Zenon, <1>1, <1>2

\* The invariant holds throughout.
LEMMA JobInvariant == Spec => []JobInv
  <1>1. Init => JobInv
    <2>. SUFFICES ASSUME Init PROVE JobInv
      BY Zenon
    <2>1. NoJob \in JobObjects /\ NoJob \in Counted
      BY Zenon, NoJobCounted DEF Counted
    <2>2. ASSUME NEW o \in NewJobs PROVE o \in Counted /\ Within(o)
      <3>1. o \in JobObjects /\ o.retries = 0 /\ ~o.start /\ Open(o)
        BY Zenon DEF NewJobs, Open
      <3>2. 0 <= MaxRetries
        BY JobAssumption
      <3>3. QED
        BY Zenon, <3>1, <3>2 DEF Counted, Within
    <2>3. job \in [Jobs -> NewJobs]
      BY Zenon DEF Init
    <2>4. job \in [Jobs -> JobObjects]
      BY Zenon, <2>3 DEF NewJobs
    <2>5. 0 \in 0..MaxTime
      BY JobAssumption
    <2>6. /\ cache = job /\ kind \in [Jobs -> Kinds] /\ lowered = [j \in Jobs |-> FALSE]
          /\ cacheCur = [j \in Jobs |-> TRUE] /\ event = [j \in Jobs |-> FALSE] /\ queue = Jobs
          /\ pc = [j \in Jobs |-> "idle"] /\ inst = [j \in Jobs |-> NoJob]
          /\ cur = [j \in Jobs |-> FALSE] /\ target \in Targets
          /\ pending = [j \in Jobs |-> {}] /\ now = 0
      BY Zenon DEF Init
    <2>7. TypeOK
      BY Zenon, <2>1, <2>4, <2>5, <2>6 DEF TypeOK
    <2>8. ASSUME NEW j \in Jobs PROVE Good(j)
      <3>1. job[j] \in Counted /\ Within(job[j])
        BY Zenon, <2>2, <2>3
      <3>2. QED
        BY Zenon, <2>1, <2>6, <3>1, NoJobCounted
        DEF Good, ObjectInv, CopyInv, CurInv, RetryInv, PlanInv
    <2>9. QED
      BY Zenon, <2>7, <2>8 DEF JobInv
  <1>2. JobInv /\ [Next]_vars => JobInv'
    BY Zenon, UserStep, SyncStep, ReconcileStep, ApiErrorStep, RestStep DEF Next
  <1>3. QED
    BY <1>1, <1>2, PTL DEF Spec
-----------------------------------------------------------------------------
(* What follows from it.                                                   *)

\* Jobs, copies and instances are well formed throughout (the types of both kinds
\* of job), and a reconcile under way is about a job that was there.
THEOREM TypeCorrect == Spec => []TypeOK
  BY JobInvariant, PTL DEF JobInv

\* A job whose limit nobody lowers is never retried more often than its limit
\* says, whatever is lost, repeated or interrupted (Reconcile, the comparison of
\* Retries with BackoffLimit).
THEOREM RetriesBounded == Spec => []RetriesWithinLimit
  <1>1. JobInv => RetriesWithinLimit
    <2>. SUFFICES ASSUME JobInv, NEW j \in Jobs, ~lowered[j] PROVE ~(job[j].retries > Limit(job[j]))
      BY Zenon DEF JobInv, TypeOK, RetriesWithinLimit
    <2>1. Within(job[j]) /\ job[j] \in Counted
      BY Zenon DEF JobInv, Good, RetryInv, ObjectInv
    <2>2. job[j].retries \in Nat /\ Limit(job[j]) \in Nat
      BY Zenon, <2>1, Numbers
    <2>3. QED
      BY <2>1, <2>2 DEF Within
  <1>2. QED
    BY <1>1, JobInvariant, PTL

\* A step changes nothing that is stored of a job, or it is a user's edit or
\* deletion of it, or the end of a reconcile that read the job as it is stored.
LEMMA Writes ==
  ASSUME JobInv, [Next]_vars
  PROVE  \/ job' = job
         \/ \E j \in Jobs : EditLimit(j) \/ DeleteJob(j)
         \/ \E j \in Jobs : /\ cur[j] /\ job' = [job EXCEPT ![j] = GiveUp(inst[j])]
                            /\ pending' = pending
  <1>1. CASE Crash \/ Retarget \/ Tick \/ UNCHANGED vars
    BY Zenon, <1>1 DEF Crash, Retarget, Tick, vars, stored
  <1>2. ASSUME NEW j \in Jobs, Sync(j) \/ ApiError(j) PROVE job' = job
    BY Zenon, <1>2 DEF Sync, ApiError, stored
  <1>3. ASSUME NEW j \in Jobs, Reconcile(j)
        PROVE  \/ job' = job
               \/ cur[j] /\ job' = [job EXCEPT ![j] = GiveUp(inst[j])] /\ pending' = pending
    BY Zenon, <1>3
    DEF Reconcile, ReconcileReclaim, ReconcileRotation, ReconcileStart, ReclaimTarget,
       nodeReclaimSpace, controllerReclaimSpace, RotationTarget, rotateEncryptionKey,
       ReclaimStatus, RotationStatus, UpdateStatus, Unstored, stored, Store
  <1>4. QED
    BY Zenon, <1>1, <1>2, <1>3 DEF Next
\* What a user's step leaves of a job.
LEMMA UserWrites ==
  ASSUME JobInv, NEW j \in Jobs, EditLimit(j) \/ DeleteJob(j)
  PROVE  \E o \in Counted :
           /\ job' = [job EXCEPT ![j] = o]
           /\ \/ ~o.exists /\ o.result = "" /\ job[j].exists
              \/ /\ o.exists = job[j].exists /\ o.start = job[j].start
                 /\ o.retries = job[j].retries /\ o.result = job[j].result
  <1>0. job[j] \in Counted /\ job[j] \in JobObjects
    BY Zenon, Numbers DEF JobInv, Good, ObjectInv
  <1>1. CASE EditLimit(j)
    <2>1. PICK l \in Limits : job' = [job EXCEPT ![j] = [job[j] EXCEPT !.limit = l]]
      BY Zenon, <1>1 DEF EditLimit, Store
    <2>2. LET p == [job[j] EXCEPT !.limit = l] IN
          /\ p \in Counted /\ p.exists = job[j].exists /\ p.start = job[j].start
          /\ p.retries = job[j].retries /\ p.result = job[j].result
      BY <1>0, LimitEdits, Updates
    <2>3. QED
      BY Zenon, <2>1, <2>2
  <1>2. CASE DeleteJob(j)
    <2>1. CASE job' = [job EXCEPT ![j] = NoJob]
      <3>1. ~NoJob.exists /\ NoJob.result = ""
        BY Zenon DEF NoJob
      <3>2. QED
        BY Zenon, <1>2, <2>1, <3>1, NoJobCounted DEF DeleteJob
    <2>2. CASE job' = [job EXCEPT ![j] = [job[j] EXCEPT !.deleting = TRUE]]
      <3>1. LET p == [job[j] EXCEPT !.deleting = TRUE] IN
            /\ p \in Counted /\ p.exists = job[j].exists /\ p.start = job[j].start
            /\ p.retries = job[j].retries /\ p.result = job[j].result
        BY Zenon, <1>0, Deletions, Updates
      <3>2. QED
        BY Zenon, <2>2, <3>1
    <2>3. QED
      BY Zenon, <1>2, <2>1, <2>2 DEF DeleteJob, Store
  <1>3. QED
    BY Zenon, <1>1, <1>2

\* What the end of a reconcile stores of a job.
LEMMA StatusWrites ==
  ASSUME JobInv, NEW j \in Jobs, cur[j]
  PROVE  /\ job[j].result = "" /\ job[j].exists
         /\ GiveUp(inst[j]).exists
         /\ GiveUp(inst[j]).result \in Results \cup {""}
         /\ GiveUp(inst[j]).result = "" => GiveUp(inst[j]).start
         /\ GiveUp(inst[j]).result = "Succeeded" => pending[j] = {}
  <1>1. Good(j) /\ inst[j] \in Counted
    BY Zenon DEF JobInv, Good, ObjectInv
  <1>2. ~Ignored(job[j]) /\ Attempted(inst[j], job[j])
    BY Zenon, <1>1 DEF Good, CurInv
  <1>3. /\ GiveUp(inst[j]) \in JobObjects
        /\ GiveUp(inst[j]).exists = inst[j].exists /\ GiveUp(inst[j]).start = inst[j].start
        /\ GiveUp(inst[j]).result = "" => inst[j].result = ""
        /\ GiveUp(inst[j]).result = "Succeeded" => inst[j].result = "Succeeded"
    BY Zenon, <1>1, Gives, Numbers
  <1>4. job[j].result = "" /\ job[j].exists
    BY Zenon, <1>2 DEF Ignored
  <1>5. GiveUp(inst[j]).result \in Results \cup {""}
    BY Zenon, <1>3 DEF JobObjects
  <1>6. inst[j].exists /\ (inst[j].start \/ inst[j].result = "Failed")
    BY Zenon, <1>2 DEF Attempted
  <1>7. inst[j].result = "Succeeded" => pending[j] = {}
    BY Zenon, <1>1 DEF Good, PlanInv
  <1>8. GiveUp(inst[j]).result = "" => GiveUp(inst[j]).start
    BY Zenon, <1>3, <1>6
  <1>9. QED
    BY Zenon, <1>3, <1>4, <1>5, <1>6, <1>7, <1>8

\* A result is the last thing a job says: an attempt that works with an older copy
\* of it cannot report another one (Reconcile, Status().Update).
THEOREM FinalResult == Spec => ResultIsFinal
  <1>1. JobInv /\ [Next]_vars =>
          [\A j \in Jobs : job[j].result # "" /\ job'[j].exists =>
             /\ job'[j].result = job[j].result
             /\ job'[j].retries = job[j].retries]_vars
    <2>. SUFFICES ASSUME JobInv, [Next]_vars, NEW k \in Jobs, job[k].result # "", job'[k].exists
                  PROVE  job'[k].result = job[k].result /\ job'[k].retries = job[k].retries
      BY Zenon
    <2>0. job \in [Jobs -> JobObjects]
      BY Zenon DEF JobInv, TypeOK
    <2>1. ASSUME NEW j \in Jobs, EditLimit(j) \/ DeleteJob(j)
          PROVE  job'[k].result = job[k].result /\ job'[k].retries = job[k].retries
      BY Zenon, <2>0, <2>1, UserWrites
    <2>2. ASSUME NEW j \in Jobs, cur[j], job' = [job EXCEPT ![j] = GiveUp(inst[j])]
          PROVE  job'[k].result = job[k].result /\ job'[k].retries = job[k].retries
      BY Zenon, <2>0, <2>2, StatusWrites
    <2>3. QED
      BY Zenon, <2>1, <2>2, Writes
  <1>2. QED
    BY <1>1, JobInvariant, PTL DEF Spec, ResultIsFinal

\* A job is reported as succeeded only by an attempt for which no service is left
\* to be heard from (reconcile, nodeReclaimSpace, controllerReclaimSpace,
\* rotateEncryptionKey).
THEOREM TrueSuccess == Spec => SucceedsOnlyWhenDone
  <1>1. JobInv /\ [Next]_vars =>
          [\A j \in Jobs : job'[j].result = "Succeeded" /\ job[j].result = "" => pending[j] = {}]_vars
    <2>. SUFFICES ASSUME JobInv, [Next]_vars, NEW k \in Jobs,
                         job'[k].result = "Succeeded", job[k].result = ""
                  PROVE  pending[k] = {}
      BY Zenon
    <2>0. job \in [Jobs -> JobObjects]
      BY Zenon DEF JobInv, TypeOK
    <2>1. ASSUME NEW j \in Jobs, EditLimit(j) \/ DeleteJob(j) PROVE FALSE
      BY Zenon, <2>0, <2>1, UserWrites
    <2>2. ASSUME NEW j \in Jobs, cur[j], job' = [job EXCEPT ![j] = GiveUp(inst[j])]
          PROVE  pending[k] = {}
      BY Zenon, <2>0, <2>2, StatusWrites
    <2>3. QED
      BY Zenon, <2>1, <2>2, Writes
  <1>2. QED
    BY <1>1, JobInvariant, PTL DEF Spec, SucceedsOnlyWhenDone

\* Both controllers implement JobLifecycle: what cron jobs and users see of a job
\* goes from waiting over running to one result.
THEOREM Refinement == Spec => ImplementsLifecycle
  <1>1. Init => Lifecycle!Init
    <2>. SUFFICES ASSUME Init PROVE Lifecycle!Init
      OBVIOUS
    <2>1. \A j \in Jobs : job[j].exists /\ job[j].result = "" /\ ~job[j].start
      BY Zenon DEF Init, NewJobs
    <2>2. QED
      BY Zenon, <2>1 DEF Lifecycle!Init, phase
  <1>2. JobInv /\ [Next]_vars => [Lifecycle!Next]_phase
    <2>. SUFFICES ASSUME JobInv, [Next]_vars PROVE [Lifecycle!Next]_phase
      BY Zenon
    <2>0. job \in [Jobs -> JobObjects]
      BY Zenon DEF JobInv, TypeOK
    <2>1. CASE job' = job
      BY Zenon, <2>1 DEF phase
    <2> DEFINE Seen(o) == IF ~o.exists THEN "gone"
                          ELSE IF o.result # "" THEN o.result
                          ELSE IF o.start THEN "running" ELSE "waiting"
    <2>2. ASSUME NEW j \in Jobs, NEW o, job' = [job EXCEPT ![j] = o]
          PROVE  phase' = [phase EXCEPT ![j] = Seen(o)] /\ phase[j] = Seen(job[j])
      BY Zenon, <2>0, <2>2 DEF phase
    <2>3. phase \in [Jobs -> {Seen(job[j]) : j \in Jobs}]
      BY Zenon DEF phase
    <2>4. ASSUME NEW j \in Jobs, EditLimit(j) \/ DeleteJob(j) PROVE [Lifecycle!Next]_phase
      <3>1. PICK o \in Counted :
              /\ job' = [job EXCEPT ![j] = o]
              /\ \/ ~o.exists /\ o.result = "" /\ job[j].exists
                 \/ /\ o.exists = job[j].exists /\ o.start = job[j].start
                    /\ o.retries = job[j].retries /\ o.result = job[j].result
        BY Zenon, <2>4, UserWrites
      <3>2. phase' = [phase EXCEPT ![j] = Seen(o)] /\ phase[j] = Seen(job[j])
        BY Zenon, <2>2, <3>1
      <3>3. CASE ~o.exists /\ job[j].exists
        <4>1. Seen(o) = "gone" /\ job[j].result \in Results \cup {""}
          BY Zenon, <2>0, <3>3 DEF JobObjects
        <4>2. Seen(job[j]) # "gone"
          BY Zenon, <3>3, <4>1 DEF Results
        <4>3. QED
          BY Zenon, <3>2, <4>1, <4>2 DEF Lifecycle!Next, Lifecycle!Remove
      <3>4. CASE o.exists = job[j].exists /\ o.start = job[j].start /\ o.result = job[j].result
        <4>1. Seen(o) = phase[j]
          BY Zenon, <3>2, <3>4
        <4>2. phase' = phase
          BY Zenon, <2>3, <3>2, <4>1
        <4>3. QED
          BY Zenon, <4>2
      <3>5. QED
        BY Zenon, <3>1, <3>3, <3>4
    <2>5. ASSUME NEW j \in Jobs, cur[j], job' = [job EXCEPT ![j] = GiveUp(inst[j])]
          PROVE  [Lifecycle!Next]_phase
      <3> DEFINE o == GiveUp(inst[j])
      <3>1. /\ job[j].result = "" /\ job[j].exists /\ o.exists
            /\ o.result \in Results \cup {""} /\ (o.result = "" => o.start)
        BY Zenon, <2>5, StatusWrites
      <3>2. phase' = [phase EXCEPT ![j] = Seen(o)] /\ phase[j] = Seen(job[j])
        BY Zenon, <2>2, <2>5
      <3> HIDE DEF o
      <3>3. phase[j] \in {"waiting", "running"}
        BY Zenon, <3>1, <3>2
      <3>4. CASE o.result # ""
        <4>1. Seen(o) = o.result /\ o.result \in Lifecycle!Results
          BY Zenon, <3>1, <3>4 DEF Results, Lifecycle!Results
        <4>2. QED
          BY Zenon, <3>2, <3>3, <4>1 DEF Lifecycle!Next, Lifecycle!Complete
      <3>5. CASE o.result = ""
        <4>1. Seen(o) = "running"
          BY Zenon, <3>1, <3>5
        <4>2. CASE phase[j] = "running"
          BY Zenon, <2>3, <3>2, <4>1, <4>2
        <4>3. CASE phase[j] = "waiting"
          BY Zenon, <3>2, <4>1, <4>3 DEF Lifecycle!Next, Lifecycle!Begin
        <4>4. QED
          BY Zenon, <3>3, <4>2, <4>3
      <3>6. QED
        BY Zenon, <3>4, <3>5
    <2>6. QED
      BY Zenon, <2>1, <2>4, <2>5, Writes
  <1>3. QED
    BY <1>1, <1>2, JobInvariant, PTL DEF Spec, ImplementsLifecycle, Lifecycle!Spec
=============================================================================
