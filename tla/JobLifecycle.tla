---------------------------- MODULE JobLifecycle ----------------------------
(***************************************************************************)
(* What a ReclaimSpaceJob or an EncryptionKeyRotationJob promises to those *)
(* who watch its status: it waits, runs, and comes to one result, which is *)
(* the last thing it ever says.  A cron job decides by this alone.         *)
(***************************************************************************)
CONSTANT Jobs

VARIABLE phase    \* of every job

Results == {"Succeeded", "Failed"}
Phases == {"waiting", "running", "gone"} \cup Results

Init == phase = [j \in Jobs |-> "waiting"]

Begin(j) ==
  /\ phase[j] = "waiting"
  /\ phase' = [phase EXCEPT ![j] = "running"]

\* The first attempt may be the last: its start is stored with its result.
Complete(j, result) ==
  /\ phase[j] \in {"waiting", "running"}
  /\ phase' = [phase EXCEPT ![j] = result]

Remove(j) ==
  /\ phase[j] # "gone"
  /\ phase' = [phase EXCEPT ![j] = "gone"]

Next ==
  \E j \in Jobs :
    \/ Begin(j)
    \/ \E result \in Results : Complete(j, result)
    \/ Remove(j)

Spec == Init /\ [][Next]_phase
=============================================================================
