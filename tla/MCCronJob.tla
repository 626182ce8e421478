----------------------------- MODULE MCCronJob -----------------------------
(* Small instances of CronJob.                                             *)
EXTENDS CronJob

MCDue == {1, 2}

CronJobOf(kind, policy, deadline, limit) ==
  [kind |-> kind, exists |-> TRUE, suspend |-> FALSE, policy |-> policy,
   deadline |-> deadline, limit |-> [r \in Job!Results |-> limit]]

\* With and without a deadline, which only few reconciles are late for.
Forbidding == {CronJobOf("ReclaimSpace", "Forbid", 1, 1),
               CronJobOf("KeyRotation", "Forbid", Horizon, 1)}

Replacing == {CronJobOf("ReclaimSpace", "Replace", Horizon, 1)}

Forgetting == {CronJobOf("ReclaimSpace", "Forbid", Horizon, 0)}
=============================================================================
