-------------------------- MODULE MCClaimSchedule --------------------------
(* Small instances of ClaimSchedule.                                       *)
EXTENDS ClaimSchedule

MCSchedules == {"@daily"}

Nowhere == [op \in Ops |-> "none"]
Only(op, value) == [Nowhere EXCEPT ![op] = value]

Config(m, v, phase, onClaim, onNamespace, onClass, able) ==
  [mode |-> m, volume |-> v,
   claim |-> [phase |-> phase, off |-> FALSE, news |-> FALSE,
             sched |-> onClaim, name |-> Nowhere],
   namespace |-> [off |-> FALSE, sched |-> onNamespace],
   class |-> [exists |-> TRUE, off |-> FALSE, sched |-> onClass],
   capable |-> able]

\* Each source of a schedule, with either controller.
MCInitial ==
  {Config("pvc", "csi", "Bound", Only("reclaimspace", "@daily"), Nowhere, Nowhere, {}),
   Config("pvc", "csi", "Pending", Nowhere, Nowhere, Only("keyrotation", "@daily"), {}),
   Config("pvc", "static", "Bound", Nowhere, Only("reclaimspace", "@daily"), Nowhere, Ops),
   Config("storageclass", "csi", "Bound", Nowhere, Nowhere, Only("reclaimspace", "@daily"), {}),
   Config("storageclass", "csi", "Bound", Only("keyrotation", "invalid"), Nowhere,
          Only("keyrotation", "@daily"), {}),
   Config("storageclass", "csi", "Pending", Nowhere, Nowhere, Only("keyrotation", "@daily"), {}),
   Config("storageclass", "other", "Bound", Nowhere, Nowhere, Only("keyrotation", "@daily"), {})}

OnClaim == {Config("pvc", "csi", "Bound", Only("reclaimspace", "@daily"), Nowhere, Nowhere, {})}
=============================================================================
