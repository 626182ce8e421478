----------------------- MODULE ReplicationLifecycle -----------------------
(***************************************************************************)
(* What the VolumeReplication controller promises about the volume behind  *)
(* a claim, without its reconciles, caches and retries: replication is     *)
(* switched on, switched over and switched off only on behalf of a VR that *)
(* holds the volume (one that carries the controller's finalizer), and the *)
(* last holder does not let go of a volume that is still replicated.       *)
(***************************************************************************)
CONSTANT VRs

VARIABLES holders,   \* the VRs that hold the volume
          enabled,   \* replication of the volume is enabled
          role       \* its role

vars == <<holders, enabled, role>>

Roles == {"none", "primary", "secondary"}

Init == holders = {} /\ enabled = FALSE /\ role = "none"

Acquire(v) ==
  /\ v \notin holders
  /\ holders' = holders \cup {v}
  /\ UNCHANGED <<enabled, role>>

Enable ==
  /\ holders # {}
  /\ enabled' = TRUE
  /\ UNCHANGED <<holders, role>>

Switch(r) ==
  /\ holders # {}
  /\ role' = r
  /\ UNCHANGED <<holders, enabled>>

Disable ==
  /\ enabled' = FALSE
  /\ role' = "none"
  /\ UNCHANGED holders

Release(v) ==
  /\ v \in holders
  /\ enabled => holders # {v}
  /\ holders' = holders \ {v}
  /\ UNCHANGED <<enabled, role>>

Next ==
  \/ \E v \in VRs : Acquire(v) \/ Release(v)
  \/ Enable
  \/ \E r \in {"primary", "secondary"} : Switch(r)
  \/ Disable

Spec == Init /\ [][Next]_vars
=============================================================================
