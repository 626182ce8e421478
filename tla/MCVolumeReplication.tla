------------------------ MODULE MCVolumeReplication ------------------------
(* Instances of VolumeReplication for TLC: one VR with every fault, or two  *)
(* VRs that name the same claim.                                            *)
EXTENDS VolumeReplication, TLC

CONSTANTS v1, v2

OneVR == {v1}
TwoVRs == {v1, v2}
=============================================================================
