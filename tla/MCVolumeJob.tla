---------------------------- MODULE MCVolumeJob ----------------------------
(* Small instances of VolumeJob.                                           *)
EXTENDS VolumeJob

CONSTANT j1
=============================================================================
