------------------------- MODULE MCConditionReporter -------------------------
(* Small instances of ConditionReporter.                                   *)
EXTENDS ConditionReporter

MCVolumes == {"v1"}

\* Two healthy conditions that differ in the message, and an abnormal one.
MCConditions == {[healthy |-> TRUE, message |-> "fine"], [healthy |-> TRUE, message |-> "slow"],
                 [healthy |-> FALSE, message |-> "slow"]}
==============================================================================
