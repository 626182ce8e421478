-------------------------- MODULE MCCSIAddonsNode --------------------------
(* Small instances of CSIAddonsNode.                                       *)
EXTENDS CSIAddonsNode

CONSTANTS n1, p1, p2, r1

OneNode == {n1}
OnePod == {p1}
TwoPods == {p1, p2}
OneReader == {r1}
ThreeConns == 1..3
FourConns == 1..4

\* All pods follow each other on one node.
Successors == [p \in Pods |-> n1]
=============================================================================
