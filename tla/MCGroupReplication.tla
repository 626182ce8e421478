------------------------- MODULE MCGroupReplication -------------------------
(* Small instances of GroupReplication.                                    *)
EXTENDS GroupReplication

MCClaims == {"p", "q"}

Unbound == NewClaim
Bound == [NewClaim EXCEPT !.bound = TRUE]
Other == [Bound EXCEPT !.owner = "other"]

\* A start with claims p and q, a limit, the edits and how many of them and of faults.
Start(p, q, max, kinds, e, f) ==
  [pvc |-> [c \in Claims |-> IF c = "p" THEN p ELSE q], max |-> max,
   kinds |-> kinds, edits |-> e, faults |-> f]

MCInitial ==
  {Start(Bound, NoClaim, 2, {"delete"}, 1, 1),                 \* faults
   Start(Bound, NoClaim, 2, {"delete", "content", "vr"}, 2, 0),  \* dependents that are deleted
   Start(Bound, NoClaim, 2, {"state", "label"}, 2, 0),           \* members and roles that change
   Start(Unbound, Bound, 2, {"claim"}, 1, 0),                  \* claims that come and go
   Start(Bound, Bound, 1, {"label"}, 1, 0),                    \* too many of them
   Start(Other, NoClaim, 2, {"delete"}, 1, 0)}                   \* one of another group

\* A group that is created and deleted, and nothing else.
OneDeletion == {Start(Bound, NoClaim, 2, {"delete"}, 1, 0)}
=============================================================================
