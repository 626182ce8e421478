-------------------------- MODULE MCNetworkFencing --------------------------
(* Small instances of NetworkFencing.                                      *)
EXTENDS NetworkFencing

MCClasses == {"c1"}
MCNodes == {"n1", "n2"}

NoNodes == [n \in Nodes |-> NoNode]
Only(c) == [[d \in Classes |-> NoClass] EXCEPT ![c] = NewClass]
AFence(classed) == [NoFence EXCEPT !.here = TRUE, !.classed = classed]

\* A fence with a class and one without.
Fenced == {[fence |-> AFence(TRUE), class |-> Only("c1"), node |-> NoNodes,
            kinds |-> {"fence", "unfence", "spec", "class"}],
           [fence |-> AFence(FALSE), class |-> [c \in Classes |-> NoClass], node |-> NoNodes,
            kinds |-> {"fence", "unfence", "spec"}]}

\* A class, a node that can tell its clients, and one that cannot.
Listed == {[fence |-> NoFence, class |-> Only("c1"),
            node |-> [n \in Nodes |-> NewNode(n = "n1")], kinds |-> {"class", "node"}]}

MCInitial == Fenced \cup Listed
=============================================================================
