------------------------------ MODULE TaskGraph ------------------------------
(* A graph of nodes that depend on nodes: dispatchFlow's input and the      *)
(* workflow package's dependsOn lists.                                      *)
EXTENDS Integers, FiniteSets

CONSTANTS
  Nodes,
  Deps     \* Deps[n]: the nodes n depends on

ASSUME GraphOK == IsFiniteSet(Nodes) /\ Deps \in [Nodes -> SUBSET Nodes]

Roots       == {n \in Nodes : Deps[n] = {}}
Children(n) == {m \in Nodes : n \in Deps[m]}

(* The nodes of S and everything below them: in every set that has S and    *)
(* the children of its members.                                             *)
Descendants(S) ==
  {n \in Nodes : \A C \in SUBSET Nodes :
     S \subseteq C /\ UNION {Children(m) : m \in C} \subseteq C => n \in C}
=============================================================================
