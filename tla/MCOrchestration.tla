-------------------------- MODULE MCOrchestration --------------------------
(* A small instance: a flow and a workflow of a node with two dependencies. *)
EXTENDS Orchestration, TLC

CONSTANTS i1, i2, i3, i4, a, b, c, p1, p2, s1, s2, t1, t2, t3, x, y

MCIds    == {i1, i2, i3, i4}
MCNodes  == {a, b, c}
MCDeps   == (a :> {}) @@ (b :> {}) @@ (c :> {a, b})
MCChunks == <<2, 1>>
MCKnown  == (p1 :> {s1, s2}) @@ (p2 :> {s1})
MCDurables == {{s1, s2}, {s1}}
MCScenes == {"keys", "batch", "flow", "workflow", "schedule", "bulk", "plugins"}
MCThrows == [s \in Scenes |-> CASE s = "keys" -> 0 [] s = "batch" -> 3 [] OTHER -> 2]
MCBulks  == [1..4 -> {x, y}]
MCNeeds  == (t1 :> {}) @@ (t2 :> {}) @@ (t3 :> {t1})
MCSymmetry == Permutations(MCIds)
=============================================================================
