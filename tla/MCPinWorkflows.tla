--------------------------- MODULE MCPinWorkflows ---------------------------
(* PinWorkflows on a DAG of a directory and two leaves.                     *)
EXTENDS PinWorkflows, TLC

CONSTANTS dir, leaf1, leaf2

MCChildren == dir :> {leaf1, leaf2} @@ leaf1 :> {} @@ leaf2 :> {}
MCEarlier  == <<dir, dir>>

Symmetry == Permutations(Calls) \union Permutations(Jobs) \union Permutations(Users)
            \union Permutations({leaf1, leaf2})
=============================================================================
