------------------------------ MODULE MCBlocks ------------------------------
(* Blocks on a directory that links to a file, twice, and to a directory    *)
(* with the same file: the first is uploaded or retrieved while the other   *)
(* is uploaded.                                                             *)
EXTENDS Blocks, TLC

CONSTANTS d1, d2, f, j1, j2

MCLinks == d1 :> <<[cid |-> f, name |-> "a"], [cid |-> d2, name |-> "c"], [cid |-> f, name |-> "d"]>>
        @@ d2 :> <<[cid |-> f, name |-> "b"]>>
        @@ f :> <<>>

MCTasks == j1 :> [kind : {"upload", "retrieve"}, root : {d1}] @@ j2 :> [kind : {"upload"}, root : {d2}]
=============================================================================
