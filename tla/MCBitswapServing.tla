------------------------- MODULE MCBitswapServing --------------------------
(* A limited peer with two connections, one of them without a usable       *)
(* address, and a gateway peer without one; a block that only its uploader  *)
(* has pinned, and one that another account has pinned too.                 *)
EXTENDS BitswapServing, TLC

Conn(p, ip, i) == [peer |-> p, ip |-> ip, n |-> i]

MCConns == {Conn("p1", "x", 1), Conn("p1", "none", 2), Conn("gw", "none", 3)}

MCUploader == [c \in Cids |-> IF c = "c1" THEN "a" ELSE "b"]
MCPinners == [c \in Cids |-> IF c = "c1" THEN {"a"} ELSE {"a", "b"}]

Symmetry == Permutations(Workers)
=============================================================================
