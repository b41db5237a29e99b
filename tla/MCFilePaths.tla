---------------------------- MODULE MCFilePaths -----------------------------
(***************************************************************************)
(* Directory d holds f and t, and t holds f too; directory e holds f, g    *)
(* and u; the name of g is too long, u has no UnixFS node; file f has the  *)
(* chunk k, which has no name.  The CAR file of d may spell its root in     *)
(* version 0, d0.                                                           *)
(***************************************************************************)
EXTENDS FilePaths

Node(name, dir, size, kids) ==
    [unixfs |-> TRUE, name |-> name, dir |-> dir, size |-> size, children |-> kids, raw |-> IF kids = <<>> THEN size ELSE 1]

MCMeta == [c \in Cids |->
    CASE c = "d" -> Node("", TRUE, 0, <<"f", "t">>)
      [] c = "t" -> Node("t", TRUE, 0, <<"f">>)
      [] c = "e" -> Node("", TRUE, 0, <<"f", "g", "u">>)
      [] c = "f" -> Node("f", FALSE, 3, <<"k">>)
      [] c = "g" -> Node("g", FALSE, 2, <<>>)
      [] c = "k" -> Node("", FALSE, 3, <<>>)
      [] c = "d0" -> [unixfs |-> FALSE, name |-> "", dir |-> FALSE, size |-> 0, children |-> <<"f", "t">>, raw |-> 1]
      [] OTHER -> [unixfs |-> FALSE, name |-> "", dir |-> FALSE, size |-> 0, children |-> <<>>, raw |-> 2]]

MCNormalizeCid == [c \in Cids |-> IF c = "d0" THEN "d" ELSE c]

MCTasks == [r \in Requests |->
    CASE r = 1 -> [cid : {"d"}, kind : {"retrieve"}]
      [] r = 2 -> [cid : {"d", "d0", "e"}, kind : {"upload"}]
      [] OTHER -> [cid : {"f", "g"}, kind : {"upload"}]]

MCFailing == {<<"meta", "d">>, <<"create", "d">>, <<"create", "f">>, <<"child", "t">>, <<"update", "d">>, <<"orphan", "u">>}
=============================================================================
