------------------------------ MODULE MCMount -------------------------------
(* Two cards, mounted up to twice; a directory that holds a file of its own *)
(* name, and a file with the name of a partition.  The paths: every         *)
(* beginning there is, with every sequence of up to three tokens behind it. *)
EXTENDS Mount

PartitionNames == <<"p0", "p1", "p2", "p3">>
TwoCards == {<<"fat", "damaged", "ext2", "empty">>, <<"other", "empty", "fat", "ext2">>}

Folders == {<<>>, <<"x">>}
Plain == {<<"p0">>, <<"x", "x">>, <<"x", "p0">>}

Beginnings == {<<>>, <<"(">>, <<"(", "p0", ")">>, <<"(", "p2", ")">>, <<"(", "x", ")">>}
Ends == UNION {[1 .. n -> {"(", ")", "/", "x", "p0"}] : n \in 0 .. 3}
AnyPath == {b \o e : b \in Beginnings, e \in Ends}
=============================================================================
