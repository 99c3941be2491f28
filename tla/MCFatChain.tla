---------------------------- MODULE MCFatChain -----------------------------
(* Clusters 2 to 4 and every table of them, cyclic ones too.             *)
EXTENDS FatChain

Reserved(t) == t[0] = End /\ t[1] = End
AnyTable == {t \in [0 .. MaxCluster -> Clusters \cup {End}] : Reserved(t)}

AllTypes == {"FAT12", "FAT16", "FAT32"}
AllFaults == {"table", "cluster"}
=============================================================================
