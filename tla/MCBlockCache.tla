---------------------------- MODULE MCBlockCache ----------------------------
(* Instances of BlockCache for TLC: four blocks and two cache lines, so   *)
(* that every line is competed for.                                        *)
EXTENDS BlockCache

ReadFaults == {"read"}
AllFaults  == {"read", "write"}
=============================================================================
