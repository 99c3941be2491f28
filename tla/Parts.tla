------------------------------- MODULE Parts -------------------------------
(* The parts that keep their types whichever of them the processor is in.   *)
EXTENDS Timer, Ext2, SysCalls

\* Every part keeps its types.  Code behaviour: the declarations in timer.h,
\* ext2.c and syscalls.c.
PartsTypeOK == TimerTypeOK /\ Ext2TypeOK /\ SysTypeOK
=============================================================================
