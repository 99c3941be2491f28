------------------------------ MODULE MCParts ------------------------------
(* The parts of the machine that work alone: the processor is in one of    *)
(* them, and the state of the others is as after the start.                *)
EXTENDS MCTimer, MCExt2, Parts, HexLoader, Packages, MCPropertyTags, Console

VARIABLE part

\* a file of two bytes and one of one byte
Lengths == ("f" :> 2) @@ ("g" :> 1)

\* A hex file: two words at the end of a segment, the next segment, a word and
\* three bytes in it, which take in the checksum, and the end.
Rec(type, address, bytes, check) == [type |-> type, address |-> address, bytes |-> bytes, check |-> check]
Image ==
    <<Rec(0, 65528, <<1, 2, 3, 4, 5, 6, 7, 8>>, 221), Rec(2, 0, <<16, 0>>, 236),
      Rec(0, 0, <<18, 52, 86, 120, 154, 188, 222>>, 177), Rec(1, 0, <<>>, 255)>>

\* two boot files; the first requires a package and one that is not there
BootFiles == << <<"p", "m">>, <<"q">> >>

allVars == <<part, timerVars, ext2Vars, sysVars, hexVars, pkgVars, tagVars, consoleVars>>

Parts == {"timer", "ext2", "files", "loader", "packages", "tags", "console"}

PartsInit ==
    /\ part \in Parts
    /\ TimerInit /\ (part # "timer" => clo = 0 /\ ready = FALSE)
    /\ Ext2Init /\ (part # "ext2" => v = 1)
    /\ SysInit
    /\ HexInit
    /\ PkgInit /\ (part # "packages" => \A p \in Package : requires[p] = <<>>)
    /\ TagInit
    /\ ConsoleInit

Others(vars) == UNCHANGED part /\ UNCHANGED vars

TimerOnly == part = "timer" /\ Others(<<ext2Vars, sysVars, hexVars, pkgVars, tagVars, consoleVars>>)
Ext2Only  == part = "ext2" /\ Others(<<timerVars, sysVars, hexVars, pkgVars, tagVars, consoleVars>>)
FilesOnly == part = "files" /\ Others(<<timerVars, ext2Vars, hexVars, pkgVars, tagVars, consoleVars>>)
LoaderOnly == part = "loader" /\ Others(<<timerVars, ext2Vars, sysVars, pkgVars, tagVars, consoleVars>>)
PackagesOnly == part = "packages" /\ Others(<<timerVars, ext2Vars, sysVars, hexVars, tagVars, consoleVars>>)
TagsOnly == part = "tags" /\ Others(<<timerVars, ext2Vars, sysVars, hexVars, pkgVars, consoleVars>>)
ConsoleOnly == part = "console" /\ Others(<<timerVars, ext2Vars, sysVars, hexVars, pkgVars, tagVars>>)

PartsNext ==
    \/ TimerNext /\ TimerOnly
    \/ Ext2Next /\ Ext2Only
    \/ SysNext /\ FilesOnly
    \/ HexNext /\ LoaderOnly
    \/ PkgNext /\ PackagesOnly
    \/ TagNext /\ TagsOnly
    \/ ConsoleNext /\ ConsoleOnly

\* in each part the code runs on; what the hardware does is not owed
PartsSpec ==
    /\ PartsInit /\ [][PartsNext]_allVars
    /\ WF_allVars(Poll /\ TimerOnly)
    /\ WF_allVars(Work /\ Ext2Only)
    /\ WF_allVars(PkgNext /\ PackagesOnly)
=============================================================================
