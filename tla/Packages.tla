------------------------------ MODULE Packages ------------------------------
(***************************************************************************)
(* lua/boot.lua and lua/zip_require.lua: the files of the boot archive are *)
(* run one after the other, each protected by xpcall, and then the prompt  *)
(* comes.  A file may require packages, which are files of the archive     *)
(* too; what a package returns is recorded in package.loaded.              *)
(*                                                                         *)
(* A file is the sequence of what it requires; that it fails to compile,   *)
(* raises an error or returns nothing is decided when it comes to it.      *)
(* package.preload is left out: the one package it holds, ffi, is loaded   *)
(* before zip_require replaces require.                                    *)
(***************************************************************************)
EXTENDS Integers, Sequences

CONSTANTS
    Package,      \* the packages in the archive
    Missing,      \* a package that is not in it
    BootFile,     \* the sequence of files that boot.lua runs
    MaxDepth,     \* bound: calls the Lua stack has room for
    MaxRequires   \* bound: packages one file requires

\* what package.loaded holds: nothing, true, or what the package has returned
Nil   == "nil"
True  == "true"
Returned == "value"

Requires == UNION {[1 .. n -> Package \cup {Missing}] : n \in 0 .. MaxRequires}

ASSUME PackageAssumption ==
    /\ BootFile \in Seq(Requires)
    /\ Missing \notin Package
    /\ MaxDepth \in Nat /\ MaxRequires \in Nat

VARIABLES
    requires,   \* package -> what its file requires, in order
    loaded,     \* package.loaded
    running,    \* the files being run, the innermost last: [of, next]
    booted,     \* files of boot.lua that are through
    prompt,     \* the prompt has come: repl(), or the loop in its place
    runs        \* history: package -> times its file was run, up to 2

pkgVars == <<requires, loaded, running, booted, prompt, runs>>

Boot(i) == [file |-> "boot", index |-> i]
Pack(p) == [file |-> "package", index |-> p]

PkgInit ==
    /\ requires \in [Package -> Requires]
    /\ loaded = [p \in Package |-> Nil]
    /\ running = <<>>
    /\ booted = 0
    /\ prompt = FALSE
    /\ runs = [p \in Package |-> 0]

-----------------------------------------------------------------------------
(* run_bootzip *)

Top == running[Len(running)]

Frame(file) == [of |-> file, next |-> 1]

WantedBy(f) == IF f.of.file = "boot" THEN BootFile[f.of.index] ELSE requires[f.of.index]

\* boot: the next file
BootNext ==
    /\ running = <<>> /\ booted < Len(BootFile)
    /\ running' = <<Frame(Boot(booted + 1))>>
    /\ UNCHANGED <<requires, loaded, booted, prompt, runs>>

\* a deviation: nothing is recorded for a file that returns nothing
RecordReturned(p, value) == [loaded EXCEPT ![p] = value]

\* "remember even packages that don't return anything"
Record(p, value) == [loaded EXCEPT ![p] = IF value = Nil THEN True ELSE value]

\* the file that runs now is through: its caller goes on
Leave(value) ==
    LET f == Top.of
        below == SubSeq(running, 1, Len(running) - 1)
    IN  IF f.file = "boot"
        THEN running' = below /\ booted' = booted + 1 /\ UNCHANGED loaded
        ELSE /\ loaded' = Record(f.index, value)
             /\ running' = [below EXCEPT ![Len(below)].next = @ + 1]
             /\ UNCHANGED booted

Return ==
    /\ running # <<>> /\ Top.next > Len(WantedBy(Top))
    /\ \E value \in {Nil, Returned} : Leave(value)
    /\ UNCHANGED <<requires, prompt, runs>>

\* a deviation: an error is not caught, and ends the whole boot
Escape == running' = <<>> /\ booted' = Len(BootFile) + 1 /\ UNCHANGED loaded

\* the handler returns nothing, and status is false, which is not nil
Caught == Leave(Nil)

\* an error raised by the file, at any point of it, or by the compiler
Error ==
    /\ running # <<>>
    /\ Caught
    /\ UNCHANGED <<requires, prompt, runs>>

-----------------------------------------------------------------------------
(* zip_require *)

Wanted == WantedBy(Top)[Top.next]

Wanting == running # <<>> /\ Top.next <= Len(WantedBy(Top))

GoOn == running' = [running EXCEPT ![Len(running)].next = @ + 1]

RequireLoaded ==
    /\ Wanting /\ Wanted # Missing /\ loaded[Wanted] # Nil
    /\ GoOn
    /\ UNCHANGED <<requires, loaded, booted, prompt, runs>>

\* it returns nil, which is no error and is not recorded
NotFound ==
    /\ Wanting /\ Wanted = Missing
    /\ GoOn
    /\ UNCHANGED <<requires, loaded, booted, prompt, runs>>

RunPackage ==
    /\ Wanting /\ Wanted # Missing /\ loaded[Wanted] = Nil
    /\ Len(running) < MaxDepth
    /\ running' = Append(running, Frame(Pack(Wanted)))
    /\ runs' = [runs EXCEPT ![Wanted] = IF @ = 2 THEN 2 ELSE @ + 1]
    /\ UNCHANGED <<requires, loaded, booted, prompt>>

\* the error of the full stack is caught like any other
StackOverflow ==
    /\ Wanting /\ Wanted # Missing /\ loaded[Wanted] = Nil
    /\ Len(running) >= MaxDepth
    /\ Caught
    /\ UNCHANGED <<requires, prompt, runs>>

\* repl(), or the fallback loop if repl.lua has not defined it
Prompt ==
    /\ running = <<>> /\ booted = Len(BootFile) /\ ~prompt
    /\ prompt' = TRUE
    /\ UNCHANGED <<requires, loaded, running, booted, runs>>

PkgNext ==
    \/ BootNext \/ Return \/ Error
    \/ RequireLoaded \/ NotFound \/ RunPackage \/ StackOverflow
    \/ Prompt

PkgSpec == PkgInit /\ [][PkgNext]_pkgVars

-----------------------------------------------------------------------------
(* Properties *)

Wants(p) == {requires[p][i] : i \in DOMAIN requires[p]} \ {Missing}

\* the packages that lead back to themselves
Reach[n \in 0 .. MaxDepth] ==
    IF n = 0 THEN [p \in Package |-> Wants(p)]
    ELSE [p \in Package |-> Reach[n - 1][p] \cup UNION {Wants(q) : q \in Reach[n - 1][p]}]
Cyclic == {p \in Package : p \in Reach[MaxDepth][p]}

\* A package is run at most once, whatever fails, unless it requires itself in
\* the end.  Code behaviour: "package already loaded" in zip_require.
RunOnce == \A p \in Package \ Cyclic : runs[p] <= 1

\* Once the first file runs the prompt comes, whichever files fail to run and
\* however they require one another.  Code behaviour: xpcall in run_bootzip.
PromptComes == running # <<>> ~> prompt
=============================================================================
