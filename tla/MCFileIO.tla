----------------------------- MODULE MCFileIO ------------------------------
(* A file of three blocks of two bytes: requests begin and end anywhere in *)
(* a block and span up to three.  Each byte of the file and of the payload *)
(* is a value of its own, so that a misplaced byte shows.                  *)
EXTENDS FileIO

Bytes == 0 .. 9 \cup 10 .. 19
OneFile == {[i \in Offset |-> i]}
OnePayload == {[j \in Place |-> 10 + j]}

AllFaults == {"read", "write"}
=============================================================================
