----------------------------- MODULE MCSdCard ------------------------------
(* The four kinds of card, and a fast one whose switch of voltage fails. *)
EXTENDS SdCard

Old  == [v2 |-> FALSE, sdhc |-> FALSE, s18 |-> FALSE]
SC   == [v2 |-> TRUE, sdhc |-> FALSE, s18 |-> FALSE]
HC   == [v2 |-> TRUE, sdhc |-> TRUE, s18 |-> FALSE]
UHS  == [v2 |-> TRUE, sdhc |-> TRUE, s18 |-> TRUE]

AllCards == {Old, SC, HC, UHS}
Anything == InitCommand \cup {"reset", "status", "select", "stop", "data"}

FastCard == {UHS}
OnlySwitch == {"SWITCH"}
=============================================================================
