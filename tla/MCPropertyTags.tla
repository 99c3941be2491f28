--------------------------- MODULE MCPropertyTags ---------------------------
(* Three tags that are known, with values of one and of two words: a list  *)
(* may be shorter or longer than the one before it, and hold a tag twice.  *)
EXTENDS PropertyTags, TLC

TagSizes == (5 :> 4) @@ (6 :> 8) @@ (7 :> 8)
=============================================================================
