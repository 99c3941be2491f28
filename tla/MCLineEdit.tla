----------------------------- MODULE MCLineEdit -----------------------------
(* A buffer of four bytes: lines of no, one, two and three characters, the  *)
(* longest of which the history cannot show whole.                          *)
EXTENDS LineEdit

Chars == {"a", "_"}
Added == {<<>>, <<"a">>, <<"a", "_", "a">>}
Offered == {<<>>, <<<<"_", "a">>, <<"a">>>>}
Short == {1, 2}
=============================================================================
