------------------------------ MODULE MCFiles ------------------------------
(* One call of write stays in a block of two characters, the other fills one *)
(* or two.  A record keeps one character of a name; the one name that is     *)
(* longer is cut to another.                                                 *)
EXTENDS Files

MCNames == {<<"f">>, <<"g">>, <<"g", "h">>}
MCTexts == {<<"a">>, <<"b", "c", "d">>}
=============================================================================
