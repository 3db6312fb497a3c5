------------------------------ MODULE MCEditor ------------------------------
EXTENDS Editor

\* A character of one unit, of two, a mark, and the NUL key.
Keys == {<<"a">>, <<"h", "l">>, <<"m">>, <<>>}
=============================================================================
