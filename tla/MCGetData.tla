---------------------------- MODULE MCGetData ----------------------------
(* Two rows of two columns: a value of three characters that has to be cut, *)
(* a NULL, a single character, and an empty string.                        *)
EXTENDS GetData

TwoRows == <<<<3, -1>>, <<1, 2>>>>
=============================================================================
