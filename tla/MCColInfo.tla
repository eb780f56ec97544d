------------------------------ MODULE MCColInfo ------------------------------
(* Two statements and two tables, one of them temporary, a cache of one     *)
(* definition: every case of recycling happens.                             *)
EXTENDS ColInfo
CONSTANTS t1, tmp
MCQueries == {<<t1>>, <<tmp>>, <<tmp, t1>>}
Symmetry == Permutations(Stmts)
=============================================================================
