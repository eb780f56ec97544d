----------------------------- MODULE MCHandles -----------------------------
(* The symmetries of Handles for TLC. *)
EXTENDS Handles, TLC

Symmetry == Permutations(Threads) \cup Permutations(Envs)
              \cup Permutations(Conns) \cup Permutations(Stmts) \cup Permutations(Descs)
=============================================================================
