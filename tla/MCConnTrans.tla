---------------------------- MODULE MCConnTrans ----------------------------
(* Small instances of ConnTrans for TLC. *)
EXTENDS ConnTrans

CONSTANTS h1, h2

TwoStmts == <<h1, h2>>

\* a second write, which can fail after the first, only where statements are atomic
\* (mode 2), none where errors are left to the application (mode 0)
Writes == [m \in Modes |-> m]
=============================================================================
