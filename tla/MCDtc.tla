------------------------------- MODULE MCDtc -------------------------------
(* One transaction whose identifier has two parts of one byte each, beside  *)
(* a prepared transaction with a name of another kind.                      *)
EXTENDS Dtc
MCOwnXid == [gtrid |-> <<18>>, bqual |-> <<171>>]
MCForeignGid == <<7, 5, 3>>
=============================================================================
