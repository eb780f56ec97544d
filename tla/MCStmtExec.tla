----------------------------- MODULE MCStmtExec -----------------------------
(* Small instances of StmtExec for TLC. *)
EXTENDS StmtExec

\* every combination of settings the driver can have
AllConfigs ==
    {c \in [batch : BOOLEAN, named : BOOLEAN, timeout : BOOLEAN] : c.batch => c.named}

\* one to three rows; rows ignored at the start, in the middle, at the end, all of them;
\* data at execution for no parameter, one or both, in the first, a later or every row;
\* NULL for a parameter of some rows or of all
SmallArrays ==
    LET PerRow(f) == [r \in Rows |-> IF r \in DOMAIN f THEN f[r] ELSE {}]
        B(n, ign, d) == [size |-> n, ignored |-> ign, daeOf |-> PerRow(d),
                         nullOf |-> PerRow(<< >>)]
        N(n, ign, d, nul) == [B(n, ign, d) EXCEPT !.nullOf = PerRow(nul)]
    IN  {B(1, {}, << >>), B(2, {}, << >>), B(2, {2}, << >>), B(2, {1, 2}, << >>),
         B(3, {}, << >>), B(3, {2}, << >>), B(3, {1}, << >>),
         B(1, {}, <<{1, 2}>>), B(2, {}, <<{1, 2}, {1}>>), B(2, {}, <<{}, {2}>>),
         B(2, {1}, <<{}, {1, 2}>>), B(2, {2}, <<{1}>>),
         N(2, {}, << >>, <<{1}, {}>>), N(2, {}, << >>, <<{2}, {2}>>),
         N(2, {}, <<{1}, {}>>, <<{2}, {1}>>), N(2, {}, << >>, <<{}, {2}>>),
         B(3, {}, <<{1}, {}, {1, 2}>>), B(3, {2}, <<{1, 2}, {}, {2}>>)}
=============================================================================
