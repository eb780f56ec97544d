--------------------------- MODULE MCAutobalance ---------------------------
(* Small instances of Autobalance for TLC: two clients race through the    *)
(* initialisation, or one walks while the refresh thread works.            *)
EXTENDS Autobalance

CONSTANTS n1, n2, n3, n4, c1, c2

VARIABLE scenario

\* three configured nodes; n4 exists in the cluster but not in the DSN
OrigThree == <<n1, n2, n3>>

\* what pgxc_node answers: an unknown node and the configured ones in another order,
\* one row more than MaxCN holds, or one node; an error may cut the rows short anywhere
AnswersLong == {<<n4, n3, n1, n2, n1>>, <<n3>>}

\* Bounds.  "race": both clients up to the wait for refresh_flag.  "walk": c1 alone,
\* and the refresh thread sleeps for ever after RefreshLimit + 1 answered rounds.
Goes(t) ==
    /\ IF scenario = "race" THEN t \in Clients /\ pc[t] # "wait_flag" ELSE t # c2
    /\ t = Refresher => pc[t] # "idle" \/ refreshCount <= RefreshLimit

MCvars == <<vars, scenario>>
MCStep(t) == Goes(t) /\ Step(t) /\ UNCHANGED scenario
MCInit == Init /\ scenario \in {"race", "walk"}
MCNext == \E t \in Threads : MCStep(t)

\* Every running thread keeps being scheduled.  The read-write locks are granted
\* to a waiting client in the end (strong fairness): the only thread that takes
\* them over and over is the refresh thread, which sleeps between two rounds.
MCFairSpec ==
    /\ MCInit /\ [][MCNext]_MCvars
    /\ WF_MCvars(MCStep(Refresher)) /\ \A t \in Clients : SF_MCvars(MCStep(t))
=============================================================================
