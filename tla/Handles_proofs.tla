---------------------------- MODULE Handles_proofs ----------------------------
(***************************************************************************)
(* The memory of the handles, for any number of threads and handles, of an *)
(* application that leaves alone what another thread of it is freeing.     *)
(***************************************************************************)
EXTENDS Handles, TLAPS

Prudent ==
  /\ "busy" \notin Risky
  /\ "desc_parallel" \notin Risky
  /\ "foreign_desc" \notin Risky
  /\ "pending" \notin Risky

--------------------
(* The inductive invariant.                                                *)

Calls ==
  [op : {"idle", "free_conn", "free_desc", "execute"}, obj : Conns \cup Stmts \cup Descs \cup {None},
   todo : SUBSET Stmts, at : Conns \cup Stmts \cup {None}]

Types ==
  /\ alive \subseteq Envs \cup Conns \cup Stmts \cup Descs
  /\ conns \subseteq Conns
  /\ henv \in [Conns -> Envs \cup {None}]
  /\ cstatus \in [Conns -> {"not_connected", "connected", "executing"}]
  /\ stmts \in [Conns -> SUBSET Stmts] /\ descs \in [Conns -> SUBSET Descs]
  /\ unnamed \in [Conns -> Stmts \cup {None}]
  /\ hdbc \in [Stmts -> Conns \cup {None}] /\ ard \in [Stmts -> Descs \cup {None}]
  /\ delegate \in [Stmts -> Stmts \cup {None}] /\ parent \in [Stmts -> Stmts \cup {None}]
  /\ sstatus \in [Stmts -> {"ready", "executing"}]
  /\ dconn \in [Descs -> Conns \cup {None}]
  /\ cs \in [Conns -> Threads \cup {None}]
  /\ call \in [Threads -> Calls]

\* What a thread is in the middle of.
FreesConn(t, c) == call[t].op = "free_conn" /\ call[t].obj = c
FreesDesc(t, d) == call[t].op = "free_desc" /\ call[t].obj = d
Executes(t, s) == call[t].op = "execute" /\ call[t].obj = s

\* The table of connections, and what a connection points to.
ConnTable ==
  /\ \A c \in Conns : c \in alive =>
       /\ henv[c] \in Envs /\ henv[c] \in alive
       /\ c \in conns \/ \E t \in Threads : FreesConn(t, c)
  /\ \A c \in conns : c \in alive

\* The statements of the connections.
StmtTable ==
  /\ \A s \in Stmts : s \in alive => hdbc[s] \in Conns /\ s \in stmts[hdbc[s]]
  /\ \A c \in Conns : \A s \in stmts[c] : s \in alive /\ c \in alive /\ hdbc[s] = c
  /\ \A c \in Conns : unnamed[c] # None /\ c \in alive => unnamed[c] \in stmts[c]

\* The descriptors of the connections.
DescTable ==
  /\ \A d \in Descs : d \in alive =>
       /\ dconn[d] \in Conns /\ dconn[d] \in alive
       /\ d \in descs[dconn[d]] \/ \E t \in Threads : FreesDesc(t, d)
  /\ \A c \in Conns : \A d \in descs[c] : d \in alive /\ dconn[d] = c

\* The pointers of a statement; a statement whose memory is gone has none.
Ards ==
  \A s \in Stmts : ard[s] # None =>
    s \in alive /\ ard[s] \in alive /\ dconn[ard[s]] = hdbc[s]
Links ==
  /\ \A s \in Stmts : delegate[s] # None =>
       /\ s \in alive /\ delegate[s] \in alive /\ hdbc[delegate[s]] = hdbc[s]
       /\ parent[delegate[s]] = s /\ parent[s] = None
  /\ \A s \in Stmts : parent[s] # None => delegate[parent[s]] = s

\* What the calls under way rely on.
FreeingConns ==
  \A t \in Threads, c \in Conns : FreesConn(t, c) => c \in alive /\ c \notin conns
FreeingDescs ==
  \A t \in Threads, d \in Descs : FreesDesc(t, d) =>
    /\ d \in alive
    /\ \A c \in Conns : d \notin descs[c]
    /\ \A s \in call[t].todo : s \in stmts[dconn[d]]
    /\ call[t].at # None => call[t].at \in stmts[dconn[d]]
    /\ \A s \in Stmts : ard[s] = d => s \in call[t].todo \/ s = call[t].at
Executions ==
  \A t \in Threads, s \in Stmts : Executes(t, s) =>
    /\ s \in alive /\ parent[s] = None
    /\ call[t].todo = {Estmt(s)}
    /\ call[t].at # None => call[t].at = hdbc[s] /\ cs[hdbc[s]] = t
Targets ==
  \A t \in Threads :
    /\ call[t].op = "idle" => call[t] = Idle
    /\ call[t].op = "free_conn" => call[t].obj \in Conns
    /\ call[t].op = "free_desc" => call[t].obj \in Descs
    /\ call[t].op = "execute" => call[t].obj \in Stmts

\* No two of them are at the same object.
Apart ==
  \A t, u \in Threads : t # u =>
    /\ \A c \in Conns : FreesConn(t, c) =>
         /\ ~FreesConn(u, c)
         /\ \A d \in Descs : FreesDesc(u, d) => dconn[d] # c
         /\ \A s \in Stmts : Executes(u, s) => hdbc[s] # c
    /\ \A d \in Descs : FreesDesc(t, d) =>
         /\ ~FreesDesc(u, d)
         /\ \A s \in Stmts : Executes(u, s) => ard[s] # d
    /\ \A s \in Stmts : Executes(t, s) => ~Executes(u, s)

\* A status or a section is taken by a thread that will set it back.
Sections ==
  /\ \A c \in Conns : cs[c] # None => call[cs[c]].op = "execute" /\ call[cs[c]].at = c
  /\ \A c \in Conns : cstatus[c] = "executing" => cs[c] # None
  /\ \A s \in Stmts : sstatus[s] = "executing" =>
       \E t \in Threads : call[t].op = "execute" /\ call[t].at # None /\ s \in call[t].todo

\* Where a connection is being freed, a delegate comes after its statement.
FreedInOrder ==
  \A t \in Threads, c \in Conns : FreesConn(t, c) =>
    \A s \in Stmts : hdbc[s] = c /\ delegate[s] # None => ~(slot[delegate[s]] < slot[s])

IInv ==
  /\ Types /\ ~bad
  /\ ConnTable /\ StmtTable /\ DescTable /\ Ards /\ Links
  /\ FreeingConns /\ FreeingDescs /\ Executions /\ Targets /\ Apart /\ Sections

--------------------
(* What the guards give.                                                   *)

\* No other thread is at the objects of O.
LEMMA UnusedMeans ==
  ASSUME Prudent, NEW t \in Threads, NEW O, Unused(t, O), NEW u \in Threads, u # t
  PROVE  /\ \A s \in Stmts : Executes(u, s) =>
              s \notin O /\ Estmt(s) \notin O /\ hdbc[s] \notin O /\ ard[s] \notin O
         /\ \A c \in Conns : FreesConn(u, c) => c \notin O /\ henv[c] \notin O
         /\ \A d \in Descs : FreesDesc(u, d) => d \notin O /\ dconn[d] \notin O
<1>1. Uses(u) \cap O = {} BY DEF Unused, Prudent
<1>2. ASSUME NEW s \in Stmts, Executes(u, s)
      PROVE  s \notin O /\ Estmt(s) \notin O /\ hdbc[s] \notin O /\ ard[s] \notin O
  <2>1. Uses(u) = {s, Estmt(s), hdbc[s], ard[s]} BY <1>2 DEF Uses, Executes
  <2> QED BY <1>1, <2>1
<1>3. ASSUME NEW c \in Conns, FreesConn(u, c)
      PROVE  c \notin O /\ henv[c] \notin O
  <2>1. Uses(u) = {c, henv[c]} BY <1>3 DEF Uses, FreesConn
  <2> QED BY <1>1, <2>1
<1>4. ASSUME NEW d \in Descs, FreesDesc(u, d)
      PROVE  d \notin O /\ dconn[d] \notin O
  <2>1. Uses(u) = {d, dconn[d]} BY <1>4 DEF Uses, FreesDesc
  <2> QED BY <1>1, <2>1
<1> QED BY <1>2, <1>3, <1>4

\* A thread that is in no call is at no object.
LEMMA FreeMeans ==
  ASSUME NEW t, Free(t)
  PROVE  /\ \A s : ~Executes(t, s) /\ ~FreesConn(t, s) /\ ~FreesDesc(t, s)
         /\ call[t].op = "idle"
  BY DEF Free, Idle, Executes, FreesConn, FreesDesc

\* A step that uses only allocated memory is no error.
LEMMA TouchesAlive ==
  ASSUME ~bad, NEW O, Touch(O), \A o \in O : o = None \/ o \in alive
  PROVE  ~bad'
<1>1. O \ {None} \subseteq alive OBVIOUS
<1> QED BY <1>1, Zenon DEF Touch

--------------------
(* CC_cleanup of connections at which no call is at work.                  *)

LEMMA Cleaned ==
  ASSUME NEW C \in SUBSET Conns, Types
  PROVE  /\ \A s : s \in CleanedStmts(C) <=> \E c \in C : s \in stmts[c]
         /\ \A d : d \in CleanedDescs(C) <=> \E c \in C : d \in descs[c]
  BY DEF CleanedStmts, CleanedDescs

\* No thread is at work with a statement or a descriptor of the connections C.
Quiet(C) ==
  \A u \in Threads, c \in C :
    /\ \A s \in Stmts : Executes(u, s) => hdbc[s] # c
    /\ \A d \in Descs : FreesDesc(u, d) => dconn[d] # c

\* The calls but those that free a connection go on.
OthersGoOn ==
  \A u \in Threads : call'[u] = call[u] \/ (call[u].op = "free_conn" /\ call'[u] = Idle)

LEMMA CleanupTypes ==
  ASSUME Types, NEW C \in SUBSET Conns, NEW gone, CC_cleanup(C, gone),
         conns' \in SUBSET Conns, henv' \in [Conns -> Envs \cup {None}], call' \in [Threads -> Calls]
  PROVE  Types'
  BY DEF Types, CC_cleanup

LEMMA CleanupTouches ==
  ASSUME IInv, NEW C \in SUBSET Conns, C \subseteq alive, DelegateGone(C) = {},
         NEW gone, CC_cleanup(C, gone)
  PROVE  ~bad'
<1>1. \A o \in C \cup CleanedStmts(C) \cup CleanedDescs(C) : o \in alive
  BY Cleaned DEF IInv, StmtTable, DescTable
<1>2. C \cup CleanedStmts(C) \cup CleanedDescs(C) \subseteq alive BY <1>1
<1> QED BY <1>2, Zenon DEF CC_cleanup, IInv

\* What is left of the memory.
LEMMA CleanupAlive ==
  ASSUME IInv, NEW C \in SUBSET Conns, C \subseteq alive, Quiet(C),
         NEW gone \in SUBSET (C \cup Envs), CC_cleanup(C, gone)
  PROVE  /\ \A s \in Stmts : s \in CleanedStmts(C) <=> s \in alive /\ hdbc[s] \in C
         /\ \A d \in Descs : d \in CleanedDescs(C) <=> d \in alive /\ dconn[d] \in C
         /\ \A s \in Stmts : s \in alive' <=> s \in alive /\ s \notin CleanedStmts(C)
         /\ \A d \in Descs : d \in alive' <=> d \in alive /\ d \notin CleanedDescs(C)
         /\ \A c \in Conns : c \in alive' <=> c \in alive /\ c \notin gone
         /\ \A e \in Envs : e \in alive' <=> e \in alive /\ e \notin gone
<1>1. Types /\ StmtTable /\ DescTable BY DEF IInv
<1>2. /\ \A s : s \in CleanedStmts(C) <=> \E c \in C : s \in stmts[c]
      /\ \A d : d \in CleanedDescs(C) <=> \E c \in C : d \in descs[c]
  BY <1>1, Cleaned
<1>3. /\ \A s : s \in CleanedStmts(C) => s \in Stmts
      /\ \A d : d \in CleanedDescs(C) => d \in Descs
  BY <1>1, <1>2 DEF Types
<1>4. \A s \in Stmts : s \in CleanedStmts(C) <=> s \in alive /\ hdbc[s] \in C
  BY <1>1, <1>2 DEF StmtTable, Types
<1>5. \A d \in Descs : d \in CleanedDescs(C) <=> d \in alive /\ dconn[d] \in C
  BY <1>1, <1>2 DEF DescTable, Types, Quiet
<1>6. alive' = alive \ (CleanedStmts(C) \cup CleanedDescs(C) \cup gone) BY DEF CC_cleanup
<1>7. /\ \A s \in Stmts : s \in alive' <=> s \in alive /\ s \notin CleanedStmts(C)
      /\ \A d \in Descs : d \in alive' <=> d \in alive /\ d \notin CleanedDescs(C)
  BY <1>3, <1>6, AddressAssumption
<1>8. /\ \A c \in Conns : c \in alive' <=> c \in alive /\ c \notin gone
      /\ \A e \in Envs : e \in alive' <=> e \in alive /\ e \notin gone
  BY <1>3, <1>6, AddressAssumption
<1> QED BY <1>4, <1>5, <1>7, <1>8

LEMMA CleanupTables ==
  ASSUME IInv, NEW C \in SUBSET Conns, C \subseteq alive, Quiet(C), OthersGoOn,
         NEW gone \in SUBSET (C \cup Envs), CC_cleanup(C, gone), call' \in [Threads -> Calls]
  PROVE  StmtTable' /\ DescTable' /\ Ards' /\ Links'
<1>1. /\ Types /\ StmtTable /\ DescTable /\ Ards /\ Links BY DEF IInv
<1>2. /\ \A s \in Stmts : s \in CleanedStmts(C) <=> s \in alive /\ hdbc[s] \in C
      /\ \A s \in Stmts : s \in alive' <=> s \in alive /\ s \notin CleanedStmts(C)
  BY CleanupAlive
<1>3. /\ \A d \in Descs : d \in CleanedDescs(C) <=> d \in alive /\ dconn[d] \in C
      /\ \A d \in Descs : d \in alive' <=> d \in alive /\ d \notin CleanedDescs(C)
  BY CleanupAlive
<1>4. \A c \in Conns \ C : c \in alive => c \in alive' BY AddressAssumption, CleanupAlive
<1>5. \A u \in Threads, d \in Descs : FreesDesc(u, d) => FreesDesc(u, d)' BY DEF OthersGoOn, FreesDesc
<1>6. StmtTable' BY HandlesAssumption, <1>1, <1>2, <1>4 DEF StmtTable, Types, CC_cleanup
<1>7. DescTable' BY <1>1, <1>3, <1>4, <1>5 DEF DescTable, Types, CC_cleanup
<1>8. Ards' BY <1>1, <1>2, <1>3 DEF Ards, Types, CC_cleanup
<1>9. Links' BY HandlesAssumption, <1>1, <1>2 DEF Links, Types, CC_cleanup
<1> QED BY <1>6, <1>7, <1>8, <1>9

LEMMA CleanupCalls ==
  ASSUME IInv, NEW C \in SUBSET Conns, C \subseteq alive, Quiet(C), OthersGoOn,
         NEW gone \in SUBSET (C \cup Envs), CC_cleanup(C, gone), call' \in [Threads -> Calls]
  PROVE  FreeingDescs' /\ Executions' /\ Targets' /\ Apart' /\ Sections'
<1>1. /\ Types /\ StmtTable /\ DescTable /\ Ards /\ Links
      /\ FreeingDescs /\ Executions /\ Targets /\ Apart /\ Sections
  BY DEF IInv
<1>2. /\ \A s \in Stmts : s \in CleanedStmts(C) <=> s \in alive /\ hdbc[s] \in C
      /\ \A s \in Stmts : s \in alive' <=> s \in alive /\ s \notin CleanedStmts(C)
  BY CleanupAlive
<1>3. /\ \A d \in Descs : d \in CleanedDescs(C) <=> d \in alive /\ dconn[d] \in C
      /\ \A d \in Descs : d \in alive' <=> d \in alive /\ d \notin CleanedDescs(C)
  BY CleanupAlive
<1>4. /\ \A u \in Threads, d \in Descs : FreesDesc(u, d)' => FreesDesc(u, d) /\ call'[u] = call[u]
      /\ \A u \in Threads, s \in Stmts : Executes(u, s)' => Executes(u, s) /\ call'[u] = call[u]
      /\ \A u \in Threads, c \in Conns : FreesConn(u, c)' => FreesConn(u, c) /\ call'[u] = call[u]
  BY DEF OthersGoOn, FreesDesc, Executes, FreesConn, Idle
<1>5. FreeingDescs'
  <2> SUFFICES ASSUME NEW u \in Threads, NEW d \in Descs, FreesDesc(u, d)'
               PROVE  /\ d \in alive'
                      /\ \A c1 \in Conns : d \notin descs'[c1]
                      /\ \A s \in call'[u].todo : s \in stmts'[dconn'[d]]
                      /\ call'[u].at # None => call'[u].at \in stmts'[dconn'[d]]
                      /\ \A s \in Stmts : ard'[s] = d => s \in call'[u].todo \/ s = call'[u].at
    BY DEF FreeingDescs
  <2>1. FreesDesc(u, d) /\ call'[u] = call[u] BY <1>4
  <2>2. d \in alive /\ dconn[d] \in Conns /\ dconn[d] \notin C /\ d \notin CleanedDescs(C)
    BY <1>1, <1>3, <2>1 DEF FreeingDescs, DescTable, Quiet
  <2>3. dconn'[d] = dconn[d] /\ stmts'[dconn[d]] = stmts[dconn[d]] /\ d \in alive'
    BY <1>3, <2>2 DEF CC_cleanup
  <2>4. \A s \in Stmts : ard'[s] = d => ard[s] = d BY HandlesAssumption DEF CC_cleanup
  <2>5. \A c1 \in Conns : d \notin descs[c1] => d \notin descs'[c1] BY DEF CC_cleanup
  <2> QED BY <1>1, <2>1, <2>3, <2>4, <2>5 DEF FreeingDescs
<1>6. Executions'
  <2> SUFFICES ASSUME NEW u \in Threads, NEW s \in Stmts, Executes(u, s)'
               PROVE  /\ s \in alive' /\ parent'[s] = None
                      /\ call'[u].todo = {Estmt(s)'}
                      /\ call'[u].at # None => call'[u].at = hdbc'[s] /\ cs'[hdbc'[s]] = u
    BY DEF Executions
  <2>1. Executes(u, s) /\ call'[u] = call[u] BY <1>4
  <2>2. s \in alive /\ hdbc[s] \in Conns /\ hdbc[s] \notin C /\ s \notin CleanedStmts(C)
    BY <1>1, <1>2, <2>1 DEF Executions, StmtTable, Quiet
  <2>3. s \in alive' /\ hdbc'[s] = hdbc[s] /\ parent'[s] = parent[s] /\ delegate'[s] = delegate[s] /\ cs' = cs
    BY <1>2, <2>2 DEF CC_cleanup
  <2> QED BY <1>1, <2>1, <2>3 DEF Executions, Estmt
<1>7. Targets' BY <1>1 DEF Targets, OthersGoOn, Idle
<1>8. Apart'
  <2>1. /\ \A d \in Descs, c \in Conns : dconn'[d] = c => dconn[d] = c
        /\ \A s \in Stmts, c \in Conns : hdbc'[s] = c => hdbc[s] = c
        /\ \A s \in Stmts, d \in Descs : ard'[s] = d => ard[s] = d
    BY HandlesAssumption DEF CC_cleanup
  <2> SUFFICES ASSUME NEW v \in Threads, NEW u \in Threads, v # u
               PROVE  /\ \A c \in Conns : FreesConn(v, c)' =>
                           /\ ~FreesConn(u, c)'
                           /\ \A d \in Descs : FreesDesc(u, d)' => dconn'[d] # c
                           /\ \A s \in Stmts : Executes(u, s)' => hdbc'[s] # c
                      /\ \A d \in Descs : FreesDesc(v, d)' =>
                           /\ ~FreesDesc(u, d)'
                           /\ \A s \in Stmts : Executes(u, s)' => ard'[s] # d
                      /\ \A s \in Stmts : Executes(v, s)' => ~Executes(u, s)'
    BY DEF Apart
  <2>2. Apart BY <1>1
  <2>3. ASSUME NEW c \in Conns, FreesConn(v, c)'
        PROVE  /\ ~FreesConn(u, c)'
               /\ \A d \in Descs : FreesDesc(u, d)' => dconn'[d] # c
               /\ \A s \in Stmts : Executes(u, s)' => hdbc'[s] # c
    BY <1>4, <2>1, <2>2, <2>3 DEF Apart
  <2>4. ASSUME NEW d \in Descs, FreesDesc(v, d)'
        PROVE  ~FreesDesc(u, d)' /\ \A s \in Stmts : Executes(u, s)' => ard'[s] # d
    BY <1>4, <2>1, <2>2, <2>4 DEF Apart
  <2>5. \A s \in Stmts : Executes(v, s)' => ~Executes(u, s)' BY <1>4, <2>2 DEF Apart
  <2> QED BY <2>3, <2>4, <2>5
<1>9. Sections'
  <2>1. \A u \in Threads : call[u].op = "execute" => call'[u] = call[u] BY DEF OthersGoOn
  <2>2. \A c \in Conns : cstatus'[c] = "executing" => cstatus[c] = "executing" BY <1>1 DEF CC_cleanup
  <2>3. sstatus' = sstatus /\ cs' = cs BY DEF CC_cleanup
  <2>4. cs \in [Conns -> Threads \cup {None}] /\ Sections BY <1>1 DEF Types
  <2> QED BY <2>1, <2>2, <2>3, <2>4 DEF Sections
<1> QED BY <1>5, <1>6, <1>7, <1>8, <1>9

--------------------
(* Statements dropped together, none of them in use.                       *)

\* What PGAPI_FreeStmt, CloseStmt and SC_reset_delegate do.
Dropped(S) ==
  /\ alive' = alive \ S
  /\ stmts' = [c \in Conns |-> stmts[c] \ S]
  /\ unnamed' \in [Conns -> Stmts \cup {None}]
  /\ \A c \in Conns : unnamed'[c] = None \/ (unnamed'[c] = unnamed[c] /\ unnamed[c] \notin S)
  /\ delegate' = Undelegated(S)
  /\ hdbc' = [s \in Stmts |-> IF s \in S THEN None ELSE hdbc[s]]
  /\ ard' = [s \in Stmts |-> IF s \in S THEN None ELSE ard[s]]
  /\ parent' = [s \in Stmts |-> IF s \in S THEN None ELSE parent[s]]
  /\ UNCHANGED <<conns, henv, cstatus, descs, sstatus, dconn, cs, call>>

\* A delegate goes with its statement, and no call is at work with either.
Droppables(S) ==
  /\ \A s \in S : s \in alive /\ (delegate[s] # None => delegate[s] \in S)
  /\ \A u \in Threads, s \in Stmts : Executes(u, s) => s \notin S /\ delegate[s] \notin S
  /\ \A u \in Threads, d \in Descs : FreesDesc(u, d) => \A s \in S : hdbc[s] # dconn[d]

LEMMA DroppedTables ==
  ASSUME IInv, NEW S \in SUBSET Stmts, Droppables(S), Dropped(S)
  PROVE  Types' /\ ConnTable' /\ StmtTable' /\ DescTable' /\ Ards' /\ Links' /\ FreeingConns'
<1>1. Types /\ ConnTable /\ StmtTable /\ DescTable /\ Ards /\ Links /\ FreeingConns BY DEF IInv
<1>2. \A s \in Stmts : s \in alive' <=> s \in alive /\ s \notin S BY DEF Dropped
<1>3. \A x \in Envs \cup Conns \cup Descs : x \in alive' <=> x \in alive BY AddressAssumption DEF Dropped
<1>4. call' = call BY DEF Dropped
<1>5. Types' BY <1>1 DEF Types, Dropped, Undelegated
<1>6. ConnTable' BY <1>1, <1>3, <1>4 DEF ConnTable, Types, Dropped, FreesConn
<1>7. StmtTable' BY HandlesAssumption, <1>1, <1>2, <1>3 DEF StmtTable, Types, Dropped
<1>8. DescTable' BY <1>1, <1>3, <1>4 DEF DescTable, Types, Dropped, FreesDesc
<1>9. Ards' BY <1>1, <1>2, <1>3 DEF Ards, Types, Dropped
<1>10. Links' BY HandlesAssumption, <1>1, <1>2 DEF Links, Types, Dropped, Undelegated, Droppables
<1>11. FreeingConns' BY <1>1, <1>3, <1>4 DEF FreeingConns, Dropped, FreesConn
<1> QED BY <1>5, <1>6, <1>7, <1>8, <1>9, <1>10, <1>11

LEMMA DroppedCalls ==
  ASSUME IInv, NEW S \in SUBSET Stmts, Droppables(S), Dropped(S)
  PROVE  FreeingDescs' /\ Executions' /\ Targets' /\ Apart' /\ Sections'
<1>1. /\ Types /\ StmtTable /\ DescTable /\ FreeingDescs /\ Executions /\ Targets /\ Apart /\ Sections
  BY DEF IInv
<1>2. \A s \in Stmts : s \in alive' <=> s \in alive /\ s \notin S BY DEF Dropped
<1>3. \A d \in Descs : d \in alive' <=> d \in alive BY AddressAssumption DEF Dropped
<1>4. call' = call /\ cs' = cs /\ cstatus' = cstatus /\ sstatus' = sstatus /\ dconn' = dconn
      /\ descs' = descs
  BY DEF Dropped
<1>5. FreeingDescs'
  <2> SUFFICES ASSUME NEW u \in Threads, NEW d \in Descs, FreesDesc(u, d)'
               PROVE  /\ d \in alive'
                      /\ \A c1 \in Conns : d \notin descs'[c1]
                      /\ \A s \in call'[u].todo : s \in stmts'[dconn'[d]]
                      /\ call'[u].at # None => call'[u].at \in stmts'[dconn'[d]]
                      /\ \A s \in Stmts : ard'[s] = d => s \in call'[u].todo \/ s = call'[u].at
    BY DEF FreeingDescs
  <2>1. FreesDesc(u, d) BY <1>4 DEF FreesDesc
  <2>2. d \in alive /\ dconn[d] \in Conns BY <1>1, <2>1 DEF FreeingDescs, DescTable
  <2>3. \A s \in stmts[dconn[d]] : s \notin S BY <1>1, <2>1, <2>2 DEF StmtTable, Droppables
  <2>4. stmts'[dconn[d]] = stmts[dconn[d]] BY <2>2, <2>3 DEF Dropped
  <2>5. \A s \in Stmts : ard'[s] = d => ard[s] = d BY HandlesAssumption DEF Dropped
  <2> QED BY <1>1, <1>3, <1>4, <2>1, <2>2, <2>4, <2>5 DEF FreeingDescs
<1>6. Executions'
  <2> SUFFICES ASSUME NEW u \in Threads, NEW s \in Stmts, Executes(u, s)'
               PROVE  /\ s \in alive' /\ parent'[s] = None
                      /\ call'[u].todo = {Estmt(s)'}
                      /\ call'[u].at # None => call'[u].at = hdbc'[s] /\ cs'[hdbc'[s]] = u
    BY DEF Executions
  <2>1. Executes(u, s) BY <1>4 DEF Executes
  <2>2. s \notin S /\ delegate[s] \notin S BY <2>1 DEF Droppables
  <2>3. s \in alive' /\ hdbc'[s] = hdbc[s] /\ parent'[s] = parent[s] /\ delegate'[s] = delegate[s]
    BY <1>1, <1>2, <2>1, <2>2 DEF Executions, Dropped, Undelegated
  <2> QED BY <1>1, <1>4, <2>1, <2>3 DEF Executions, Estmt
<1>7. Targets' /\ Sections' BY <1>1, <1>4 DEF Targets, Sections
<1>8. Apart' BY HandlesAssumption, <1>1, <1>4 DEF Apart, Dropped, FreesConn, FreesDesc, Executes
<1> QED BY <1>5, <1>6, <1>7, <1>8

\* A statement's delegate is not executing when neither is in use.
LEMMA DelegatesFree ==
  ASSUME IInv, NEW s \in Stmts, parent[s] = None, \A u \in Threads : ~Executes(u, s)
  PROVE  /\ Droppable(Delegates(s)) = Delegates(s)
         /\ Delegates(s) \in SUBSET Stmts
         /\ \A x : x \in Delegates(s) <=> x = delegate[s] /\ x # None
<1>1. /\ Types /\ Links /\ Executions /\ Targets /\ Sections BY DEF IInv
<1>2. \A x : x \in Delegates(s) <=> x = delegate[s] /\ x # None BY DEF Delegates
<1>3. Delegates(s) \in SUBSET Stmts BY <1>1, <1>2 DEF Types
<1>4. ASSUME NEW x \in Delegates(s), sstatus[x] = "executing"
      PROVE  FALSE
  <2>1. PICK u \in Threads : call[u].op = "execute" /\ x \in call[u].todo BY <1>1, <1>3, <1>4 DEF Sections
  <2>2. PICK o \in Stmts : Executes(u, o) BY <1>1, <2>1 DEF Targets, Executes
  <2>3. x = Estmt(o) /\ parent[o] = None BY <1>1, <2>1, <2>2 DEF Executions
  <2>4. x = delegate[s] /\ x # None /\ parent[x] = s BY <1>1, <1>2, <1>4 DEF Links
  <2>5. s # None BY HandlesAssumption
  <2>6. delegate[o] = x BY <2>3, <2>4, <2>5 DEF Estmt
  <2>7. o = s BY <1>1, <2>4, <2>6 DEF Links
  <2> QED BY <2>2, <2>7
<1> QED BY <1>2, <1>3, <1>4 DEF Droppable

--------------------
(* The steps that make something, or only link.                            *)

\* Nothing points to a new environment.
LEMMA AllocEnvKeeps ==
  ASSUME Prudent, IInv, NEW t \in Threads, NEW e \in Envs, PGAPI_AllocEnv(t, e)
  PROVE  IInv'
<1>1. Types' /\ ~bad' BY DEF IInv, Types, PGAPI_AllocEnv, tables, links
<1>2. Targets' /\ Apart' /\ Sections'
  BY DEF IInv, Targets, Apart, FreesConn, FreesDesc, Executes, Sections, PGAPI_AllocEnv, tables, links
<1>3. ConnTable'
  BY HandlesAssumption, AddressAssumption DEF IInv, Types, ConnTable, FreesConn, PGAPI_AllocEnv, tables,
    links
<1>4. StmtTable'
  BY HandlesAssumption, AddressAssumption DEF IInv, Types, StmtTable, PGAPI_AllocEnv, tables, links
<1>5. DescTable'
  BY HandlesAssumption, AddressAssumption DEF IInv, Types, DescTable, FreesDesc, PGAPI_AllocEnv, tables,
    links
<1>6. Ards' BY HandlesAssumption, AddressAssumption DEF IInv, Types, Ards, PGAPI_AllocEnv, tables, links
<1>7. Links' BY HandlesAssumption, AddressAssumption DEF IInv, Types, Links, PGAPI_AllocEnv, tables, links
<1>8. FreeingConns'
  BY HandlesAssumption, AddressAssumption DEF IInv, Types, FreeingConns, FreesConn, PGAPI_AllocEnv, tables,
    links
<1>9. FreeingDescs'
  BY HandlesAssumption, AddressAssumption DEF IInv, Types, FreeingDescs, FreesDesc, PGAPI_AllocEnv, tables,
    links
<1>10. Executions'
  BY HandlesAssumption, AddressAssumption DEF IInv, Types, Executions, Executes, Estmt, PGAPI_AllocEnv,
    tables, links
<1> QED BY <1>1, <1>2, <1>3, <1>4, <1>5, <1>6, <1>7, <1>8, <1>9, <1>10 DEF IInv

\* A new connection is in the table and has an environment.
LEMMA AllocConnectKeeps ==
  ASSUME Prudent, IInv, NEW t \in Threads, NEW c \in Conns, NEW e \in Envs, PGAPI_AllocConnect(t, c, e)
  PROVE  IInv'
<1>1. Types' /\ ~bad' BY DEF IInv, Types, PGAPI_AllocConnect, tables, links
<1>2. Targets' /\ Apart'
  BY DEF IInv, Targets, Apart, FreesConn, FreesDesc, Executes, PGAPI_AllocConnect, tables, links
<1>3. ConnTable'
  BY HandlesAssumption, AddressAssumption DEF IInv, Types, ConnTable, FreesConn, PGAPI_AllocConnect, tables,
    links
<1>4. StmtTable'
  BY HandlesAssumption, AddressAssumption DEF IInv, Types, StmtTable, PGAPI_AllocConnect, tables, links
<1>5. DescTable'
  BY HandlesAssumption, AddressAssumption DEF IInv, Types, DescTable, FreesDesc, PGAPI_AllocConnect, tables,
    links
<1>6. Ards'
  BY HandlesAssumption, AddressAssumption DEF IInv, Types, Ards, PGAPI_AllocConnect, tables, links
<1>7. Links'
  BY HandlesAssumption, AddressAssumption DEF IInv, Types, Links, PGAPI_AllocConnect, tables, links
<1>8. FreeingConns'
  BY HandlesAssumption, AddressAssumption DEF IInv, Types, FreeingConns, FreesConn, PGAPI_AllocConnect,
    tables, links
<1>9. FreeingDescs'
  <2>1. \A d \in Descs, u \in Threads : FreesDesc(u, d) => dconn[d] \in Conns /\ dconn[d] # c
    BY DEF IInv, FreeingDescs, DescTable, PGAPI_AllocConnect
  <2>2. \A x \in Conns : x # c => stmts'[x] = stmts[x] BY DEF IInv, Types, PGAPI_AllocConnect
  <2> QED BY <2>1, <2>2 DEF IInv, FreeingDescs, FreesDesc, PGAPI_AllocConnect, links
<1>10. Executions'
  BY HandlesAssumption, AddressAssumption DEF IInv, Types, Executions, Executes, Estmt, PGAPI_AllocConnect,
    tables, links
<1>11. Sections'
  BY HandlesAssumption, AddressAssumption DEF IInv, Types, Sections, PGAPI_AllocConnect, tables, links
<1> QED BY <1>1, <1>2, <1>3, <1>4, <1>5, <1>6, <1>7, <1>8, <1>9, <1>10, <1>11 DEF IInv

\* SQLConnect.
LEMMA ConnectKeeps ==
  ASSUME Prudent, IInv, NEW t \in Threads, NEW c \in Conns, Connect(t, c)
  PROVE  IInv'
<1>1. Types' /\ ~bad' BY DEF IInv, Types, Connect, tables, links
<1>2. ConnTable' /\ StmtTable' /\ DescTable' /\ Ards' /\ Links' /\ FreeingConns' /\ FreeingDescs' /\ Executions' /\ Targets' /\ Apart'
  BY DEF IInv, ConnTable, FreesConn, StmtTable, DescTable, FreesDesc, Ards, Links, FreeingConns,
    FreeingDescs, Executions, Executes, Estmt, Targets, Apart, Connect, tables, links
<1>3. Sections' BY HandlesAssumption, AddressAssumption DEF IInv, Types, Sections, Connect, tables, links
<1> QED BY <1>1, <1>2, <1>3 DEF IInv

\* A new statement is in the table of its connection.
LEMMA AllocStmtKeeps ==
  ASSUME Prudent, IInv, NEW t \in Threads, NEW s \in Stmts, NEW c \in Conns, PGAPI_AllocStmt(t, s, c)
  PROVE  IInv'
<1>1. Types' /\ ~bad' BY DEF IInv, Types, PGAPI_AllocStmt, tables, links, Made
<1>2. Targets' BY DEF IInv, Targets, PGAPI_AllocStmt, tables, links, Made
<1>3. ConnTable'
  BY HandlesAssumption, AddressAssumption DEF IInv, Types, ConnTable, FreesConn, PGAPI_AllocStmt, tables,
    links, Made
<1>4. StmtTable'
  BY HandlesAssumption, AddressAssumption DEF IInv, Types, StmtTable, PGAPI_AllocStmt, tables, links, Made
<1>5. DescTable'
  BY HandlesAssumption, AddressAssumption DEF IInv, Types, DescTable, FreesDesc, PGAPI_AllocStmt, tables,
    links, Made
<1>6. Ards'
  BY HandlesAssumption, AddressAssumption DEF IInv, Types, Ards, PGAPI_AllocStmt, tables, links, Made
<1>7. Links'
  BY HandlesAssumption, AddressAssumption DEF IInv, Types, Links, PGAPI_AllocStmt, tables, links, Made
<1>8. FreeingConns'
  BY HandlesAssumption, AddressAssumption DEF IInv, Types, FreeingConns, FreesConn, PGAPI_AllocStmt, tables,
    links, Made
<1>9. FreeingDescs'
  BY HandlesAssumption, AddressAssumption DEF IInv, Types, FreeingDescs, FreesDesc, PGAPI_AllocStmt, tables,
    links, Made
<1>10. Executions'
  BY HandlesAssumption, AddressAssumption DEF IInv, Types, Executions, Executes, Estmt, PGAPI_AllocStmt,
    tables, links, Made
<1>11. Apart'
  <2>1. \A x \in Stmts, u \in Threads : Executes(u, x) => hdbc'[x] = hdbc[x] /\ ard'[x] = ard[x]
    BY DEF IInv, Types, Executions, PGAPI_AllocStmt, Made
  <2> QED BY <2>1 DEF IInv, Apart, FreesConn, FreesDesc, Executes, PGAPI_AllocStmt
<1>12. Sections'
  BY HandlesAssumption, AddressAssumption DEF IInv, Types, Sections, PGAPI_AllocStmt, tables, links, Made
<1> QED BY <1>1, <1>2, <1>3, <1>4, <1>5, <1>6, <1>7, <1>8, <1>9, <1>10, <1>11, <1>12 DEF IInv

\* A new delegate is linked with a statement of its connection, which is in no call.
LEMMA DelegatedKeeps ==
  ASSUME Prudent, IInv, NEW t \in Threads, NEW s \in Stmts, NEW p \in Stmts, Delegated(t, s, p)
  PROVE  IInv'
<1>1. Types' /\ ~bad' BY DEF IInv, Types, Delegated, tables, links, Made, Free, Unused, Uses, Prudent
<1>2. Targets' BY DEF IInv, Targets, Delegated, tables, links, Made
<1>3. ConnTable'
  BY HandlesAssumption, AddressAssumption DEF IInv, Types, ConnTable, FreesConn, Delegated, tables, links,
    Made, Free, Unused, Uses, Prudent
<1>4. StmtTable'
  BY HandlesAssumption, AddressAssumption DEF IInv, Types, StmtTable, Delegated, tables, links, Made, Free,
    Unused, Uses, Prudent
<1>5. DescTable'
  BY HandlesAssumption, AddressAssumption DEF IInv, Types, DescTable, FreesDesc, Delegated, tables, links,
    Made, Free, Unused, Uses, Prudent
<1>6. Ards'
  BY HandlesAssumption, AddressAssumption DEF IInv, Types, Ards, Delegated, tables, links, Made, Free,
    Unused, Uses, Prudent
<1>7. Links'
  BY HandlesAssumption, AddressAssumption DEF IInv, Types, Links, Delegated, tables, links, Made, Free,
    Unused, Uses, Prudent
<1>8. FreeingConns'
  BY HandlesAssumption, AddressAssumption DEF IInv, Types, FreeingConns, FreesConn, Delegated, tables,
    links, Made, Free, Unused, Uses, Prudent
<1>9. FreeingDescs'
  BY HandlesAssumption, AddressAssumption DEF IInv, Types, FreeingDescs, FreesDesc, Delegated, tables,
    links, Made, Free, Unused, Uses, Prudent
<1>10. Executions'
  <2>1. Unused(t, {p}) /\ Free(t) BY DEF Delegated
  <2>2. \A u \in Threads : ~Executes(u, p) BY <2>1, UnusedMeans, FreeMeans
  <2>3. \A x \in Stmts, u \in Threads : Executes(u, x) => x # s /\ x # p
    BY <2>2 DEF IInv, Executions, Delegated
  <2>4. \A x \in Stmts : x # s /\ x # p =>
          /\ hdbc'[x] = hdbc[x] /\ parent'[x] = parent[x] /\ delegate'[x] = delegate[x]
          /\ x \in alive => x \in alive'
    BY DEF IInv, Types, Delegated, Made
  <2>5. call' = call /\ cs' = cs BY DEF Delegated
  <2> QED BY <2>3, <2>4, <2>5 DEF IInv, Executions, Executes, Estmt
<1>11. Apart'
  <2>1. \A x \in Stmts, u \in Threads : Executes(u, x) => hdbc'[x] = hdbc[x] /\ ard'[x] = ard[x]
    BY DEF IInv, Types, Executions, Delegated, Made
  <2> QED BY <2>1 DEF IInv, Apart, FreesConn, FreesDesc, Executes, Delegated
<1>12. Sections'
  BY HandlesAssumption, AddressAssumption DEF IInv, Types, Sections, Delegated, tables, links, Made, Free,
    Unused, Uses, Prudent
<1> QED BY <1>1, <1>2, <1>3, <1>4, <1>5, <1>6, <1>7, <1>8, <1>9, <1>10, <1>11, <1>12 DEF IInv

\* A new descriptor is in the table of its connection.
LEMMA AllocDescKeeps ==
  ASSUME Prudent, IInv, NEW t \in Threads, NEW d \in Descs, NEW c \in Conns, PGAPI_AllocDesc(t, d, c)
  PROVE  IInv'
<1>1. Types' /\ ~bad' BY DEF IInv, Types, PGAPI_AllocDesc, tables, links
<1>2. Targets' /\ Sections' BY DEF IInv, Targets, Sections, PGAPI_AllocDesc, tables, links
<1>3. ConnTable'
  BY HandlesAssumption, AddressAssumption DEF IInv, Types, ConnTable, FreesConn, PGAPI_AllocDesc, tables,
    links
<1>4. StmtTable'
  BY HandlesAssumption, AddressAssumption DEF IInv, Types, StmtTable, PGAPI_AllocDesc, tables, links
<1>5. DescTable'
  BY HandlesAssumption, AddressAssumption DEF IInv, Types, DescTable, FreesDesc, PGAPI_AllocDesc, tables,
    links
<1>6. Ards' BY HandlesAssumption, AddressAssumption DEF IInv, Types, Ards, PGAPI_AllocDesc, tables, links
<1>7. Links'
  BY HandlesAssumption, AddressAssumption DEF IInv, Types, Links, PGAPI_AllocDesc, tables, links
<1>8. FreeingConns'
  BY HandlesAssumption, AddressAssumption DEF IInv, Types, FreeingConns, FreesConn, PGAPI_AllocDesc, tables,
    links
<1>9. FreeingDescs'
  BY HandlesAssumption, AddressAssumption DEF IInv, Types, FreeingDescs, FreesDesc, PGAPI_AllocDesc, tables,
    links
<1>10. Executions'
  BY HandlesAssumption, AddressAssumption DEF IInv, Types, Executions, Executes, Estmt, PGAPI_AllocDesc,
    tables, links
<1>11. Apart'
  <2>1. \A x \in Descs, u \in Threads : FreesDesc(u, x) => dconn'[x] = dconn[x]
    BY DEF IInv, Types, FreeingDescs, PGAPI_AllocDesc
  <2> QED BY <2>1 DEF IInv, Apart, FreesConn, FreesDesc, Executes, PGAPI_AllocDesc, links
<1> QED BY <1>1, <1>2, <1>3, <1>4, <1>5, <1>6, <1>7, <1>8, <1>9, <1>10, <1>11 DEF IInv

\* The descriptor a statement is given is of its connection, and nobody is freeing it.
LEMMA SetDescKeeps ==
  ASSUME Prudent, IInv, NEW t \in Threads, NEW s \in Stmts, NEW d \in Descs \cup {None}, SetDesc(t, s, d)
  PROVE  IInv'
<1>1. Types' /\ ~bad'
  BY DEF IInv, Types, SetDesc, tables, links, Free, Idle, Unused, Uses, Shared, Prudent
<1>2. ConnTable' /\ StmtTable' /\ DescTable' /\ Links' /\ FreeingConns' /\ Executions' /\ Targets' /\ Sections'
  BY DEF IInv, ConnTable, FreesConn, StmtTable, DescTable, FreesDesc, Links, FreeingConns, Executions,
    Executes, Estmt, Targets, Sections, SetDesc, tables, links
<1>3. Ards'
  BY HandlesAssumption, AddressAssumption DEF IInv, Types, Ards, SetDesc, tables, links, Free, Idle, Unused,
    Uses, Shared, Prudent
<1>4. FreeingDescs'
  BY HandlesAssumption, AddressAssumption DEF IInv, Types, FreeingDescs, FreesDesc, SetDesc, tables, links,
    Free, Idle, Unused, Uses, Shared, Prudent
<1>5. Apart'
  BY HandlesAssumption, AddressAssumption DEF IInv, Types, Apart, FreesConn, FreesDesc, Executes, SetDesc,
    tables, links, Free, Idle, Unused, Uses, Shared, Prudent
<1> QED BY <1>1, <1>2, <1>3, <1>4, <1>5 DEF IInv

--------------------
(* The steps that free connections.                                        *)

\* Nobody is at work with what belongs to connections that are not in use.
LEMMA QuietWhenUnused ==
  ASSUME Prudent, IInv, NEW t \in Threads, Free(t), NEW C \in SUBSET Conns,
         NEW O, Unused(t, O), C \subseteq O
  PROVE  Quiet(C) /\ \A u \in Threads, c \in C : ~FreesConn(u, c)
<1>1. \A u \in Threads : u # t =>
        /\ \A s \in Stmts : Executes(u, s) => hdbc[s] \notin O
        /\ \A c \in Conns : FreesConn(u, c) => c \notin O
        /\ \A d \in Descs : FreesDesc(u, d) => dconn[d] \notin O
  BY UnusedMeans
<1>2. \A x : ~Executes(t, x) /\ ~FreesConn(t, x) /\ ~FreesDesc(t, x) BY FreeMeans
<1> QED BY <1>1, <1>2 DEF Quiet

\* SQLDisconnect frees what the connection has, and not the connection.
LEMMA DisconnectKeeps ==
  ASSUME Prudent, IInv, NEW t \in Threads, NEW c \in Conns, PGAPI_Disconnect(t, c)
  PROVE  IInv'
<1>1. /\ Free(t) /\ c \in alive /\ CC_cleanup({c}, {})
      /\ conns' = conns /\ henv' = henv /\ call' = call
      /\ Unused(t, {c} \cup stmts[c] \cup descs[c]) /\ DelegateGone({c}) = {}
  BY DEF PGAPI_Disconnect, Settled, Prudent
<1>2. Quiet({c}) BY <1>1, QuietWhenUnused
<1>3. OthersGoOn /\ call' \in [Threads -> Calls] BY <1>1 DEF OthersGoOn, IInv, Types
<1>4. /\ \A x \in Conns : x \in alive' <=> x \in alive
      /\ \A x \in Envs : x \in alive' <=> x \in alive
  BY <1>1, <1>2, CleanupAlive
<1>5. Types' BY <1>1, <1>3, CleanupTypes DEF IInv, Types
<1>6. ~bad' BY <1>1, CleanupTouches
<1>7. ConnTable' /\ FreeingConns' BY <1>1, <1>4 DEF IInv, ConnTable, FreeingConns, FreesConn, Types
<1>8. StmtTable' /\ DescTable' /\ Ards' /\ Links' BY <1>1, <1>2, <1>3, CleanupTables
<1>9. FreeingDescs' /\ Executions' /\ Targets' /\ Apart' /\ Sections' BY <1>1, <1>2, <1>3, CleanupCalls
<1> QED BY <1>5, <1>6, <1>7, <1>8, <1>9 DEF IInv

\* SQLFreeEnv: all its connections are idle, so all of them go.
LEMMA EnvFreedKeeps ==
  ASSUME Prudent, IInv, NEW t \in Threads, NEW e \in Envs, EN_Destructor(t, e)
  PROVE  IInv'
<1> DEFINE C == Destroyed(e)
           O == {e} \cup Mine(e) \cup UNION {stmts[c] \cup descs[c] : c \in Mine(e)}
<1>1. /\ Free(t) /\ e \in alive /\ CC_cleanup(C, C \cup {e}) /\ conns' = Cleared(e)
      /\ henv' = [c \in Conns |-> IF c \in C THEN None ELSE henv[c]]
      /\ call' = call /\ Unused(t, O) /\ DelegateGone(C) = {}
  BY DEF EN_Destructor, Settled, Prudent
<1>2. /\ Mine(e) \in SUBSET Conns /\ Mine(e) \subseteq O /\ Mine(e) \subseteq conns
      /\ \A c \in conns : c \in Mine(e) <=> henv[c] = e
  BY DEF Mine, IInv, Types
<1>3. Quiet(Mine(e)) /\ \A u \in Threads, c \in Mine(e) : ~FreesConn(u, c)
  <2> HIDE DEF O
  <2> QED BY <1>1, <1>2, QuietWhenUnused
<1>4. C = Mine(e)
  <2>1. ASSUME NEW c \in Mine(e), cstatus[c] = "executing"
        PROVE  FALSE
    <3>1. c \in Conns /\ cs[c] \in Threads /\ call[cs[c]].op = "execute" /\ call[cs[c]].at = c
      BY <1>2, <2>1 DEF IInv, Sections, Types
    <3>2. c # None BY HandlesAssumption, <3>1
    <3>3. PICK s \in Stmts : Executes(cs[c], s) BY <3>1 DEF IInv, Targets, Executes
    <3>4. hdbc[s] = c BY <3>1, <3>2, <3>3 DEF IInv, Executions
    <3> QED BY <1>3, <2>1, <3>1, <3>3, <3>4 DEF Quiet
  <2> QED BY <2>1 DEF Destroyed
<1>5. C \in SUBSET Conns /\ C \subseteq alive /\ Quiet(C) BY <1>2, <1>3, <1>4 DEF IInv, ConnTable
<1> HIDE DEF C, O
<1>6. C \cup {e} \in SUBSET (C \cup Envs) OBVIOUS
<1>7. OthersGoOn /\ call' \in [Threads -> Calls] BY <1>1 DEF OthersGoOn, IInv, Types
<1>8. /\ \A x \in Conns : x \in alive' <=> x \in alive /\ x \notin C
      /\ \A x \in Envs : x \in alive' <=> x \in alive /\ x # e
  <2>1. /\ \A x \in Conns : x \in alive' <=> x \in alive /\ x \notin C \cup {e}
        /\ \A x \in Envs : x \in alive' <=> x \in alive /\ x \notin C \cup {e}
    BY <1>1, <1>5, <1>6, CleanupAlive
  <2> QED BY <1>5, <2>1, AddressAssumption
<1>9. conns' \in SUBSET conns /\ \A c \in conns : c \in conns' <=> c \notin C BY <1>1, <1>4 DEF Cleared, C
<1>10. \A u \in Threads, c \in Conns : FreesConn(u, c) => henv[c] # e
  <2>1. ASSUME NEW u \in Threads, NEW c \in Conns, FreesConn(u, c) PROVE henv[c] # e
    <3>1. e \in O BY DEF O
    <3>2. u # t BY <1>1, <2>1, FreeMeans
    <3> QED BY <1>1, <2>1, <3>1, <3>2, UnusedMeans
  <2> QED BY <2>1
<1>11. Types'
  <2>1. henv' \in [Conns -> Envs \cup {None}] /\ conns' \in SUBSET Conns BY <1>1, <1>9 DEF IInv, Types
  <2> QED BY <1>1, <1>5, <1>7, <2>1, CleanupTypes DEF IInv
<1>12. ~bad' BY <1>1, <1>5, CleanupTouches
<1>13. ConnTable'
  <2>1. ASSUME NEW c \in Conns, c \in alive'
        PROVE  /\ henv'[c] \in Envs /\ henv'[c] \in alive'
               /\ c \in conns' \/ \E u \in Threads : FreesConn(u, c)'
    <3>1. c \in alive /\ c \notin C /\ henv'[c] = henv[c] BY <1>1, <1>8, <2>1
    <3>2. henv[c] \in Envs /\ henv[c] \in alive /\ (c \in conns \/ \E u \in Threads : FreesConn(u, c))
      BY <3>1 DEF IInv, ConnTable
    <3>3. henv[c] # e BY <1>2, <1>4, <1>10, <3>1, <3>2 DEF C
    <3> QED BY <1>1, <1>8, <1>9, <3>1, <3>2, <3>3 DEF FreesConn
  <2>2. \A c \in conns' : c \in alive' BY <1>5, <1>8, <1>9 DEF IInv, ConnTable, Types
  <2> QED BY <2>1, <2>2 DEF ConnTable
<1>14. FreeingConns' BY <1>1, <1>3, <1>4, <1>8, <1>9 DEF IInv, FreeingConns, FreesConn, C
<1>15. StmtTable' /\ DescTable' /\ Ards' /\ Links' BY <1>1, <1>5, <1>6, <1>7, CleanupTables
<1>16. FreeingDescs' /\ Executions' /\ Targets' /\ Apart' /\ Sections'
  BY <1>1, <1>5, <1>6, <1>7, CleanupCalls
<1> QED BY <1>11, <1>12, <1>13, <1>14, <1>15, <1>16 DEF IInv

\* SQLFreeConnect empties the slot of the connection, whose memory is still there.
LEMMA RemoveKeeps ==
  ASSUME Prudent, IInv, NEW t \in Threads, NEW c \in Conns, EN_remove_connection(t, c)
  PROVE  IInv'
<1>1. /\ Free(t) /\ c \in alive /\ Touch({henv[c]})
      /\ Unused(t, {c} \cup stmts[c] \cup descs[c])
      /\ UNCHANGED <<alive, henv, cstatus, unnamed, stmts, descs, links, dconn, cs>>
  BY DEF EN_remove_connection
<1>2. ~bad'
  <2>1. henv[c] \in alive BY <1>1 DEF IInv, ConnTable
  <2> QED BY <1>1, <2>1, TouchesAlive DEF IInv
<1>3. CASE conns' = conns /\ call' = call
  BY <1>1, <1>2, <1>3 DEF IInv, Types, ConnTable, StmtTable, DescTable, Ards, Links, FreeingConns,
    FreeingDescs, Executions, Targets, Apart, Sections, FreesConn, FreesDesc, Executes, Estmt, links
<1>4. CASE c \in conns /\ conns' = conns \ {c}
           /\ call' = [call EXCEPT ![t] = [Idle EXCEPT !.op = "free_conn", !.obj = c]]
  <2>1. Quiet({c}) /\ \A u \in Threads : ~FreesConn(u, c) BY <1>1, QuietWhenUnused
  <2>2. call[t].op = "idle" BY <1>1, FreeMeans
  <2>3. call'[t] = [op |-> "free_conn", obj |-> c, todo |-> {}, at |-> None] BY <1>4 DEF Idle, IInv, Types
  <2>4. call' \in [Threads -> Calls]
    <3>1. call'[t] \in Calls BY <2>3 DEF Calls
    <3>2. call' = [call EXCEPT ![t] = call'[t]] BY <1>4 DEF IInv, Types
    <3> QED BY <3>1, <3>2 DEF IInv, Types
  <2>5. /\ \A u \in Threads : u # t => call'[u] = call[u]
        /\ call'[t].op = "free_conn" /\ call'[t].obj = c
    BY <1>4, <2>3 DEF IInv, Types
  <2>6. Types' BY <1>1, <1>4, <2>4 DEF IInv, Types, links
  <2>7. ConnTable' BY <1>1, <1>4, <2>2, <2>5 DEF IInv, ConnTable, FreesConn, Types
  <2>8. StmtTable' /\ Ards' /\ Links' BY <1>1 DEF IInv, StmtTable, Ards, Links, links
  <2>9. DescTable' BY <1>1, <2>2, <2>5 DEF IInv, DescTable, FreesDesc
  <2>10. FreeingConns' BY <1>1, <1>4, <2>1, <2>5 DEF IInv, FreeingConns, FreesConn
  <2>11. FreeingDescs' BY <1>1, <2>5 DEF IInv, FreeingDescs, FreesDesc, links
  <2>12. Executions' BY <1>1, <2>5 DEF IInv, Executions, Executes, Estmt, links
  <2>13. Targets' BY <2>5 DEF IInv, Targets
  <2>14. Apart' BY <1>1, <2>1, <2>5 DEF IInv, Apart, Quiet, FreesConn, FreesDesc, Executes, links
  <2>15. Sections'
    <3>1. \A y \in Conns : cs[y] # None => cs[y] \in Threads /\ cs[y] # t
      BY <2>2 DEF IInv, Types, Sections
    <3>2. \A u \in Threads : call[u].op = "execute" => call'[u] = call[u] BY <2>2, <2>5
    <3> QED BY <1>1, <3>1, <3>2 DEF IInv, Sections, links
  <2> QED BY <1>2, <2>6, <2>7, <2>8, <2>9, <2>10, <2>11, <2>12, <2>13, <2>14, <2>15 DEF IInv
<1> QED BY <1>3, <1>4 DEF EN_remove_connection

\* CC_Destructor is never refused, and nobody is at work with the connection.
LEMMA ConnFreedKeeps ==
  ASSUME Prudent, IInv, FreedInOrder, NEW t \in Threads, CC_Destructor(t)
  PROVE  IInv'
<1>1. PICK c \in Conns : FreesConn(t, c) /\ c = call[t].obj BY DEF CC_Destructor, FreesConn, IInv, Targets
<1>2. c \in alive /\ c \notin conns BY <1>1 DEF IInv, FreeingConns
<1>3. \A u \in Threads : u # t =>
        /\ ~FreesConn(u, c)
        /\ \A d \in Descs : FreesDesc(u, d) => dconn[d] # c
        /\ \A s \in Stmts : Executes(u, s) => hdbc[s] # c
  BY <1>1 DEF IInv, Apart
<1>4. Quiet({c}) BY <1>1, <1>3 DEF Quiet, Executes, FreesDesc, FreesConn
<1>5. cstatus[c] # "executing"
  <2> SUFFICES ASSUME cstatus[c] = "executing" PROVE FALSE OBVIOUS
  <2>1. cs[c] \in Threads /\ call[cs[c]].op = "execute" /\ call[cs[c]].at = c BY DEF IInv, Sections, Types
  <2>2. c # None BY HandlesAssumption
  <2>3. PICK s \in Stmts : Executes(cs[c], s) BY <2>1 DEF IInv, Targets, Executes
  <2>4. hdbc[s] = c BY <2>1, <2>2, <2>3 DEF IInv, Executions
  <2> QED BY <1>4, <2>1, <2>3, <2>4 DEF Quiet
<1>6. /\ CC_cleanup({c}, {c}) /\ henv' = [henv EXCEPT ![c] = None]
      /\ call' = [call EXCEPT ![t] = Idle] /\ conns' = conns
  BY <1>1, <1>2, <1>5 DEF CC_Destructor
<1>7. Idle \in Calls BY DEF Idle, Calls
<1>8. OthersGoOn /\ call' \in [Threads -> Calls]
  BY <1>1, <1>6, <1>7 DEF OthersGoOn, IInv, Types, FreesConn
<1>9. /\ \A x \in Conns : x \in alive' <=> x \in alive /\ x # c
      /\ \A x \in Envs : x \in alive' <=> x \in alive
  <2>1. /\ \A x \in Conns : x \in alive' <=> x \in alive /\ x \notin {c}
        /\ \A x \in Envs : x \in alive' <=> x \in alive /\ x \notin {c}
    BY <1>2, <1>4, <1>6, CleanupAlive
  <2> QED BY <2>1, AddressAssumption
<1>10. Types' BY <1>6, <1>8, CleanupTypes DEF IInv, Types
<1>11. ~bad'
  <2>1. DelegateGone({c}) = {}
    BY <1>1 DEF DelegateGone, CleanedStmts, FreedInOrder, IInv, Types, StmtTable
  <2> QED BY <1>2, <1>6, <2>1, CleanupTouches
<1>12. \A u \in Threads, x \in Conns : FreesConn(u, x)' <=> FreesConn(u, x) /\ x # c
  <2>1. /\ \A u \in Threads : u # t => call'[u] = call[u]
        /\ call'[t].op = "idle"
    BY <1>6 DEF IInv, Types, Idle
  <2> QED BY <1>1, <1>3, <2>1 DEF FreesConn
<1>13. ConnTable' /\ FreeingConns' BY <1>2, <1>6, <1>9, <1>12 DEF IInv, Types, ConnTable, FreeingConns
<1>14. StmtTable' /\ DescTable' /\ Ards' /\ Links' BY <1>2, <1>4, <1>6, <1>8, CleanupTables
<1>15. FreeingDescs' /\ Executions' /\ Targets' /\ Apart' /\ Sections'
  BY <1>2, <1>4, <1>6, <1>8, CleanupCalls
<1> QED BY <1>10, <1>11, <1>13, <1>14, <1>15 DEF IInv

--------------------
(* The steps of statements.                                                *)

\* Statements that are not in use can be dropped, and their delegates.
LEMMA DroppedKeeps ==
  ASSUME IInv, NEW S \in SUBSET Stmts, Droppables(S), Dropped(S), ~bad'
  PROVE  IInv'
<1>1. Types' /\ ConnTable' /\ StmtTable' /\ DescTable' /\ Ards' /\ Links' /\ FreeingConns'
  BY DroppedTables
<1>2. FreeingDescs' /\ Executions' /\ Targets' /\ Apart' /\ Sections' BY DroppedCalls
<1> QED BY <1>1, <1>2 DEF IInv

\* Nobody executes a statement that is not in use, or walks the table it is in.
LEMMA NobodyAt ==
  ASSUME Prudent, IInv, NEW t \in Threads, Free(t), NEW s \in Stmts, NEW O, s \in O, Unused(t, O)
  PROVE  \A u \in Threads : ~Executes(u, s)
  BY UnusedMeans, FreeMeans

LEMMA UnwalkedMeans ==
  ASSUME Prudent, NEW t \in Threads, Free(t), NEW c, Unwalked(t, c)
  PROVE  \A u \in Threads, d \in Descs : FreesDesc(u, d) => dconn[d] # c
<1>1. \A d : ~FreesDesc(t, d) BY FreeMeans
<1> QED BY <1>1 DEF Unwalked, Prudent, FreesDesc

\* A live statement has a connection.
LEMMA HasConn ==
  ASSUME IInv, NEW s \in Stmts, s \in alive
  PROVE  hdbc[s] # None /\ hdbc[s] \in Conns /\ hdbc[s] \in alive /\ s # None
  BY HandlesAssumption DEF IInv, StmtTable

\* A statement that is in no call goes with its delegate.
LEMMA WithDelegate ==
  ASSUME IInv, NEW s \in Stmts, s \in alive, parent[s] = None,
         \A u \in Threads : ~Executes(u, s),
         \A u \in Threads, d \in Descs : FreesDesc(u, d) => dconn[d] # hdbc[s]
  PROVE  Droppables({s} \cup Delegates(s)) /\ Droppables(Delegates(s))
<1>1. /\ Delegates(s) \in SUBSET Stmts
      /\ \A x : x \in Delegates(s) <=> x = delegate[s] /\ x # None
  BY DelegatesFree
<1>2. \A x \in Delegates(s) : /\ x \in alive /\ hdbc[x] = hdbc[s]
                              /\ parent[x] = s /\ delegate[x] = None
  BY HandlesAssumption, <1>1 DEF IInv, Types, Links
<1>3. \A u \in Threads, o \in Stmts : Executes(u, o) =>
        o # s /\ parent[o] = None /\ delegate[o] # s /\ (delegate[o] # None => parent[delegate[o]] = o)
  BY HandlesAssumption DEF IInv, Executions, Links
<1>4. s # None BY HandlesAssumption
<1> QED BY <1>1, <1>2, <1>3, <1>4 DEF Droppables

LEMMA FreeStmtKeeps ==
  ASSUME Prudent, IInv, NEW t \in Threads, NEW s \in Stmts, PGAPI_FreeStmt(t, s)
  PROVE  IInv'
<1> DEFINE S == {s} \cup Delegates(s)
<1>1. /\ Free(t) /\ s \in alive /\ parent[s] = None /\ Unused(t, S)
      /\ hdbc[s] # None => Unwalked(t, hdbc[s])
      /\ Drop({s} \cup Droppable(Delegates(s)))
      /\ UNCHANGED <<conns, henv, cstatus, descs, sstatus, dconn, cs, call>>
  BY DEF PGAPI_FreeStmt
<1>2. \A u \in Threads : ~Executes(u, s) BY <1>1, NobodyAt
<1>3. /\ Drop(S) /\ S \in SUBSET Stmts
      /\ \A x : x \in Delegates(s) <=> x = delegate[s] /\ x # None
  BY <1>1, <1>2, DelegatesFree
<1>4. Droppables(S)
  <2>1. \A u \in Threads, d \in Descs : FreesDesc(u, d) => dconn[d] # hdbc[s]
    BY <1>1, HasConn, UnwalkedMeans
  <2> QED BY <1>1, <1>2, <2>1, WithDelegate
<1> HIDE DEF S
<1>5. Dropped(S) BY <1>1, <1>3 DEF Drop, Dropped, UnnamedDropped, IInv, Types
<1>6. ~bad'
  <2>1. \A x \in S : x \in alive /\ hdbc[x] \in alive /\ (parent[x] = None \/ parent[x] = s)
    BY <1>1, <1>3, <1>4, HasConn DEF S, IInv, Links, Droppables
  <2>2. \A o \in S \cup {hdbc[x] : x \in S} \cup {parent[x] : x \in S} : o = None \/ o \in alive
    BY <1>1, <2>1
  <2> QED BY <1>3, <2>2, TouchesAlive, Zenon DEF Drop, IInv
<1> QED BY <1>3, <1>4, <1>5, <1>6, DroppedKeeps

LEMMA CloseStmtKeeps ==
  ASSUME Prudent, IInv, NEW t \in Threads, NEW s \in Stmts, CloseStmt(t, s)
  PROVE  IInv'
<1> DEFINE S == Delegates(s)
<1>1. /\ Free(t) /\ s \in alive /\ parent[s] = None /\ Unused(t, {s} \cup S)
      /\ hdbc[s] # None /\ Unwalked(t, hdbc[s]) /\ Touch({s, hdbc[s]} \cup S)
  BY DEF CloseStmt
<1>2. \A u \in Threads : ~Executes(u, s) BY <1>1, NobodyAt
<1>3. /\ Droppable(Delegates(s)) = S /\ S \in SUBSET Stmts
      /\ \A x : x \in S <=> x = delegate[s] /\ x # None
  BY <1>1, <1>2, DelegatesFree
<1>4. Droppables(S)
  <2>1. \A u \in Threads, d \in Descs : FreesDesc(u, d) => dconn[d] # hdbc[s] BY <1>1, UnwalkedMeans
  <2> QED BY <1>1, <1>2, <2>1, WithDelegate
<1> HIDE DEF S
<1>5. Dropped(S)
  <2>1. /\ alive' = alive \ S
        /\ stmts' = [c \in Conns |-> stmts[c] \ S]
        /\ unnamed' = UnnamedDropped(S \cup {s})
        /\ delegate' = [Undelegated(S) EXCEPT ![s] = None]
        /\ hdbc' = [x \in Stmts |-> IF x \in S THEN None ELSE hdbc[x]]
        /\ ard' = [x \in Stmts |-> IF x \in S THEN None ELSE ard[x]]
        /\ parent' = [x \in Stmts |-> IF x \in S THEN None ELSE parent[x]]
        /\ UNCHANGED <<conns, henv, cstatus, descs, sstatus, dconn, cs, call>>
    BY <1>3 DEF CloseStmt
  <2>2. delegate' = Undelegated(S) BY <1>3, <2>1 DEF Undelegated
  <2> QED BY <2>1, <2>2 DEF Dropped, UnnamedDropped, IInv, Types
<1>6. ~bad'
  <2>1. \A o \in {s, hdbc[s]} \cup S : o = None \/ o \in alive BY <1>1, <1>4, HasConn DEF Droppables
  <2> QED BY <1>1, <2>1, TouchesAlive, Zenon DEF IInv
<1> QED BY <1>3, <1>4, <1>5, <1>6, DroppedKeeps

LEMMA ResetDelegateKeeps ==
  ASSUME Prudent, IInv, NEW t \in Threads, NEW s \in Stmts, SC_reset_delegate(t, s)
  PROVE  IInv'
<1> DEFINE S == {delegate[s]}
<1>1. /\ Free(t) /\ s \in alive /\ delegate[s] # None /\ Unused(t, {s, delegate[s]})
      /\ Unwalked(t, hdbc[s]) /\ Drop(S)
      /\ UNCHANGED <<conns, henv, cstatus, descs, sstatus, dconn, cs, call>>
  BY DEF SC_reset_delegate
<1>2. \A u \in Threads : ~Executes(u, s) BY <1>1, NobodyAt
<1>3. /\ S \in SUBSET Stmts /\ parent[s] = None /\ delegate[s] \in alive
      /\ hdbc[delegate[s]] = hdbc[s] /\ parent[delegate[s]] = s
      /\ S = Delegates(s)
  BY <1>1 DEF IInv, Links, Types, Delegates
<1>4. Droppables(S)
  <2>1. \A u \in Threads, d \in Descs : FreesDesc(u, d) => dconn[d] # hdbc[s] BY <1>1, UnwalkedMeans
  <2> QED BY <1>1, <1>2, <1>3, <2>1, WithDelegate
<1>5. Dropped(S) BY <1>1, <1>3 DEF Drop, Dropped, UnnamedDropped, IInv, Types
<1>6. ~bad'
  <2>1. \A o \in S \cup {hdbc[x] : x \in S} \cup {parent[x] : x \in S} : o = None \/ o \in alive
    BY <1>1, <1>3, HasConn
  <2> QED BY <1>1, <2>1, TouchesAlive, Zenon DEF Drop, IInv
<1> QED BY <1>3, <1>4, <1>5, <1>6, DroppedKeeps

LEMMA PrepareKeeps ==
  ASSUME Prudent, IInv, NEW t \in Threads, NEW s \in Stmts, Prepare(t, s)
  PROVE  IInv'
<1>1. /\ s \in alive /\ Touch({hdbc[s]}) /\ unnamed' = [unnamed EXCEPT ![hdbc[s]] = s]
      /\ UNCHANGED <<alive, conns, henv, cstatus, stmts, descs, links, dconn, cs, call>>
  BY DEF Prepare
<1>2. hdbc[s] \in Conns /\ hdbc[s] \in alive /\ s \in stmts[hdbc[s]] BY <1>1, HasConn DEF IInv, StmtTable
<1>3. ~bad' BY <1>1, <1>2, TouchesAlive DEF IInv
<1>4. Types' BY <1>1, <1>2 DEF IInv, Types, links
<1>5. StmtTable' BY <1>1, <1>2 DEF IInv, Types, StmtTable, links
<1>6. /\ ConnTable' /\ DescTable' /\ Ards' /\ Links' /\ FreeingConns' /\ FreeingDescs'
      /\ Executions' /\ Targets' /\ Apart' /\ Sections'
  BY <1>1 DEF IInv, ConnTable, DescTable, Ards, Links, FreeingConns, FreeingDescs, Executions, Targets,
    Apart, Sections, FreesConn, FreesDesc, Executes, Estmt, links
<1> QED BY <1>3, <1>4, <1>5, <1>6 DEF IInv

\* From here to ExecuteReturn the statement, its delegate, its descriptor and its
\* connection are in use.
LEMMA ExecuteKeeps ==
  ASSUME Prudent, IInv, NEW t \in Threads, NEW s \in Stmts, Execute(t, s)
  PROVE  IInv'
<1> DEFINE c == hdbc[s]
           x == Estmt(s)
<1>1. /\ Free(t) /\ s \in alive /\ parent[s] = None /\ c \in alive /\ cs[c] = None
      /\ Unused(t, {s, x}) /\ Shared(t, ard[s]) /\ Open(t, c) /\ Touch({s, x, ard[s]})
      /\ cs' = [cs EXCEPT ![c] = t]
      /\ cstatus' = [cstatus EXCEPT ![c] = "executing"]
      /\ sstatus' = [sstatus EXCEPT ![x] = "executing"]
      /\ call' = [call EXCEPT ![t] = [op |-> "execute", obj |-> s, todo |-> {x}, at |-> c]]
      /\ UNCHANGED <<alive, conns, henv, unnamed, stmts, descs, hdbc, ard, delegate, parent, dconn>>
  BY DEF Execute
<1>2. c \in Conns /\ x \in Stmts /\ x \in alive /\ (ard[s] # None => ard[s] \in alive)
  BY <1>1, HasConn DEF IInv, Types, Links, Ards, Estmt
<1>3. ~bad' BY <1>1, <1>2, TouchesAlive DEF IInv
<1>4. /\ \A u \in Threads : ~Executes(u, s)
      /\ \A u \in Threads, d \in Descs : FreesDesc(u, d) => ard[s] # d
      /\ \A u \in Threads : ~FreesConn(u, c)
  <2>1. \A u \in Threads : ~Executes(u, s) BY <1>1, NobodyAt
  <2>2. \A y : ~FreesDesc(t, y) /\ ~FreesConn(t, y) BY <1>1, FreeMeans
  <2> QED BY <1>1, <2>1, <2>2 DEF Shared, Open, Prudent, FreesDesc, FreesConn
<1>5. call[t].op = "idle" BY <1>1, FreeMeans
<1>6. x = Estmt(s)' /\ hdbc[s] = c BY <1>1 DEF Estmt
<1> HIDE DEF c, x
<1>7. /\ \A u \in Threads : u # t => call'[u] = call[u]
      /\ call'[t].op = "execute" /\ call'[t].obj = s /\ call'[t].todo = {x} /\ call'[t].at = c
  BY <1>1 DEF IInv, Types
<1>8. Types'
  <2>1. [op |-> "execute", obj |-> s, todo |-> {x}, at |-> c] \in Calls BY <1>2 DEF Calls
  <2> QED BY <1>1, <1>2, <2>1 DEF IInv, Types
<1>9. ConnTable' /\ FreeingConns' BY <1>1, <1>5, <1>7 DEF IInv, ConnTable, FreeingConns, FreesConn
<1>10. StmtTable' /\ Ards' /\ Links' BY <1>1 DEF IInv, StmtTable, Ards, Links
<1>11. DescTable' /\ FreeingDescs' BY <1>1, <1>5, <1>7 DEF IInv, DescTable, FreeingDescs, FreesDesc
<1>12. Executions'
  <2> SUFFICES ASSUME NEW u \in Threads, NEW y \in Stmts, Executes(u, y)'
               PROVE  /\ y \in alive' /\ parent'[y] = None
                      /\ call'[u].todo = {Estmt(y)'}
                      /\ call'[u].at # None => call'[u].at = hdbc'[y] /\ cs'[hdbc'[y]] = u
    BY DEF Executions
  <2>1. CASE u = t BY <1>1, <1>2, <1>6, <1>7, <2>1 DEF IInv, Types, Executes
  <2>2. CASE u # t
    <3>1. Executes(u, y) /\ call'[u] = call[u] BY <1>7, <2>2 DEF Executes
    <3>2. /\ y \in alive /\ parent[y] = None /\ call[u].todo = {Estmt(y)}
          /\ call[u].at # None => call[u].at = hdbc[y] /\ cs[hdbc[y]] = u
      BY <3>1 DEF IInv, Executions
    <3>3. Estmt(y)' = Estmt(y) BY <1>1 DEF Estmt
    <3>4. hdbc[y] = c => cs[hdbc[y]] # u BY <1>1, HandlesAssumption
    <3> QED BY <1>1, <1>2, <3>1, <3>2, <3>3, <3>4 DEF IInv, Types
  <2> QED BY <2>1, <2>2
<1>13. Targets' BY <1>1, <1>7 DEF IInv, Targets
<1>14. Apart' BY <1>1, <1>4, <1>6, <1>7 DEF IInv, Apart, FreesConn, FreesDesc, Executes
<1>15. Sections'
  <2>1. \A y \in Conns : cs'[y] # None => call'[cs'[y]].op = "execute" /\ call'[cs'[y]].at = y
    BY <1>1, <1>2, <1>5, <1>7 DEF IInv, Sections, Types
  <2>2. \A y \in Conns : cstatus'[y] = "executing" => cs'[y] # None
    BY HandlesAssumption, <1>1, <1>2 DEF IInv, Sections, Types
  <2>3. \A y \in Stmts : sstatus'[y] = "executing" =>
          \E u \in Threads : call'[u].op = "execute" /\ call'[u].at # None /\ y \in call'[u].todo
    BY HandlesAssumption, <1>1, <1>2, <1>5, <1>7 DEF IInv, Sections, Types
  <2> QED BY <2>1, <2>2, <2>3 DEF Sections
<1> QED BY <1>3, <1>8, <1>9, <1>10, <1>11, <1>12, <1>13, <1>14, <1>15 DEF IInv

\* The section is left by the thread that took it, whose objects are still there.
LEMMA ExecuteEndKeeps ==
  ASSUME Prudent, IInv, NEW t \in Threads, ExecuteEnd(t)
  PROVE  IInv'
<1>1. PICK s \in Stmts : Executes(t, s) /\ call[t].obj = s BY DEF ExecuteEnd, Executes, IInv, Targets
<1> DEFINE c == hdbc[s]
           x == Estmt(s)
<1>2. /\ s \in alive /\ parent[s] = None /\ call[t].todo = {x} /\ call[t].at = c /\ c # None /\ cs[c] = t
  BY <1>1 DEF ExecuteEnd, IInv, Executions
<1>3. c \in Conns /\ c \in alive /\ x \in Stmts /\ x \in alive
  BY <1>2, HasConn DEF IInv, Types, Links, Estmt
<1> HIDE DEF c, x
<1>4. /\ Touch({c, s} \cup {x})
      /\ cs' = [cs EXCEPT ![c] = None]
      /\ cstatus' = [cstatus EXCEPT ![c] = "connected"]
      /\ sstatus' = [y \in Stmts |-> IF y = x THEN "ready" ELSE sstatus[y]]
      /\ call' = [call EXCEPT ![t].at = None]
      /\ UNCHANGED <<alive, conns, henv, unnamed, stmts, descs, hdbc, ard, delegate, parent, dconn>>
  BY <1>1, <1>2, <1>3 DEF ExecuteEnd, IInv, Types
<1>5. ~bad' BY <1>2, <1>3, <1>4, TouchesAlive DEF IInv
<1>6. /\ \A u \in Threads : u # t => call'[u] = call[u]
      /\ call'[t].op = "execute" /\ call'[t].obj = s /\ call'[t].todo = {x} /\ call'[t].at = None
      /\ call'[t] \in Calls
  BY <1>1, <1>2, <1>4 DEF IInv, Types, Calls, Executes
<1>7. Types'
  <2>1. call' = [call EXCEPT ![t] = call'[t]] BY <1>4 DEF IInv, Types
  <2> QED BY <1>3, <1>4, <1>6, <2>1 DEF IInv, Types
<1>8. /\ \A u \in Threads, y \in Conns : FreesConn(u, y)' <=> FreesConn(u, y)
      /\ \A u \in Threads, y \in Descs : FreesDesc(u, y)' <=> FreesDesc(u, y)
      /\ \A u \in Threads, y \in Stmts : Executes(u, y)' <=> Executes(u, y)
  BY <1>1, <1>6 DEF FreesConn, FreesDesc, Executes
<1>9. ConnTable' /\ FreeingConns' BY <1>4, <1>8 DEF IInv, ConnTable, FreeingConns
<1>10. StmtTable' /\ Ards' /\ Links' /\ DescTable'
  BY <1>4, <1>8 DEF IInv, StmtTable, Ards, Links, DescTable
<1>11. FreeingDescs' BY <1>1, <1>4, <1>6, <1>8 DEF IInv, FreeingDescs, FreesDesc, Executes
<1>12. Executions'
  <2> SUFFICES ASSUME NEW u \in Threads, NEW y \in Stmts, Executes(u, y)'
               PROVE  /\ y \in alive' /\ parent'[y] = None
                      /\ call'[u].todo = {Estmt(y)'}
                      /\ call'[u].at # None => call'[u].at = hdbc'[y] /\ cs'[hdbc'[y]] = u
    BY DEF Executions
  <2>1. /\ y \in alive /\ parent[y] = None /\ call[u].todo = {Estmt(y)}
        /\ call[u].at # None => call[u].at = hdbc[y] /\ cs[hdbc[y]] = u
    BY <1>8 DEF IInv, Executions
  <2>2. Estmt(y)' = Estmt(y) BY <1>4 DEF Estmt
  <2>3. call'[u].todo = call[u].todo BY <1>2, <1>6
  <2>4. CASE u = t BY <1>4, <1>6, <2>1, <2>2, <2>3, <2>4
  <2>5. CASE u # t BY <1>2, <1>3, <1>4, <1>6, <2>1, <2>2, <2>5 DEF IInv, Types
  <2> QED BY <2>4, <2>5
<1>13. Targets' BY <1>6 DEF IInv, Targets
<1>14. Apart' BY <1>4, <1>8 DEF IInv, Apart
<1>15. Sections'
  <2>1. \A y \in Conns : cs'[y] # None => y # c /\ cs[y] # None /\ cs'[y] = cs[y]
    BY <1>3, <1>4 DEF IInv, Types
  <2>2. \A y \in Conns : cs'[y] # None => cs[y] \in Threads /\ cs[y] # t /\ call[cs[y]].op = "execute" /\ call[cs[y]].at = y
    BY <1>2, <2>1 DEF IInv, Sections, Types
  <2>3. \A y \in Conns : cs'[y] # None => call'[cs'[y]].op = "execute" /\ call'[cs'[y]].at = y
    BY <1>6, <2>1, <2>2
  <2>4. \A y \in Conns : cstatus'[y] = "executing" => cs'[y] # None
    BY <1>3, <1>4 DEF IInv, Sections, Types
  <2>5. \A y \in Stmts : sstatus'[y] = "executing" =>
          \E u \in Threads : call'[u].op = "execute" /\ call'[u].at # None /\ y \in call'[u].todo
    <3> SUFFICES ASSUME NEW y \in Stmts, sstatus'[y] = "executing"
                 PROVE  \E u \in Threads : call'[u].op = "execute" /\ call'[u].at # None /\ y \in call'[u].todo
      OBVIOUS
    <3>1. y # x /\ sstatus[y] = "executing" BY <1>4
    <3>2. PICK u \in Threads : call[u].op = "execute" /\ call[u].at # None /\ y \in call[u].todo
      BY <3>1 DEF IInv, Sections
    <3>3. u # t BY <1>2, <3>1, <3>2
    <3> QED BY <1>6, <3>2, <3>3
  <2> QED BY <2>3, <2>4, <2>5 DEF Sections
<1> QED BY <1>5, <1>7, <1>9, <1>10, <1>11, <1>12, <1>13, <1>14, <1>15 DEF IInv

\* A call that ends leaves the objects to the other calls.
LEMMA CallEnds ==
  ASSUME IInv, NEW t \in Threads, call' = [call EXCEPT ![t] = Idle]
  PROVE  /\ call' \in [Threads -> Calls]
         /\ \A u \in Threads : u # t => call'[u] = call[u]
         /\ \A u \in Threads, y \in Conns : FreesConn(u, y)' <=> FreesConn(u, y) /\ u # t
         /\ \A u \in Threads, y \in Descs : FreesDesc(u, y)' <=> FreesDesc(u, y) /\ u # t
         /\ \A u \in Threads, y \in Stmts : Executes(u, y)' <=> Executes(u, y) /\ u # t
         /\ Targets'
<1>1. call'[t] = Idle /\ \A u \in Threads : u # t => call'[u] = call[u] BY DEF IInv, Types
<1>2. Idle \in Calls /\ Idle.op = "idle" BY DEF Idle, Calls
<1>3. call' \in [Threads -> Calls]
  <2> HIDE DEF Idle
  <2> QED BY <1>2 DEF IInv, Types
<1>4. call'[t].op = "idle" BY <1>1, <1>2
<1>5. Targets' BY <1>1 DEF IInv, Targets, Idle
<1> QED BY <1>1, <1>3, <1>4, <1>5 DEF FreesConn, FreesDesc, Executes

LEMMA ExecuteReturnKeeps ==
  ASSUME Prudent, IInv, NEW t \in Threads, ExecuteReturn(t)
  PROVE  IInv'
<1>1. PICK s \in Stmts : Executes(t, s) /\ call[t].obj = s BY DEF ExecuteReturn, Executes, IInv, Targets
<1>2. s \in alive /\ call[t].at = None BY <1>1 DEF ExecuteReturn, IInv, Executions
<1>3. /\ Touch({s} \cup {ard[s], hdbc[s]})
      /\ cstatus' = [c \in Conns |-> IF c = hdbc[s] THEN "connected" ELSE cstatus[c]]
      /\ call' = [call EXCEPT ![t] = Idle]
      /\ UNCHANGED <<alive, conns, henv, unnamed, stmts, descs, links, dconn, cs>>
  BY <1>1, <1>2 DEF ExecuteReturn
<1>4. ~bad'
  <2>1. \A o \in {s} \cup {ard[s], hdbc[s]} : o = None \/ o \in alive BY <1>2, HasConn DEF IInv, Ards
  <2> QED BY <1>3, <2>1, TouchesAlive DEF IInv
<1>5. /\ call' \in [Threads -> Calls]
      /\ \A u \in Threads : u # t => call'[u] = call[u]
      /\ \A u \in Threads, y \in Conns : FreesConn(u, y)' <=> FreesConn(u, y) /\ u # t
      /\ \A u \in Threads, y \in Descs : FreesDesc(u, y)' <=> FreesDesc(u, y) /\ u # t
      /\ \A u \in Threads, y \in Stmts : Executes(u, y)' <=> Executes(u, y) /\ u # t
      /\ Targets'
  BY <1>3, CallEnds
<1>6. /\ \A y : ~FreesConn(t, y) /\ ~FreesDesc(t, y) BY <1>1 DEF Executes, FreesConn, FreesDesc
<1>7. Types' BY <1>3, <1>5 DEF IInv, Types, links
<1>8. ConnTable' /\ FreeingConns' BY <1>3, <1>5, <1>6 DEF IInv, ConnTable, FreeingConns
<1>9. StmtTable' /\ DescTable' /\ Ards' /\ Links'
  BY <1>3, <1>5, <1>6 DEF IInv, StmtTable, DescTable, Ards, Links, links
<1>10. FreeingDescs' BY <1>3, <1>5 DEF IInv, FreeingDescs, links
<1>11. Executions' BY <1>3, <1>5 DEF IInv, Executions, Estmt, links
<1>12. Apart' BY <1>3, <1>5 DEF IInv, Apart, links
<1>13. Sections'
  <2>1. \A y \in Conns : cs'[y] # None => call'[cs'[y]].op = "execute" /\ call'[cs'[y]].at = y
    <3> SUFFICES ASSUME NEW y \in Conns, cs[y] # None
                 PROVE  call'[cs[y]].op = "execute" /\ call'[cs[y]].at = y
      BY <1>3
    <3>1. cs[y] \in Threads /\ call[cs[y]].op = "execute" /\ call[cs[y]].at = y
      BY DEF IInv, Types, Sections
    <3>2. cs[y] # t BY HandlesAssumption, <1>2, <3>1
    <3> QED BY <1>5, <3>1, <3>2
  <2>2. \A y \in Conns : cstatus'[y] = "executing" => cs'[y] # None BY <1>3 DEF IInv, Sections
  <2>3. \A y \in Stmts : sstatus'[y] = "executing" =>
          \E u \in Threads : call'[u].op = "execute" /\ call'[u].at # None /\ y \in call'[u].todo
    <3> SUFFICES ASSUME NEW y \in Stmts, sstatus[y] = "executing"
                 PROVE  \E u \in Threads : call'[u].op = "execute" /\ call'[u].at # None /\ y \in call'[u].todo
      BY <1>3 DEF links
    <3>1. PICK u \in Threads : call[u].op = "execute" /\ call[u].at # None /\ y \in call[u].todo
      BY DEF IInv, Sections
    <3>2. u # t BY <1>2, <3>1
    <3> QED BY <1>5, <3>1, <3>2
  <2> QED BY <2>1, <2>2, <2>3 DEF Sections
<1> QED BY <1>4, <1>5, <1>7, <1>8, <1>9, <1>10, <1>11, <1>12, <1>13 DEF IInv

--------------------
(* The steps that free a descriptor.                                       *)

\* Every statement that points to the descriptor is on the list that will be walked.
LEMMA FreeDescKeeps ==
  ASSUME Prudent, IInv, NEW t \in Threads, NEW d \in Descs, PGAPI_FreeDesc(t, d)
  PROVE  IInv'
<1> DEFINE c == dconn[d]
           O == {d} \cup {s \in Stmts : ard[s] = d}
<1>1. d \in alive /\ c \in Conns /\ c \in alive /\ c # None
  BY HandlesAssumption DEF PGAPI_FreeDesc, IInv, DescTable
<1>2. /\ Free(t) /\ Unused(t, O) /\ Open(t, c) /\ Touch({d, c})
      /\ descs' = [x \in Conns |-> descs[x] \ {d}]
      /\ call' = [call EXCEPT ![t] = [op |-> "free_desc", obj |-> d, todo |-> stmts[c], at |-> None]]
      /\ UNCHANGED <<alive, tables, stmts, links, dconn, cs>>
  BY <1>1 DEF PGAPI_FreeDesc
<1>3. ~bad' BY <1>1, <1>2, TouchesAlive DEF IInv
<1>4. /\ \A u \in Threads : ~FreesDesc(u, d) /\ ~FreesConn(u, c)
      /\ \A u \in Threads, s \in Stmts : Executes(u, s) => ard[s] # d
  <2>1. \A x : ~FreesDesc(t, x) /\ ~FreesConn(t, x) /\ ~Executes(t, x) BY <1>2, FreeMeans
  <2>2. d \in O OBVIOUS
  <2> HIDE DEF O
  <2>3. \A u \in Threads : u # t =>
          /\ \A s \in Stmts : Executes(u, s) => ard[s] \notin O
          /\ \A y \in Descs : FreesDesc(u, y) => y \notin O
    BY <1>2, UnusedMeans
  <2>4. \A u \in Threads : u # t => ~FreesConn(u, c) BY <1>2 DEF Open, Prudent, FreesConn
  <2> QED BY <2>1, <2>2, <2>3, <2>4
<1>5. call[t].op = "idle" BY <1>2, FreeMeans
<1> HIDE DEF c, O
<1>6. /\ \A u \in Threads : u # t => call'[u] = call[u]
      /\ call'[t].op = "free_desc" /\ call'[t].obj = d /\ call'[t].todo = stmts[c] /\ call'[t].at = None
  BY <1>2 DEF IInv, Types
<1>7. Types'
  <2>1. [op |-> "free_desc", obj |-> d, todo |-> stmts[c], at |-> None] \in Calls
    BY <1>1 DEF Calls, IInv, Types
  <2> QED BY <1>2, <2>1 DEF IInv, Types, tables, links
<1>8. ConnTable' /\ FreeingConns' BY <1>2, <1>5, <1>6 DEF IInv, ConnTable, FreeingConns, FreesConn, tables
<1>9. StmtTable' /\ Ards' /\ Links' BY <1>2 DEF IInv, StmtTable, Ards, Links, tables, links
<1>10. DescTable'
  <2>1. \A u \in Threads, y \in Descs : FreesDesc(u, y) => FreesDesc(u, y)' BY <1>5, <1>6 DEF FreesDesc
  <2>2. FreesDesc(t, d)' BY <1>6 DEF FreesDesc
  <2> QED BY <1>2, <2>1, <2>2 DEF IInv, DescTable
<1>11. FreeingDescs'
  <2> SUFFICES ASSUME NEW u \in Threads, NEW y \in Descs, FreesDesc(u, y)'
               PROVE  /\ y \in alive'
                      /\ \A c1 \in Conns : y \notin descs'[c1]
                      /\ \A s \in call'[u].todo : s \in stmts'[dconn'[y]]
                      /\ call'[u].at # None => call'[u].at \in stmts'[dconn'[y]]
                      /\ \A s \in Stmts : ard'[s] = y => s \in call'[u].todo \/ s = call'[u].at
    BY DEF FreeingDescs
  <2>1. CASE u = t
    <3>1. y = d /\ dconn[d] = c BY <1>6, <2>1 DEF FreesDesc, c
    <3>2. \A s \in Stmts : ard[s] = d => s \in stmts[c]
      BY HandlesAssumption, <3>1 DEF IInv, Ards, StmtTable
    <3> QED BY <1>1, <1>2, <1>6, <2>1, <3>1, <3>2 DEF links
  <2>2. CASE u # t BY <1>2, <1>6, <2>2 DEF IInv, FreeingDescs, FreesDesc, links
  <2> QED BY <2>1, <2>2
<1>12. Executions' BY <1>2, <1>6 DEF IInv, Executions, Executes, Estmt, links
<1>13. Targets' BY <1>6 DEF IInv, Targets
<1>14. Apart'
  <2>1. dconn[d] = c /\ dconn' = dconn /\ hdbc' = hdbc /\ ard' = ard BY <1>2 DEF c, links
  <2> QED BY <1>4, <1>6, <2>1 DEF IInv, Apart, FreesConn, FreesDesc, Executes
<1>15. Sections' BY <1>2, <1>5, <1>6 DEF IInv, Types, Sections, links, tables
<1> QED BY <1>3, <1>7, <1>8, <1>9, <1>10, <1>11, <1>12, <1>13, <1>14, <1>15 DEF IInv

\* A step inside SQLFreeHandle of a descriptor, which goes on.
GoesOn(t, d, ncall) ==
  /\ ncall \in Calls /\ ncall.op = "free_desc" /\ ncall.obj = d
  /\ call' = [call EXCEPT ![t] = ncall]

LEMMA FreeDescGoesOn ==
  ASSUME IInv, NEW t \in Threads, NEW d \in Descs, FreesDesc(t, d), NEW ncall, GoesOn(t, d, ncall),
         UNCHANGED <<alive, tables, stmts, descs, hdbc, delegate, parent, sstatus, dconn, cs>>,
         ard' \in [Stmts -> Descs \cup {None}],
         \A s \in Stmts : ard'[s] = ard[s] \/ (ard'[s] = None /\ ard[s] = d)
  PROVE  /\ Types' /\ ConnTable' /\ StmtTable' /\ DescTable' /\ Ards' /\ Links'
         /\ FreeingConns' /\ Executions' /\ Targets' /\ Apart' /\ Sections'
         /\ \A u \in Threads : u # t => call'[u] = call[u]
         /\ call'[t] = ncall
<1>1. call'[t] = ncall /\ \A u \in Threads : u # t => call'[u] = call[u] BY DEF GoesOn, IInv, Types
<1>2. call'[t].op = "free_desc" /\ call'[t].obj = d /\ call[t].op = "free_desc" /\ call[t].obj = d
  BY <1>1 DEF GoesOn, FreesDesc
<1>3. /\ \A u \in Threads, y \in Conns : FreesConn(u, y)' <=> FreesConn(u, y)
      /\ \A u \in Threads, y \in Descs : FreesDesc(u, y)' <=> FreesDesc(u, y)
      /\ \A u \in Threads, y \in Stmts : Executes(u, y)' <=> Executes(u, y) /\ u # t
  BY <1>1, <1>2 DEF FreesConn, FreesDesc, Executes
<1>4. Types' BY DEF IInv, Types, GoesOn, tables
<1>5. ConnTable' /\ FreeingConns' BY <1>3 DEF IInv, ConnTable, FreeingConns, tables
<1>6. StmtTable' /\ Links' BY DEF IInv, StmtTable, Links, tables
<1>7. DescTable' BY <1>3 DEF IInv, DescTable
<1>8. Ards' BY DEF IInv, Ards
<1>9. Executions' BY <1>1, <1>3 DEF IInv, Executions, Estmt
<1>10. Targets' BY <1>1, <1>2 DEF IInv, Targets
<1>11. Apart' BY HandlesAssumption, <1>3 DEF IInv, Apart
<1>12. Sections' BY <1>1, <1>2 DEF IInv, Types, Sections, tables
<1> QED BY <1>1, <1>4, <1>5, <1>6, <1>7, <1>8, <1>9, <1>10, <1>11, <1>12

LEMMA WalkKeeps ==
  ASSUME Prudent, IInv, NEW t \in Threads, Walk(t)
  PROVE  IInv'
<1>1. PICK d \in Descs : FreesDesc(t, d) /\ call[t].obj = d BY DEF Walk, FreesDesc, IInv, Targets
<1>2. /\ d \in alive /\ dconn[d] \in Conns /\ dconn[d] \in alive
      /\ \A c \in Conns : d \notin descs[c]
      /\ \A s \in call[t].todo : s \in stmts[dconn[d]]
      /\ \A s \in Stmts : ard[s] = d => s \in call[t].todo \/ s = call[t].at
  BY <1>1 DEF IInv, FreeingDescs, DescTable
<1>3. PICK s \in call[t].todo :
        call' = [call EXCEPT ![t].todo = @ \ {s},
                             ![t].at = IF s \in stmts[dconn[call[t].obj]] THEN s ELSE None]
  BY DEF Walk
<1>4. s \in Stmts /\ s \in stmts[dconn[d]] /\ call[t] \in Calls /\ call[t].at = None
  BY <1>2, <1>3 DEF IInv, Types, Walk
<1> DEFINE n == call'[t]
<1>5. n.op = "free_desc" /\ n.obj = d /\ n.todo = call[t].todo \ {s} /\ n.at = s /\ n \in Calls
  BY <1>1, <1>3, <1>4 DEF IInv, Types, Calls, FreesDesc
<1>6. call' = [call EXCEPT ![t] = n] BY <1>3 DEF IInv, Types
<1> HIDE DEF n
<1>7. GoesOn(t, d, n) BY <1>5, <1>6 DEF GoesOn
<1>8. /\ UNCHANGED <<alive, tables, stmts, descs, links, dconn, cs>> /\ Touch({dconn[d]}) BY <1>1 DEF Walk
<1>9. ~bad' BY <1>2, <1>8, TouchesAlive DEF IInv
<1>10. /\ UNCHANGED <<alive, tables, stmts, descs, hdbc, delegate, parent, sstatus, dconn, cs>>
       /\ ard' = ard /\ ard' \in [Stmts -> Descs \cup {None}]
  BY <1>8 DEF links, IInv, Types
<1>11. /\ Types' /\ ConnTable' /\ StmtTable' /\ DescTable' /\ Ards' /\ Links'
       /\ FreeingConns' /\ Executions' /\ Targets' /\ Apart' /\ Sections'
       /\ \A u \in Threads : u # t => call'[u] = call[u]
       /\ call'[t] = n
  BY <1>1, <1>7, <1>10, FreeDescGoesOn
<1>12. FreeingDescs'
  <2> SUFFICES ASSUME NEW u \in Threads, NEW y \in Descs, FreesDesc(u, y)'
               PROVE  /\ y \in alive'
                      /\ \A c1 \in Conns : y \notin descs'[c1]
                      /\ \A r \in call'[u].todo : r \in stmts'[dconn'[y]]
                      /\ call'[u].at # None => call'[u].at \in stmts'[dconn'[y]]
                      /\ \A r \in Stmts : ard'[r] = y => r \in call'[u].todo \/ r = call'[u].at
    BY DEF FreeingDescs
  <2>1. CASE u = t
    <3>1. y = d BY <1>5, <1>11, <2>1 DEF FreesDesc
    <3>2. \A r \in Stmts : ard[r] = d => r \in n.todo \/ r = n.at BY HandlesAssumption, <1>2, <1>4, <1>5
    <3> QED BY <1>2, <1>4, <1>5, <1>10, <1>11, <2>1, <3>1, <3>2
  <2>2. CASE u # t BY <1>10, <1>11, <2>2 DEF IInv, FreeingDescs, FreesDesc
  <2> QED BY <2>1, <2>2
<1> QED BY <1>9, <1>11, <1>12 DEF IInv

LEMMA RevertKeeps ==
  ASSUME Prudent, IInv, NEW t \in Threads, Revert(t)
  PROVE  IInv'
<1>1. PICK d \in Descs : FreesDesc(t, d) /\ call[t].obj = d BY DEF Revert, FreesDesc, IInv, Targets
<1> DEFINE s == call[t].at
<1>2. /\ d \in alive /\ dconn[d] \in Conns /\ s # None /\ s \in stmts[dconn[d]]
      /\ \A c \in Conns : d \notin descs[c]
      /\ \A r \in call[t].todo : r \in stmts[dconn[d]]
      /\ \A r \in Stmts : ard[r] = d => r \in call[t].todo \/ r = s
  BY <1>1 DEF IInv, FreeingDescs, DescTable, Revert
<1>3. s \in Stmts /\ s \in alive BY <1>2 DEF IInv, Types, StmtTable
<1>4. /\ Touch({s}) /\ call' = [call EXCEPT ![t].at = None]
      /\ ard' = [ard EXCEPT ![s] = IF ard[s] = d THEN None ELSE ard[s]]
      /\ UNCHANGED <<alive, tables, stmts, descs, hdbc, delegate, parent, sstatus, dconn, cs>>
  BY <1>1 DEF Revert, Reverted
<1>5. ~bad' BY <1>3, <1>4, TouchesAlive DEF IInv
<1> DEFINE n == call'[t]
<1> HIDE DEF s
<1>6. n.op = "free_desc" /\ n.obj = d /\ n.todo = call[t].todo /\ n.at = None /\ n \in Calls
  <2>1. call[t] \in Calls /\ call[t].op = "free_desc" /\ call[t].obj = d
    BY <1>1 DEF IInv, Types, FreesDesc
  <2>2. n = [call[t] EXCEPT !.at = None] BY <1>4 DEF IInv, Types
  <2> HIDE DEF n
  <2> QED BY <2>1, <2>2 DEF Calls
<1>7. call' = [call EXCEPT ![t] = n] BY <1>4 DEF IInv, Types
<1> HIDE DEF n
<1>8. GoesOn(t, d, n) BY <1>6, <1>7 DEF GoesOn
<1>9. /\ ard' \in [Stmts -> Descs \cup {None}]
      /\ \A r \in Stmts : ard'[r] = ard[r] \/ (ard'[r] = None /\ ard[r] = d)
      /\ ard'[s] # d /\ \A r \in Stmts : ard'[r] = d => ard[r] = d
      /\ \A r \in Stmts, y \in Descs : ard'[r] = y => ard[r] = y
  BY HandlesAssumption, <1>3, <1>4 DEF IInv, Types
<1>10. /\ Types' /\ ConnTable' /\ StmtTable' /\ DescTable' /\ Ards' /\ Links'
       /\ FreeingConns' /\ Executions' /\ Targets' /\ Apart' /\ Sections'
       /\ \A u \in Threads : u # t => call'[u] = call[u]
       /\ call'[t] = n
  BY <1>1, <1>4, <1>8, <1>9, FreeDescGoesOn
<1>11. FreeingDescs'
  <2> SUFFICES ASSUME NEW u \in Threads, NEW y \in Descs, FreesDesc(u, y)'
               PROVE  /\ y \in alive'
                      /\ \A c1 \in Conns : y \notin descs'[c1]
                      /\ \A r \in call'[u].todo : r \in stmts'[dconn'[y]]
                      /\ call'[u].at # None => call'[u].at \in stmts'[dconn'[y]]
                      /\ \A r \in Stmts : ard'[r] = y => r \in call'[u].todo \/ r = call'[u].at
    BY DEF FreeingDescs
  <2>1. CASE u = t
    <3>1. y = d BY <1>6, <1>10, <2>1 DEF FreesDesc
    <3> QED BY <1>2, <1>4, <1>6, <1>9, <1>10, <2>1, <3>1
  <2>2. CASE u # t BY <1>4, <1>9, <1>10, <2>2 DEF IInv, FreeingDescs, FreesDesc
  <2> QED BY <2>1, <2>2
<1> QED BY <1>5, <1>10, <1>11 DEF IInv

\* When the memory of the descriptor goes nothing points to it.
LEMMA FreeDescEndKeeps ==
  ASSUME Prudent, IInv, NEW t \in Threads, FreeDescEnd(t)
  PROVE  IInv'
<1>1. PICK d \in Descs : FreesDesc(t, d) /\ call[t].obj = d BY DEF FreeDescEnd, FreesDesc, IInv, Targets
<1>2. /\ call[t].at = None /\ call[t].todo = {} /\ Touch({d})
      /\ alive' = alive \ {d} /\ dconn' = [dconn EXCEPT ![d] = None]
      /\ call' = [call EXCEPT ![t] = Idle]
      /\ UNCHANGED <<tables, stmts, descs, links, cs>>
  BY <1>1 DEF FreeDescEnd
<1>3. d \in alive /\ \A s \in Stmts : ard[s] # d BY HandlesAssumption, <1>1, <1>2 DEF IInv, FreeingDescs
<1>4. ~bad' BY <1>2, <1>3, TouchesAlive DEF IInv
<1>5. /\ call' \in [Threads -> Calls]
      /\ \A u \in Threads : u # t => call'[u] = call[u]
      /\ \A u \in Threads, y \in Conns : FreesConn(u, y)' <=> FreesConn(u, y) /\ u # t
      /\ \A u \in Threads, y \in Descs : FreesDesc(u, y)' <=> FreesDesc(u, y) /\ u # t
      /\ \A u \in Threads, y \in Stmts : Executes(u, y)' <=> Executes(u, y) /\ u # t
      /\ Targets'
  BY <1>2, CallEnds
<1>6. /\ \A y : ~FreesConn(t, y) /\ ~Executes(t, y)
      /\ \A y : FreesDesc(t, y) => y = d
      /\ \A u \in Threads : FreesDesc(u, d) => u = t
      /\ call[t].op # "execute"
  BY <1>1 DEF Executes, FreesConn, FreesDesc, IInv, Apart
<1>7. /\ \A x \in Envs \cup Conns \cup Stmts : x \in alive' <=> x \in alive
      /\ \A x \in Descs : x \in alive' <=> x \in alive /\ x # d
      /\ \A x \in Descs : x # d => dconn'[x] = dconn[x]
  BY AddressAssumption, <1>2 DEF IInv, Types
<1>8. Types' BY <1>2, <1>5 DEF IInv, Types, tables, links
<1>9. ConnTable' /\ FreeingConns'
  BY <1>2, <1>5, <1>6, <1>7 DEF IInv, ConnTable, FreeingConns, Types, tables
<1>10. StmtTable' /\ Links' BY <1>2, <1>7 DEF IInv, StmtTable, Links, Types, tables, links
<1>11. DescTable'
  <2>1. \A c \in Conns : d \notin descs[c] BY <1>1 DEF IInv, FreeingDescs
  <2> QED BY <1>2, <1>5, <1>6, <1>7, <2>1 DEF IInv, DescTable, Types
<1>12. Ards' BY <1>2, <1>3, <1>7 DEF IInv, Ards, Types, links
<1>13. FreeingDescs' BY <1>2, <1>5, <1>6, <1>7 DEF IInv, FreeingDescs, links
<1>14. Executions' BY <1>2, <1>5, <1>7 DEF IInv, Executions, Estmt, links
<1>15. Apart' BY <1>2, <1>3, <1>5, <1>6, <1>7 DEF IInv, Apart, links
<1>16. Sections' BY <1>2, <1>5, <1>6 DEF IInv, Types, Sections, tables, links
<1> QED BY <1>4, <1>5, <1>8, <1>9, <1>10, <1>11, <1>12, <1>13, <1>14, <1>15, <1>16 DEF IInv

--------------------
(* The theorems.                                                           *)

LEMMA InitIInv == Init => IInv
<1> SUFFICES ASSUME Init PROVE IInv OBVIOUS
<1>1. call \in [Threads -> Calls] /\ \A t \in Threads : call[t] = Idle /\ call[t].op = "idle"
  <2>1. Idle \in Calls /\ Idle.op = "idle" BY DEF Idle, Calls
  <2> QED BY <2>1, Zenon DEF Init
<1>2. Types BY <1>1 DEF Init, Types
<1>3. ~bad BY Zenon DEF Init
<1>4. ConnTable /\ StmtTable /\ DescTable /\ Ards /\ Links
  BY DEF Init, ConnTable, StmtTable, DescTable, Ards, Links
<1>5. FreeingConns /\ FreeingDescs /\ Executions /\ Targets /\ Apart
  BY <1>1 DEF FreeingConns, FreeingDescs, Executions, Targets, Apart, FreesConn, FreesDesc, Executes
<1>6. Sections BY HandlesAssumption DEF Init, Sections
<1> QED BY <1>2, <1>3, <1>4, <1>5, <1>6 DEF IInv

LEMMA InitOrder == Init => FreedInOrder
  BY DEF Init, FreedInOrder

--------------------
(* The delegates of a connection that is being freed.                      *)

\* A step after which the links of its statements and their slots are as before.
LEMMA OrderFrom ==
  ASSUME FreedInOrder,
         \A u \in Threads, c \in Conns : FreesConn(u, c)' => FreesConn(u, c),
         \A s \in Stmts, u \in Threads : delegate'[s] # None /\ FreesConn(u, hdbc'[s]) =>
           /\ delegate'[s] = delegate[s] /\ hdbc'[s] = hdbc[s]
           /\ slot'[s] = slot[s] /\ slot'[delegate[s]] = slot[delegate[s]]
  PROVE  FreedInOrder'
<1> SUFFICES ASSUME NEW u \in Threads, NEW c \in Conns, FreesConn(u, c)', NEW s \in Stmts,
                    hdbc'[s] = c, delegate'[s] # None
             PROVE  ~(slot'[delegate'[s]] < slot'[s])
  BY DEF FreedInOrder
<1>1. FreesConn(u, c) OBVIOUS
<1>2. /\ delegate'[s] = delegate[s] /\ hdbc'[s] = hdbc[s]
      /\ slot'[s] = slot[s] /\ slot'[delegate[s]] = slot[delegate[s]]
  BY <1>1
<1> QED BY <1>1, <1>2 DEF FreedInOrder

LEMMA CleanupOrder ==
  ASSUME IInv, NEW C \in SUBSET Conns, NEW gone, CC_cleanup(C, gone), NEW s \in Stmts,
         delegate'[s] # None
  PROVE  /\ delegate'[s] = delegate[s] /\ hdbc'[s] = hdbc[s]
         /\ slot'[s] = slot[s] /\ slot'[delegate[s]] = slot[delegate[s]]
<1>1. s \notin CleanedStmts(C) /\ delegate'[s] = delegate[s] /\ hdbc'[s] = hdbc[s] BY DEF CC_cleanup
<1>2. /\ s \in alive /\ delegate[s] \in Stmts /\ hdbc[delegate[s]] = hdbc[s]
      /\ hdbc[s] \in Conns /\ s \in stmts[hdbc[s]]
  BY <1>1 DEF IInv, Types, Links, StmtTable
<1>3. delegate[s] \notin CleanedStmts(C) BY <1>1, <1>2, Cleaned DEF IInv, StmtTable
<1> QED BY <1>1, <1>2, <1>3 DEF CC_cleanup, Unslotted

LEMMA MadeOrder ==
  ASSUME IInv, NEW n \in Stmts, n \notin alive, NEW c \in Conns, NEW p \in Stmts \cup {None},
         Made(n, c, p), NEW s \in Stmts, s # p, delegate'[s] # None
  PROVE  /\ delegate'[s] = delegate[s] /\ hdbc'[s] = hdbc[s]
         /\ slot'[s] = slot[s] /\ slot'[delegate[s]] = slot[delegate[s]]
<1>1. s # n /\ delegate'[s] = delegate[s] BY DEF Made
<1>2. delegate[s] \in Stmts /\ delegate[s] # n BY <1>1 DEF IInv, Types, Links
<1>3. hdbc'[s] = hdbc[s] BY <1>1 DEF Made, IInv, Types
<1>4. \A x \in Stmts : x # n => slot'[x] = slot[x] BY DEF Made
<1> QED BY <1>1, <1>2, <1>3, <1>4

LEMMA DropOrder ==
  ASSUME IInv, NEW S, slot' = Unslotted(S), NEW s \in Stmts, delegate'[s] # None,
         delegate'[s] = Undelegated(S)[s],
         hdbc' = [x \in Stmts |-> IF x \in S THEN None ELSE hdbc[x]]
  PROVE  /\ delegate'[s] = delegate[s] /\ hdbc'[s] = hdbc[s]
         /\ slot'[s] = slot[s] /\ slot'[delegate[s]] = slot[delegate[s]]
<1>1. s \notin S /\ delegate[s] \notin S /\ delegate'[s] = delegate[s] BY DEF Undelegated
<1>2. delegate[s] \in Stmts BY <1>1 DEF IInv, Types
<1> QED BY <1>1, <1>2 DEF Unslotted

\* SQLFreeConnect begins when no delegate comes before its statement.
LEMMA RemoveOrder ==
  ASSUME Prudent, IInv, FreedInOrder, NEW t \in Threads, NEW c \in Conns, EN_remove_connection(t, c)
  PROVE  FreedInOrder'
<1>1. DelegateGone({c}) = {} /\ Free(t) /\ UNCHANGED links BY DEF EN_remove_connection, Settled, Prudent
<1>2. \A s \in Stmts : hdbc[s] = c /\ delegate[s] # None => ~(slot[delegate[s]] < slot[s])
  BY <1>1 DEF DelegateGone, CleanedStmts, IInv, StmtTable, Links
<1>3. \A u \in Threads, x \in Conns : FreesConn(u, x)' => FreesConn(u, x) \/ x = c
  BY DEF EN_remove_connection, FreesConn, Idle, IInv, Types
<1> QED BY <1>1, <1>2, <1>3 DEF FreedInOrder, links

LEMMA ConnOrder ==
  ASSUME Prudent, IInv, FreedInOrder, NEW t \in Threads, ConnCall(t)
  PROVE  FreedInOrder'
<1>1. ASSUME UNCHANGED <<links, call>> PROVE FreedInOrder' BY <1>1 DEF links, FreedInOrder, FreesConn
<1>2. ASSUME NEW C \in SUBSET Conns, NEW gone, CC_cleanup(C, gone),
             \A u \in Threads, c \in Conns : FreesConn(u, c)' => FreesConn(u, c)
      PROVE  FreedInOrder'
  BY <1>2, CleanupOrder, OrderFrom
<1>3. ASSUME NEW e \in Envs, EN_Destructor(t, e) PROVE FreedInOrder'
  <2>1. Destroyed(e) \in SUBSET Conns BY DEF Destroyed, Mine, IInv, Types
  <2>2. CC_cleanup(Destroyed(e), Destroyed(e) \cup {e}) /\ call' = call BY <1>3 DEF EN_Destructor
  <2> QED BY <1>2, <2>1, <2>2 DEF FreesConn
<1>4. ASSUME NEW c \in Conns, PGAPI_Disconnect(t, c) PROVE FreedInOrder'
  <2>1. CC_cleanup({c}, {}) /\ call' = call BY <1>4 DEF PGAPI_Disconnect
  <2> QED BY <1>2, <2>1 DEF FreesConn
<1>5. ASSUME CC_Destructor(t) PROVE FreedInOrder'
  <2>1. \A u \in Threads, c \in Conns : FreesConn(u, c)' => FreesConn(u, c)
    BY <1>5 DEF CC_Destructor, FreesConn, Idle, IInv, Types
  <2>2. CASE UNCHANGED links BY <2>1, <2>2 DEF links, FreedInOrder
  <2>3. CASE CC_cleanup({call[t].obj}, {call[t].obj})
    <3>1. call[t].obj \in Conns BY <1>5 DEF CC_Destructor, IInv, Targets
    <3> QED BY <1>2, <2>1, <2>3, <3>1
  <2> QED BY <1>5, <2>2, <2>3 DEF CC_Destructor
<1>6. \A e \in Envs : PGAPI_AllocEnv(t, e) => UNCHANGED <<links, call>> BY DEF PGAPI_AllocEnv
<1>7. \A c \in Conns, e \in Envs : PGAPI_AllocConnect(t, c, e) => UNCHANGED <<links, call>>
  BY DEF PGAPI_AllocConnect
<1>8. \A c \in Conns : Connect(t, c) => UNCHANGED <<links, call>> BY DEF Connect
<1> QED BY <1>1, <1>3, <1>4, <1>5, <1>6, <1>7, <1>8, RemoveOrder, Zenon DEF ConnCall

LEMMA StmtOrder ==
  ASSUME Prudent, IInv, FreedInOrder, NEW t \in Threads, StmtCall(t)
  PROVE  FreedInOrder'
<1>1. ASSUME UNCHANGED <<slot, hdbc, delegate>>,
             \A u \in Threads, c \in Conns : FreesConn(u, c)' => FreesConn(u, c)
      PROVE  FreedInOrder'
  BY <1>1 DEF FreedInOrder
<1>2. ASSUME NEW s \in Stmts, NEW c \in Conns, PGAPI_AllocStmt(t, s, c) PROVE FreedInOrder'
  <2>1. s \notin alive /\ Made(s, c, None) /\ call' = call BY <1>2 DEF PGAPI_AllocStmt
  <2>2. \A x \in Stmts : x # None BY HandlesAssumption
  <2> QED BY <2>1, <2>2, MadeOrder, OrderFrom DEF FreesConn
<1>3. ASSUME NEW s \in Stmts, NEW p \in Stmts, Delegated(t, s, p) PROVE FreedInOrder'
  <2>1. /\ s \notin alive /\ Made(s, hdbc[p], p) /\ call' = call
        /\ p \in alive /\ Free(t) /\ Open(t, hdbc[p])
    BY <1>3 DEF Delegated
  <2>2. hdbc[p] \in Conns /\ p # s BY <2>1 DEF IInv, StmtTable
  <2>3. hdbc'[p] = hdbc[p] BY <2>1, <2>2 DEF Made, IInv, Types
  <2>4. \A u \in Threads : ~FreesConn(u, hdbc[p]) BY <2>1, FreeMeans DEF Open, Prudent, FreesConn
  <2> QED BY <2>1, <2>2, <2>3, <2>4, MadeOrder, OrderFrom DEF FreesConn
<1>4. ASSUME NEW S, Drop(S), call' = call PROVE FreedInOrder'
  <2>1. /\ slot' = Unslotted(S) /\ delegate' = Undelegated(S)
        /\ hdbc' = [x \in Stmts |-> IF x \in S THEN None ELSE hdbc[x]]
    BY <1>4 DEF Drop
  <2> QED BY <1>4, <2>1, DropOrder, OrderFrom DEF FreesConn
<1>5. ASSUME NEW s \in Stmts, PGAPI_FreeStmt(t, s) PROVE FreedInOrder' BY <1>4, <1>5 DEF PGAPI_FreeStmt
<1>6. ASSUME NEW s \in Stmts, SC_reset_delegate(t, s) PROVE FreedInOrder'
  BY <1>4, <1>6 DEF SC_reset_delegate
<1>7. ASSUME NEW s \in Stmts, CloseStmt(t, s) PROVE FreedInOrder'
  <2>1. PICK S : /\ slot' = Unslotted(S) /\ delegate' = [Undelegated(S) EXCEPT ![s] = None]
                 /\ hdbc' = [x \in Stmts |-> IF x \in S THEN None ELSE hdbc[x]] /\ call' = call
    BY <1>7, Zenon DEF CloseStmt
  <2>2. \A x \in Stmts : delegate'[x] # None => delegate'[x] = Undelegated(S)[x] BY <2>1 DEF Undelegated
  <2> QED BY <2>1, <2>2, DropOrder, OrderFrom DEF FreesConn
<1>8. ASSUME NEW s \in Stmts, Prepare(t, s) \/ Execute(t, s) PROVE FreedInOrder'
  BY <1>1, <1>8 DEF Prepare, Execute, links, FreesConn, IInv, Types
<1>9. ASSUME ExecuteEnd(t) \/ ExecuteReturn(t) PROVE FreedInOrder'
  <2>1. UNCHANGED <<slot, hdbc, delegate>> BY <1>9 DEF ExecuteEnd, ExecuteReturn, links
  <2>2. call[t].op = "execute" /\ call \in [Threads -> Calls]
    BY <1>9 DEF ExecuteEnd, ExecuteReturn, IInv, Types
  <2>3. \A u \in Threads : u # t => call'[u] = call[u] BY <1>9, <2>2 DEF ExecuteEnd, ExecuteReturn
  <2>4. call'[t].op # "free_conn" BY <1>9, <2>2 DEF ExecuteEnd, ExecuteReturn, Idle, Calls
  <2> QED BY <1>1, <2>1, <2>3, <2>4 DEF FreesConn
<1> QED BY <1>2, <1>3, <1>5, <1>6, <1>7, <1>8, <1>9, Zenon DEF StmtCall

LEMMA DescOrder ==
  ASSUME IInv, FreedInOrder, NEW t \in Threads, DescCall(t)
  PROVE  FreedInOrder'
<1>1. UNCHANGED <<slot, hdbc, delegate>>
  BY DEF DescCall, PGAPI_AllocDesc, SetDesc, PGAPI_FreeDesc, Walk, Revert, FreeDescEnd, links
<1>2. call \in [Threads -> Calls] BY DEF IInv, Types
<1>3. ASSUME NEW d \in Descs, \/ \E c \in Conns : PGAPI_AllocDesc(t, d, c)
                              \/ PGAPI_FreeDesc(t, d)
      PROVE  \A u \in Threads, c \in Conns : FreesConn(u, c)' => FreesConn(u, c)
  BY <1>2, <1>3 DEF PGAPI_AllocDesc, PGAPI_FreeDesc, FreesConn
<1>4. ASSUME NEW d \in Descs \cup {None}, NEW s \in Stmts, SetDesc(t, s, d)
      PROVE  \A u \in Threads, c \in Conns : FreesConn(u, c)' => FreesConn(u, c)
  BY <1>4 DEF SetDesc, FreesConn
<1>5. ASSUME Walk(t) \/ Revert(t) \/ FreeDescEnd(t)
      PROVE  \A u \in Threads, c \in Conns : FreesConn(u, c)' => FreesConn(u, c)
  <2>1. call[t].op = "free_desc" BY <1>5 DEF Walk, Revert, FreeDescEnd
  <2>2. \A u \in Threads : u # t => call'[u] = call[u] BY <1>2, <1>5 DEF Walk, Revert, FreeDescEnd
  <2>3. CASE Walk(t) BY <1>2, <2>1, <2>2, <2>3 DEF Walk, FreesConn, Calls
  <2>4. CASE Revert(t) BY <1>2, <2>1, <2>2, <2>4 DEF Revert, FreesConn, Calls
  <2>5. CASE FreeDescEnd(t) BY <1>2, <2>2, <2>5 DEF FreeDescEnd, FreesConn, Idle
  <2> QED BY <1>5, <2>3, <2>4, <2>5
<1>6. \A u \in Threads, c \in Conns : FreesConn(u, c)' => FreesConn(u, c)
  BY <1>3, <1>4, <1>5, Zenon DEF DescCall
<1> QED BY <1>1, <1>6 DEF FreedInOrder

LEMMA StepOrder == Prudent /\ IInv /\ FreedInOrder /\ [Next]_vars => FreedInOrder'
<1>1. ASSUME UNCHANGED vars, FreedInOrder PROVE FreedInOrder'
  BY <1>1 DEF vars, links, FreedInOrder, FreesConn
<1> QED BY <1>1, ConnOrder, StmtOrder, DescOrder, Zenon DEF Next

LEMMA StepIInv == Prudent /\ IInv /\ FreedInOrder /\ [Next]_vars => IInv'
<1> SUFFICES ASSUME Prudent, IInv, FreedInOrder, [Next]_vars PROVE IInv' OBVIOUS
<1>1. CASE UNCHANGED vars
  BY <1>1 DEF vars, tables, links, IInv, Types, ConnTable, StmtTable, DescTable, Ards, Links, FreeingConns,
    FreeingDescs, Executions, Targets, Apart, Sections, FreesConn, FreesDesc, Executes, Estmt
<1>2. ASSUME NEW t \in Threads, ConnCall(t) PROVE IInv'
  BY <1>2, AllocEnvKeeps, EnvFreedKeeps, AllocConnectKeeps, ConnectKeeps, DisconnectKeeps, RemoveKeeps,
    ConnFreedKeeps, Zenon DEF ConnCall
<1>3. ASSUME NEW t \in Threads, StmtCall(t) PROVE IInv'
  BY <1>3, AllocStmtKeeps, DelegatedKeeps, FreeStmtKeeps, CloseStmtKeeps, ResetDelegateKeeps, PrepareKeeps,
    ExecuteKeeps, ExecuteEndKeeps, ExecuteReturnKeeps, Zenon DEF StmtCall
<1>4. ASSUME NEW t \in Threads, DescCall(t) PROVE IInv'
  BY <1>4, AllocDescKeeps, SetDescKeeps, FreeDescKeeps, WalkKeeps, RevertKeeps, FreeDescEndKeeps, Zenon DEF
    DescCall
<1> QED BY <1>1, <1>2, <1>3, <1>4, Zenon DEF Next

\* No call uses the memory of a freed handle, and no live handle points to one: for
\* any number of threads and of handles of each kind (CC_cleanup, PGAPI_FreeStmt,
\* PGAPI_FreeDesc, EN_Destructor, SC_set_delegate).
THEOREM NothingDangles == ASSUME Prudent PROVE Spec => []NoUseAfterFree
<1>1. IInv => NoUseAfterFree
  <2> SUFFICES ASSUME IInv PROVE NoUseAfterFree OBVIOUS
  <2>1. ~bad BY DEF IInv
  <2>2. ASSUME NEW s \in Stmts \cap alive
        PROVE  /\ hdbc[s] # None => hdbc[s] \in alive
               /\ ard[s] # None => ard[s] \in alive
               /\ delegate[s] # None => delegate[s] \in alive /\ parent[delegate[s]] = s
               /\ parent[s] # None => parent[s] \in alive /\ delegate[parent[s]] = s
    BY HandlesAssumption, HasConn DEF IInv, Types, Ards, Links
  <2>3. ASSUME NEW s \in Stmts \cap alive
        PROVE  {hdbc[s], ard[s], delegate[s], parent[s]} \ {None} \subseteq alive
    BY <2>2
  <2>4. ASSUME NEW c \in Conns \cap alive
        PROVE  {henv[c], unnamed[c]} \ {None} \subseteq alive
    BY DEF IInv, ConnTable, StmtTable
  <2>5. conns \subseteq alive BY DEF IInv, ConnTable
  <2> QED BY <2>1, <2>2, <2>3, <2>4, <2>5 DEF NoUseAfterFree
<1>2. IInv /\ FreedInOrder /\ [Next]_vars => IInv' /\ FreedInOrder' BY StepIInv, StepOrder
<1> QED BY <1>1, <1>2, InitIInv, InitOrder, PTL DEF Spec

\* Every live handle is in the table of one that will free it, or a call is at work on it.
THEOREM NothingLeaks == ASSUME Prudent PROVE Spec => []NothingLost
<1>1. IInv => NothingLost
  <2> SUFFICES ASSUME IInv PROVE NothingLost OBVIOUS
  <2>1. \A s \in Stmts \cap alive : \E c \in Conns \cap alive : s \in stmts[c] /\ hdbc[s] = c
    BY HasConn DEF IInv, StmtTable
  <2>2. \A d \in Descs \cap alive :
           \/ \E c \in Conns \cap alive : d \in descs[c] /\ dconn[d] = c
           \/ \E t \in Threads : call[t].op = "free_desc" /\ call[t].obj = d
    BY DEF IInv, DescTable, FreesDesc
  <2>3. \A c \in Conns \cap alive :
          c \in conns \/ \E t \in Threads : call[t].op = "free_conn" /\ call[t].obj = c
    BY DEF IInv, ConnTable, FreesConn
  <2> QED BY <2>1, <2>2, <2>3 DEF NothingLost
<1>2. IInv /\ FreedInOrder /\ [Next]_vars => IInv' /\ FreedInOrder' BY StepIInv, StepOrder
<1> QED BY <1>1, <1>2, InitIInv, InitOrder, PTL DEF Spec
=============================================================================
