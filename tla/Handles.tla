------------------------------ MODULE Handles ------------------------------
(***************************************************************************)
(* The handle tables of the driver: environments, connections, statements  *)
(* and explicit descriptors, who points to whom, and how each handle is    *)
(* made and destroyed (environ.c, connection.c, statement.c, descriptor.c).*)
(*                                                                         *)
(* The memory of an object is its membership of alive.  A pointer of the   *)
(* code is a function to an object or None; bad becomes TRUE when a step   *)
(* reads or writes an object that is not alive.                            *)
(*                                                                         *)
(* The threads of the application each make one call at a time.  Calls     *)
(* that hold the section of the connection (cs, ENTER_CONN_CS) throughout  *)
(* are one step, enabled while it is free; the calls that do not hold it   *)
(* (SQLFreeConnect, SQLFreeHandle of a descriptor) and the execution of a  *)
(* statement are several.  ard stands for the two pointers an application  *)
(* can redirect, ard and apd, which the code always treats alike.          *)
(*                                                                         *)
(* Risky names what only a careless application does, or only one without  *)
(* a driver manager that refuses it:                                       *)
(*   "busy"          a handle is freed, or its connection disconnected,    *)
(*                   while another thread is in a call that uses it;       *)
(*   "desc_parallel" a descriptor is freed while another thread allocates  *)
(*                   or frees statements of the same connection;           *)
(*   "foreign_desc"  SQLSetStmtAttr is given a descriptor of another       *)
(*                   connection;                                           *)
(*   "pending"       a connection goes while an operation of a statement   *)
(*                   waits for data and its delegate has the earlier slot. *)
(***************************************************************************)
EXTENDS Naturals, FiniteSets

CONSTANTS Threads, Envs, Conns, Stmts, Descs, None, Risky

ASSUME HandlesAssumption ==
  /\ Risky \subseteq {"busy", "desc_parallel", "foreign_desc", "pending"}
  /\ None \notin Threads \cup Envs \cup Conns \cup Stmts \cup Descs

\* A handle is the address of its object.
ASSUME AddressAssumption ==
  /\ Envs \cap (Conns \cup Stmts \cup Descs) = {}
  /\ Conns \cap (Stmts \cup Descs) = {} /\ Stmts \cap Descs = {}

VARIABLES
  alive,     \* the objects whose memory is allocated
  conns,     \* the table of connections of the process
  henv,      \* conn->henv
  cstatus,   \* conn->status
  stmts,     \* conn->stmts
  slot,      \* the place of a statement in conn->stmts, 0 when it has none
  descs,     \* conn->descs
  unnamed,   \* conn->unnamed_prepared_stmt
  hdbc,      \* stmt->hdbc
  ard,       \* stmt->ard, None when it is the embedded descriptor
  delegate,  \* stmt->execute_delegate
  parent,    \* stmt->execute_parent
  sstatus,   \* stmt->status
  dconn,     \* desc->deschd.conn_conn
  cs,        \* the thread in the section of a connection
  call,      \* what each thread is doing
  bad        \* some step used memory that was not allocated

tables == <<conns, henv, cstatus, unnamed>>
links  == <<slot, hdbc, ard, delegate, parent, sstatus>>
vars   == <<alive, tables, stmts, descs, links, dconn, cs, call, bad>>

Idle == [op |-> "idle", obj |-> None, todo |-> {}, at |-> None]

Init ==
  /\ alive = {}                         /\ conns = {}
  /\ henv = [c \in Conns |-> None]      /\ cstatus = [c \in Conns |-> "not_connected"]
  /\ stmts = [c \in Conns |-> {}]       /\ descs = [c \in Conns |-> {}]
  /\ slot = [s \in Stmts |-> 0]
  /\ unnamed = [c \in Conns |-> None]   /\ hdbc = [s \in Stmts |-> None]
  /\ ard = [s \in Stmts |-> None]       /\ delegate = [s \in Stmts |-> None]
  /\ parent = [s \in Stmts |-> None]    /\ sstatus = [s \in Stmts |-> "ready"]
  /\ dconn = [d \in Descs |-> None]     /\ cs = [c \in Conns |-> None]
  /\ call = [t \in Threads |-> Idle]    /\ bad = FALSE

\* The step uses the objects of O: memory errors are remembered.
Touch(O) == bad' = (bad \/ ~ (O \ {None} \subseteq alive))

----------------------------------------------------------------------------
(* What the application and the driver manager let a thread do. *)

\* The statement a call on s executes: its delegate while it has one.
Estmt(s) == IF delegate[s] # None THEN delegate[s] ELSE s

\* The objects the call of thread u is using.
Uses(u) ==
  LET o == call[u].obj IN
  CASE call[u].op = "execute"   -> {o, Estmt(o), hdbc[o], ard[o]}
    [] call[u].op = "free_conn" -> {o, henv[o]}
    [] call[u].op = "free_desc" -> {o, dconn[o]}
    [] OTHER                    -> {}

Unused(t, O) == "busy" \in Risky \/ \A u \in Threads \ {t} : Uses(u) \cap O = {}

\* The descriptor d may be used: no other thread is freeing it.
Shared(t, d) ==
  \/ "busy" \in Risky
  \/ \A u \in Threads \ {t} : ~ (call[u].op = "free_desc" /\ call[u].obj = d)

\* No other thread is freeing the connection c.
Open(t, c) ==
  \/ "busy" \in Risky
  \/ \A u \in Threads \ {t} : ~ (call[u].op = "free_conn" /\ call[u].obj = c)

\* No other thread is walking the statements of c in SQLFreeHandle of a descriptor.
Unwalked(t, c) ==
  \/ "desc_parallel" \in Risky
  \/ \A u \in Threads \ {t} : call[u].op = "free_desc" => dconn[call[u].obj] # c

Free(t) == call[t] = Idle

----------------------------------------------------------------------------
(* Environments and connections. *)

PGAPI_AllocEnv(t, e) ==
  /\ Free(t) /\ e \notin alive
  /\ alive' = alive \cup {e}
  /\ UNCHANGED <<tables, stmts, descs, links, dconn, cs, call, bad>>

\* CC_Constructor, then EN_add_connection under the lock of the table.
PGAPI_AllocConnect(t, c, e) ==
  /\ Free(t) /\ e \in alive /\ c \notin alive
  /\ alive' = alive \cup {c}
  /\ conns' = conns \cup {c}
  /\ henv' = [henv EXCEPT ![c] = e]
  /\ cstatus' = [cstatus EXCEPT ![c] = "not_connected"]
  /\ stmts' = [stmts EXCEPT ![c] = {}]
  /\ descs' = [descs EXCEPT ![c] = {}]
  /\ unnamed' = [unnamed EXCEPT ![c] = None]
  /\ UNCHANGED <<links, dconn, cs, call, bad>>

Connect(t, c) ==
  /\ Free(t) /\ c \in alive /\ cs[c] = None
  /\ cstatus[c] = "not_connected" /\ Unused(t, {c})
  /\ cstatus' = [cstatus EXCEPT ![c] = "connected"]
  /\ UNCHANGED <<alive, conns, henv, unnamed, stmts, descs, links, dconn, cs, call, bad>>

CleanedDescsForgotten(C) == {}

\* What CC_cleanup frees of the connections C.
CleanedStmts(C) == UNION {stmts[c] : c \in C}
CleanedDescs(C) == UNION {descs[c] : c \in C}

\* Among them, the statements whose delegate the walk has destroyed before it
\* reaches them: it is in an earlier slot.
DelegateGone(C) ==
  {s \in CleanedStmts(C) : delegate[s] # None /\ slot[delegate[s]] < slot[s]}

\* No operation of a statement of C waits for data with its delegate before it.
Settled(C) == "pending" \in Risky \/ DelegateGone(C) = {}

Unslotted(S) == [s \in Stmts |-> IF s \in S THEN 0 ELSE slot[s]]

\* CC_cleanup of the connections C, which are not executing, and then, when
\* they are destroyed, their own memory.  The statements are detached and
\* destroyed in the order of their slots; SC_Destructor drops the delegate
\* (SC_reset_delegate), which takes it out of its later slot and clears the
\* pointer to it, or finds that its memory is gone.  The descriptors go next.
CC_cleanup(C, gone) ==
  /\ bad' = (bad \/ DelegateGone(C) # {}
             \/ ~ (C \cup CleanedStmts(C) \cup CleanedDescs(C) \subseteq alive))
  /\ alive' = alive \ (CleanedStmts(C) \cup CleanedDescs(C) \cup gone)
  /\ hdbc' = [s \in Stmts |-> IF s \in CleanedStmts(C) THEN None ELSE hdbc[s]]
  /\ ard' = [s \in Stmts |-> IF s \in CleanedStmts(C) THEN None ELSE ard[s]]
  /\ delegate' = [s \in Stmts |-> IF s \in CleanedStmts(C) THEN None ELSE delegate[s]]
  /\ parent' = [s \in Stmts |-> IF s \in CleanedStmts(C) THEN None ELSE parent[s]]
  /\ slot' = Unslotted(CleanedStmts(C))
  /\ dconn' = [d \in Descs |-> IF d \in CleanedDescs(C) THEN None ELSE dconn[d]]
  /\ stmts' = [c \in Conns |-> IF c \in C THEN {} ELSE stmts[c]]
  /\ descs' = [c \in Conns |-> IF c \in C THEN {} ELSE descs[c]]
  /\ cstatus' = [c \in Conns |-> IF c \in C THEN "not_connected" ELSE cstatus[c]]
  /\ unnamed' = [c \in Conns |-> IF c \in C THEN None ELSE unnamed[c]]
  /\ UNCHANGED <<sstatus, cs>>

\* SQLDisconnect: refused while the connection executes, which the section
\* it holds excludes.
PGAPI_Disconnect(t, c) ==
  /\ Free(t) /\ c \in alive /\ cs[c] = None
  /\ cstatus[c] = "connected"
  /\ Unused(t, {c} \cup stmts[c] \cup descs[c]) /\ Settled({c})
  /\ CC_cleanup({c}, {})
  /\ UNCHANGED <<conns, henv, call>>

\* SQLFreeConnect, first part: the slot of the connection is emptied unless
\* it is executing; an executing one is refused.
EN_remove_connection(t, c) ==
  /\ Free(t) /\ c \in alive
  /\ Unused(t, {c} \cup stmts[c] \cup descs[c]) /\ Settled({c})
  /\ IF cstatus[c] = "executing" \/ c \notin conns
     THEN UNCHANGED <<conns, call>>
     ELSE /\ conns' = conns \ {c}
          /\ call' = [call EXCEPT ![t] = [Idle EXCEPT !.op = "free_conn", !.obj = c]]
  /\ Touch({henv[c]})
  /\ UNCHANGED <<alive, henv, cstatus, unnamed, stmts, descs, links, dconn, cs>>

\* SQLFreeConnect, second part: CC_Destructor, whose refusal nobody reads.
CC_Destructor(t) ==
  LET c == call[t].obj IN
  /\ call[t].op = "free_conn"
  /\ call' = [call EXCEPT ![t] = Idle]
  /\ \/ /\ c \in alive /\ cstatus[c] # "executing" /\ cs[c] = None
        /\ CC_cleanup({c}, {c})
        /\ henv' = [henv EXCEPT ![c] = None]
     \/ /\ c \in alive => cstatus[c] = "executing"
        /\ Touch({c})
        /\ UNCHANGED <<alive, henv, cstatus, unnamed, stmts, descs, links, dconn, cs>>
  /\ UNCHANGED conns

\* The connections of e that EN_Destructor finds in the table, and those of
\* them it destroys.
Mine(e) == {c \in conns : henv[c] = e}
Destroyed(e) == {c \in Mine(e) : cstatus[c] # "executing"}

\* The table is thrown away when every slot is empty or was of this
\* environment; a connection that refused to be destroyed is counted too.
Cleared(e) ==
  IF conns = Mine(e) THEN {} ELSE conns \ Destroyed(e)

\* SQLFreeEnv: EN_Destructor under the lock of the table of connections.
EN_Destructor(t, e) ==
  /\ Free(t) /\ e \in alive
  /\ Unused(t, {e} \cup Mine(e) \cup UNION {stmts[c] \cup descs[c] : c \in Mine(e)})
  /\ Settled(Destroyed(e)) /\ \A c \in Destroyed(e) : cs[c] = None
  /\ CC_cleanup(Destroyed(e), Destroyed(e) \cup {e})
  /\ conns' = Cleared(e)
  /\ henv' = [c \in Conns |-> IF c \in Destroyed(e) THEN None ELSE henv[c]]
  /\ UNCHANGED call

----------------------------------------------------------------------------
(* Statements. *)

\* CC_add_statement takes the first slot that is free; the table grows.
FirstFree(c, n) ==
  /\ \A x \in stmts[c] : slot[x] # n
  /\ \A m \in 1..(n - 1) : \E x \in stmts[c] : slot[x] = m

\* SC_Constructor, CC_add_statement.
Made(s, c, p) ==
  /\ \E n \in 1..Cardinality(Stmts) :
       /\ FirstFree(c, n)
       /\ slot' = [x \in Stmts |-> IF x = s THEN n ELSE slot[x]]
  /\ alive' = alive \cup {s}
  /\ stmts' = [stmts EXCEPT ![c] = @ \cup {s}]
  /\ hdbc' = [hdbc EXCEPT ![s] = c]
  /\ ard' = [ard EXCEPT ![s] = None]
  /\ sstatus' = [sstatus EXCEPT ![s] = "ready"]
  /\ parent' = [parent EXCEPT ![s] = p]
  /\ delegate' = [x \in Stmts |-> IF x = p THEN s ELSE IF x = s THEN None ELSE delegate[x]]

PGAPI_AllocStmt(t, s, c) ==
  /\ Free(t) /\ s \notin alive
  /\ c \in alive /\ cs[c] = None /\ cstatus[c] = "connected"
  /\ Unwalked(t, c) /\ Open(t, c)
  /\ Made(s, c, None)
  /\ UNCHANGED <<conns, henv, cstatus, unnamed, descs, dconn, cs, call, bad>>

\* A positioned change or a bulk operation of p that needs data makes a
\* statement of the same connection and links the two (SC_set_delegate).
Delegated(t, s, p) ==
  LET c == hdbc[p] IN
  /\ Free(t) /\ s \notin alive /\ p \in alive
  /\ c \in alive /\ cs[c] = None
  /\ parent[p] = None /\ delegate[p] = None
  /\ Unused(t, {p}) /\ Unwalked(t, c) /\ Open(t, c)
  /\ Made(s, c, p)
  /\ UNCHANGED <<conns, henv, cstatus, unnamed, descs, dconn, cs, call, bad>>

\* The statements that go when the statements of S are dropped: none of them
\* is executing.  Each leaves the table of its connection, is forgotten as
\* the unnamed prepared statement, and is unlinked from its parent.
UnnamedDropped(S) == [c \in Conns |-> IF unnamed[c] \in S THEN None ELSE unnamed[c]]

Undelegated(S) ==
  [x \in Stmts |-> IF x \in S \/ delegate[x] \in S THEN None ELSE delegate[x]]

Drop(S) ==
  /\ Touch(S \cup {hdbc[s] : s \in S} \cup {parent[s] : s \in S})
  /\ alive' = alive \ S
  /\ stmts' = [c \in Conns |-> stmts[c] \ S]
  /\ unnamed' = UnnamedDropped(S)
  /\ delegate' = Undelegated(S)
  /\ slot' = Unslotted(S)
  /\ hdbc' = [s \in Stmts |-> IF s \in S THEN None ELSE hdbc[s]]
  /\ ard' = [s \in Stmts |-> IF s \in S THEN None ELSE ard[s]]
  /\ parent' = [s \in Stmts |-> IF s \in S THEN None ELSE parent[s]]

Delegates(s) == {delegate[s]} \ {None}
Droppable(S) == {s \in S : sstatus[s] # "executing"}

\* SQLFreeHandle of a statement: an executing one is refused; its delegate is
\* dropped too, unless that is executing: then it stays behind, still
\* pointing to its parent.
PGAPI_FreeStmt(t, s) ==
  /\ Free(t) /\ s \in alive /\ parent[s] = None
  /\ hdbc[s] # None => cs[hdbc[s]] = None
  /\ Unused(t, {s} \cup Delegates(s))
  /\ hdbc[s] # None => Unwalked(t, hdbc[s]) /\ Open(t, hdbc[s])
  /\ sstatus[s] # "executing"
  /\ Drop({s} \cup Droppable(Delegates(s)))
  /\ UNCHANGED <<conns, henv, cstatus, descs, sstatus, dconn, cs, call>>

\* SQLCloseCursor, SQLFreeStmt(SQL_CLOSE): the delegate goes, the statement
\* is recycled and is no longer the unnamed prepared one.
CloseStmt(t, s) ==
  /\ Free(t) /\ s \in alive /\ parent[s] = None
  /\ hdbc[s] # None /\ Unused(t, {s} \cup Delegates(s))
  /\ Unwalked(t, hdbc[s]) /\ Open(t, hdbc[s])
  /\ sstatus[s] # "executing"
  /\ Touch({s, hdbc[s]} \cup Delegates(s))
  /\ LET S == Droppable(Delegates(s)) IN
     /\ alive' = alive \ S
     /\ stmts' = [c \in Conns |-> stmts[c] \ S]
     /\ unnamed' = UnnamedDropped(S \cup {s})
     /\ delegate' = [Undelegated(S) EXCEPT ![s] = None]
     /\ slot' = Unslotted(S)
     /\ hdbc' = [x \in Stmts |-> IF x \in S THEN None ELSE hdbc[x]]
     /\ ard' = [x \in Stmts |-> IF x \in S THEN None ELSE ard[x]]
     /\ parent' = [x \in Stmts |-> IF x \in S THEN None ELSE parent[x]]
  /\ UNCHANGED <<conns, henv, cstatus, descs, sstatus, dconn, cs, call>>

\* The operation of the parent is over: SC_reset_delegate drops the delegate,
\* which clears the pointer of its parent.
SC_reset_delegate(t, s) ==
  /\ Free(t) /\ s \in alive /\ delegate[s] # None
  /\ Unused(t, {s, delegate[s]}) /\ Unwalked(t, hdbc[s]) /\ Open(t, hdbc[s])
  /\ sstatus[delegate[s]] # "executing"
  /\ Drop({delegate[s]})
  /\ UNCHANGED <<conns, henv, cstatus, descs, sstatus, dconn, cs, call>>

\* A statement is prepared on the server without a name (ParseWithlibpq).
Prepare(t, s) ==
  /\ Free(t) /\ s \in alive /\ hdbc[s] # None
  /\ cs[hdbc[s]] = None /\ Unused(t, {s}) /\ Open(t, hdbc[s])
  /\ Touch({hdbc[s]})
  /\ unnamed' = [unnamed EXCEPT ![hdbc[s]] = s]
  /\ UNCHANGED <<alive, conns, henv, cstatus, stmts, descs, links, dconn, cs, call>>

\* SC_execute: in the section of the connection from here to ExecuteEnd.
Execute(t, s) ==
  LET c == hdbc[s] IN
  /\ Free(t) /\ s \in alive /\ parent[s] = None
  /\ c \in alive /\ cs[c] = None /\ cstatus[c] = "connected"
  /\ Unused(t, {s, Estmt(s)}) /\ Shared(t, ard[s]) /\ Open(t, c)
  /\ Touch({s, Estmt(s), ard[s]})
  /\ cs' = [cs EXCEPT ![c] = t]
  /\ cstatus' = [cstatus EXCEPT ![c] = "executing"]
  /\ sstatus' = [sstatus EXCEPT ![Estmt(s)] = "executing"]
  /\ call' = [call EXCEPT ![t] =
       [op |-> "execute", obj |-> s, todo |-> {Estmt(s)}, at |-> c]]
  /\ UNCHANGED <<alive, conns, henv, unnamed, stmts, descs, slot, hdbc, ard, delegate, parent, dconn>>

\* The server has answered: the statuses are set back, the section is left.
ExecuteEnd(t) ==
  LET c == call[t].at
      X == call[t].todo
  IN
  /\ call[t].op = "execute" /\ c # None
  /\ Touch({c, call[t].obj} \cup X)
  /\ cs' = [cs EXCEPT ![c] = None]
  /\ cstatus' = [cstatus EXCEPT ![c] = IF c \in alive THEN "connected" ELSE @]
  /\ sstatus' = [x \in Stmts |-> IF x \in X THEN "ready" ELSE sstatus[x]]
  /\ call' = [call EXCEPT ![t].at = None]
  /\ UNCHANGED <<alive, conns, henv, unnamed, stmts, descs, slot, hdbc, ard, delegate, parent, dconn>>

\* The rest of SC_execute and PGAPI_Execute, still with the lock of the
\* statement: the status of the connection is set back once more, outside its
\* section, and the statement and its application descriptor are read.
ExecuteReturn(t) ==
  LET s == call[t].obj IN
  /\ call[t].op = "execute" /\ call[t].at = None
  /\ Touch({s} \cup (IF s \in alive THEN {ard[s], hdbc[s]} ELSE {}))
  /\ cstatus' = [c \in Conns |->
                   IF s \in alive /\ c = hdbc[s] THEN "connected" ELSE cstatus[c]]
  /\ call' = [call EXCEPT ![t] = Idle]
  /\ UNCHANGED <<alive, conns, henv, unnamed, stmts, descs, links, dconn, cs>>

----------------------------------------------------------------------------
(* Explicit descriptors. *)

PGAPI_AllocDesc(t, d, c) ==
  /\ Free(t) /\ d \notin alive
  /\ c \in alive /\ cs[c] = None /\ cstatus[c] = "connected" /\ Open(t, c)
  /\ alive' = alive \cup {d}
  /\ descs' = [descs EXCEPT ![c] = @ \cup {d}]
  /\ dconn' = [dconn EXCEPT ![d] = c]
  /\ UNCHANGED <<tables, stmts, links, cs, call, bad>>

\* SQLSetStmtAttr(SQL_ATTR_APP_ROW_DESC): d, or None for the embedded one.
SetDesc(t, s, d) ==
  /\ Free(t) /\ s \in alive /\ parent[s] = None /\ d # ard[s]
  /\ d # None => d \in alive /\ (dconn[d] = hdbc[s] \/ "foreign_desc" \in Risky)
  /\ Unused(t, {s}) /\ (d # None => Shared(t, d)) /\ Open(t, hdbc[s])
  /\ ard' = [ard EXCEPT ![s] = d]
  /\ UNCHANGED <<alive, tables, stmts, descs, slot, hdbc, delegate, parent, sstatus, dconn, cs, call, bad>>

\* SQLFreeHandle of a descriptor, without any lock.  Its contents go and it
\* leaves the table; then the statements of its connection are walked.
PGAPI_FreeDesc(t, d) ==
  LET c == dconn[d] IN
  /\ Free(t) /\ d \in alive
  /\ Unused(t, {d} \cup {s \in Stmts : ard[s] = d})
  /\ dconn[d] # None => Open(t, dconn[d])
  /\ Touch({d, c})
  /\ descs' = [x \in Conns |-> descs[x] \ {d}]
  /\ call' = [call EXCEPT ![t] =
       [op |-> "free_desc", obj |-> d,
        todo |-> IF c = None THEN {} ELSE stmts[c], at |-> None]]
  /\ UNCHANGED <<alive, tables, stmts, links, dconn, cs>>

\* stmt = conn->stmts[i].
Walk(t) ==
  /\ call[t].op = "free_desc" /\ call[t].at = None /\ call[t].todo # {}
  /\ \E s \in call[t].todo :
       call' = [call EXCEPT ![t].todo = @ \ {s},
                            ![t].at = IF s \in stmts[dconn[call[t].obj]] THEN s ELSE None]
  /\ Touch({dconn[call[t].obj]})
  /\ UNCHANGED <<alive, tables, stmts, descs, links, dconn, cs>>

\* A statement that used the descriptor is given its embedded one back.
RevertedNot(s, d) == ard[s]

Reverted(s, d) == IF ard[s] = d THEN None ELSE ard[s]

Revert(t) ==
  LET s == call[t].at IN
  /\ call[t].op = "free_desc" /\ s # None
  /\ Touch({s})
  /\ ard' = [ard EXCEPT ![s] = Reverted(s, call[t].obj)]
  /\ call' = [call EXCEPT ![t].at = None]
  /\ UNCHANGED <<alive, tables, stmts, descs, slot, hdbc, delegate, parent, sstatus, dconn, cs>>

FreeDescEnd(t) ==
  LET d == call[t].obj IN
  /\ call[t].op = "free_desc" /\ call[t].at = None /\ call[t].todo = {}
  /\ Touch({d})
  /\ alive' = alive \ {d}
  /\ dconn' = [dconn EXCEPT ![d] = None]
  /\ call' = [call EXCEPT ![t] = Idle]
  /\ UNCHANGED <<tables, stmts, descs, links, cs>>

----------------------------------------------------------------------------
ConnCall(t) ==
  \/ \E e \in Envs : PGAPI_AllocEnv(t, e)
  \/ \E e \in Envs : EN_Destructor(t, e)
  \/ \E c \in Conns, e \in Envs : PGAPI_AllocConnect(t, c, e)
  \/ \E c \in Conns : Connect(t, c)
  \/ \E c \in Conns : PGAPI_Disconnect(t, c)
  \/ \E c \in Conns : EN_remove_connection(t, c)
  \/ CC_Destructor(t)

StmtCall(t) ==
  \/ \E s \in Stmts, c \in Conns : PGAPI_AllocStmt(t, s, c)
  \/ \E s \in Stmts, p \in Stmts : Delegated(t, s, p)
  \/ \E s \in Stmts : PGAPI_FreeStmt(t, s)
  \/ \E s \in Stmts : CloseStmt(t, s)
  \/ \E s \in Stmts : SC_reset_delegate(t, s)
  \/ \E s \in Stmts : Prepare(t, s)
  \/ \E s \in Stmts : Execute(t, s)
  \/ ExecuteEnd(t)
  \/ ExecuteReturn(t)

DescCall(t) ==
  \/ \E d \in Descs, c \in Conns : PGAPI_AllocDesc(t, d, c)
  \/ \E d \in Descs \cup {None}, s \in Stmts : SetDesc(t, s, d)
  \/ \E d \in Descs : PGAPI_FreeDesc(t, d)
  \/ Walk(t)
  \/ Revert(t)
  \/ FreeDescEnd(t)

Next == \E t \in Threads : ConnCall(t) \/ StmtCall(t) \/ DescCall(t)

Spec == Init /\ [][Next]_vars

----------------------------------------------------------------------------
TypeOK ==
  /\ alive \subseteq Envs \cup Conns \cup Stmts \cup Descs
  /\ conns \subseteq Conns
  /\ henv \in [Conns -> Envs \cup {None}]
  /\ cstatus \in [Conns -> {"not_connected", "connected", "executing"}]
  /\ stmts \in [Conns -> SUBSET Stmts] /\ descs \in [Conns -> SUBSET Descs]
  /\ slot \in [Stmts -> Nat]
  /\ unnamed \in [Conns -> Stmts \cup {None}]
  /\ hdbc \in [Stmts -> Conns \cup {None}] /\ ard \in [Stmts -> Descs \cup {None}]
  /\ delegate \in [Stmts -> Stmts \cup {None}] /\ parent \in [Stmts -> Stmts \cup {None}]
  /\ sstatus \in [Stmts -> {"ready", "executing"}]
  /\ dconn \in [Descs -> Conns \cup {None}]
  /\ cs \in [Conns -> Threads \cup {None}]
  /\ bad \in BOOLEAN

\* No call of the driver uses the memory of a handle that was freed, whatever
\* the order in which two threads make and free environments, connections,
\* statements and descriptors (PGAPI_FreeStmt, PGAPI_FreeDesc, CC_cleanup);
\* and what a live handle points to is live: a statement's connection and
\* application descriptor, the unnamed prepared statement of a connection,
\* both ends of the link between a statement and its delegate.
NoUseAfterFree ==
  /\ ~ bad
  /\ \A s \in Stmts \cap alive :
       /\ {hdbc[s], ard[s], delegate[s], parent[s]} \ {None} \subseteq alive
       /\ delegate[s] # None => parent[delegate[s]] = s
       /\ parent[s] # None => delegate[parent[s]] = s
  /\ \A c \in Conns \cap alive : {henv[c], unnamed[c]} \ {None} \subseteq alive
  /\ conns \subseteq alive

\* No handle is lost: a live statement or descriptor is in the table of a
\* live connection that will free it, and a live connection in the table of
\* the process, unless a call is at work on it (CC_cleanup, EN_Destructor).
NothingLost ==
  /\ \A s \in Stmts \cap alive : \E c \in Conns \cap alive : s \in stmts[c] /\ hdbc[s] = c
  /\ \A d \in Descs \cap alive :
       \/ \E c \in Conns \cap alive : d \in descs[c] /\ dconn[d] = c
       \/ \E t \in Threads : call[t].op = "free_desc" /\ call[t].obj = d
  /\ \A c \in Conns \cap alive :
       c \in conns \/ \E t \in Threads : call[t].op = "free_conn" /\ call[t].obj = c
=============================================================================
