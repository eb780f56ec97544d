-------------------------------- MODULE Entry --------------------------------
(***************************************************************************)
(* The ODBC entry points (odbcapi.c, odbcapi30.c and their wide-character  *)
(* forms) and the locks of the driver: what every call does around the     *)
(* PGAPI function it stands for.  A call on a statement takes the lock of  *)
(* the statement, clears its errors, opens a rollback bracket, works,      *)
(* perhaps rolls back (DiscardStatementSvp), and lets go.  Inside the      *)
(* bracket the connection's lock may be kept (lock_CC_for_rb), across      *)
(* calls even, while the application is asked for data.                    *)
(*                                                                         *)
(* One connection and its statements, several threads.  The entry points   *)
(* are given by their shapes; what they compute is in the other modules.   *)
(***************************************************************************)
EXTENDS Integers, FiniteSets

CONSTANTS
  Threads,
  Stmts,
  None,
  MaxCalls,       \* a bound on the calls made without being asked for data
  MaxAsks,        \* a bound on the SQL_NEED_DATA answers of a statement
  Risky           \* habits of the application that break a property

ASSUME SetsAssumption == IsFiniteSet(Threads) /\ IsFiniteSet(Stmts) /\ None \notin Threads \cup Stmts
ASSUME LocksAssumption == {"env", "conns", "conn"} \cap Stmts = {}
ASSUME BoundsAssumption == MaxCalls \in Nat /\ MaxAsks \in Nat
ASSUME RiskyAssumption == Risky \subseteq {"shared_trans", "wait_alloc", "cancel_data", "other_thread", "shared_stmt", "lost_waiting"}

-----------------------------------------------------------------------------
(* Shapes: the lock that is taken, whether a lost connection is noticed    *)
(* first, where SC_opencheck stands, whether the call can reach the        *)
(* server, whether it may ask for data, whether a catalog call is repeated *)
(* with folded names, and how DiscardStatementSvp closes the bracket.      *)

Shape(on, lost, check, reach, data, rerun, ends) ==
  [on |-> on, lost |-> lost, check |-> check, reach |-> reach, data |-> data, rerun |-> rerun, ends |-> ends]

Local     == Shape("stmt", FALSE, "no", FALSE, FALSE, FALSE, "discard")
LocalLost == [Local EXCEPT !.lost = TRUE]
Asking    == [LocalLost EXCEPT !.reach = TRUE]
Changing  == [Asking EXCEPT !.data = TRUE]
CatalogW  == [Asking EXCEPT !.check = "inside"]
Catalog   == [CatalogW EXCEPT !.rerun = TRUE]
CatalogNone == [CatalogW EXCEPT !.lost = FALSE]
RunningW  == [CatalogW EXCEPT !.data = TRUE]
Running   == [RunningW EXCEPT !.check = "before"]
Asked     == [Running EXCEPT !.data = FALSE]
Resuming  == [Changing EXCEPT !.check = "awaited"]
Putting   == [Resuming EXCEPT !.data = FALSE, !.ends = "errors"]
Closing   == [Local EXCEPT !.ends = "no"]
Dropping  == [Closing EXCEPT !.on = "drop"]
OnConn    == [Closing EXCEPT !.on = "conn"]
OnEnv     == [Closing EXCEPT !.on = "env"]
Adding    == [Closing EXCEPT !.on = "add"]
OnConns   == [Closing EXCEPT !.on = "conns"]
Unlocked  == [Closing EXCEPT !.on = "none"]
Canceling == [Unlocked EXCEPT !.lost = TRUE]

\* odbcapi.c
Columns == [SQLBindCol |-> Local, SQLCancel |-> Canceling, SQLColumns |-> Catalog]
Connects == [SQLConnect |-> OnConn, SQLDriverConnect |-> OnConn, SQLBrowseConnect |-> OnConn,
             SQLDataSources |-> Unlocked, SQLDescribeCol |-> Asking, SQLDisconnect |-> OnConn]
Executes == [SQLExecDirect |-> Running, SQLExecute |-> Running, SQLFetch |-> Asking,
             SQLFreeStmt |-> Closing, SQLFreeStmtDrop |-> Dropping, SQLGetCursorName |-> Local]
Infos == [SQLGetData |-> Asking, SQLGetFunctions |-> OnConn, SQLGetInfo |-> OnConn,
          SQLGetTypeInfo |-> Asked, SQLNumResultCols |-> Asking, SQLParamData |-> Resuming]
Prepares == [SQLPrepare |-> Asked, SQLPutData |-> Putting, SQLRowCount |-> LocalLost,
             SQLSetCursorName |-> Local, SQLSetParam |-> Unlocked]
Specials == [SQLSpecialColumns |-> Catalog, SQLStatistics |-> Catalog]
Tables == [SQLTables |-> Catalog, SQLColumnPrivileges |-> Catalog]
Foreign == [SQLDescribeParam |-> Asking, SQLExtendedFetch |-> Asking, SQLForeignKeys |-> Catalog]
Primary == [SQLMoreResults |-> Asking, SQLNativeSql |-> OnConn, SQLNumParams |-> LocalLost, SQLPrimaryKeys |-> Catalog]
Procedures == [SQLProcedureColumns |-> Catalog, SQLProcedures |-> Catalog]
Privileges == [SQLSetPos |-> Changing, SQLTablePrivileges |-> Catalog, SQLBindParameter |-> Local]

\* odbcapi30.c
Allocs == [SQLAllocHandleDbc |-> Adding, SQLAllocHandleStmt |-> OnConn, SQLAllocHandleDesc |-> OnConn,
           SQLBindParam |-> Local, SQLCloseCursor |-> Asking, SQLColAttribute |-> Asking]
Transacts == [SQLCopyDesc |-> Unlocked, SQLEndTranEnv |-> OnConns, SQLEndTranDbc |-> OnConn, SQLFetchScroll |-> Asking,
         SQLFreeHandleStmt |-> Dropping, SQLFreeHandleDesc |-> Unlocked]
Attrs == [SQLGetDescField |-> Unlocked, SQLGetDescRec |-> Unlocked, SQLGetDiagField |-> Unlocked, SQLGetDiagRec |-> Unlocked, SQLGetEnvAttr |-> OnEnv,
          SQLGetConnectAttr |-> OnConn, SQLGetStmtAttr |-> Local, SQLSetConnectAttr |-> OnConn, SQLSetDescField |-> Unlocked]
SetAttrs == [SQLSetDescRec |-> Unlocked, SQLSetEnvAttr |-> OnEnv, SQLSetStmtAttr |-> Local, SQLBulkOperations |-> Changing]

\* odbcapiw.c: names are converted before the lock is taken, and the folded names are
\* not tried; SQLProcedureColumnsW does not look at the connection first.
ColumnsW == [SQLColumnsW |-> CatalogW, SQLConnectW |-> OnConn]
ConnectsW == [SQLDriverConnectW |-> OnConn, SQLBrowseConnectW |-> OnConn, SQLDataSourcesW |-> Unlocked]
ExecutesW == [SQLDescribeColW |-> Asking, SQLExecDirectW |-> RunningW, SQLGetCursorNameW |-> Local]
PreparesW == [SQLGetInfoW |-> OnConn, SQLPrepareW |-> CatalogW, SQLSetCursorNameW |-> Local, SQLSpecialColumnsW |-> CatalogW]
TablesW == [SQLStatisticsW |-> CatalogW, SQLTablesW |-> CatalogW, SQLColumnPrivilegesW |-> CatalogW]
ForeignW == [SQLForeignKeysW |-> CatalogW, SQLNativeSqlW |-> OnConn]
ProceduresW == [SQLPrimaryKeysW |-> CatalogW, SQLProcedureColumnsW |-> CatalogNone]
PrivilegesW == [SQLProceduresW |-> CatalogW, SQLTablePrivilegesW |-> CatalogW, SQLGetTypeInfoW |-> CatalogW]

\* odbcapi30w.c: the wide forms ask again with a larger buffer until the text fits.
AttrsW == [SQLGetStmtAttrW |-> Local, SQLSetStmtAttrW |-> Local, SQLGetConnectAttrW |-> OnConn,
           SQLSetConnectAttrW |-> OnConn, SQLSetDescFieldW |-> Unlocked]
DescsW == [SQLGetDescFieldW |-> Unlocked, SQLGetDiagRecW |-> Unlocked]
ColAttributesW == [SQLColAttributeW |-> Asking, SQLGetDiagFieldW |-> Unlocked]

Groups == {Columns, Connects, Executes, Infos, Prepares, Specials, Tables, Foreign, Primary, Procedures, Privileges,
           Allocs, Transacts, Attrs, SetAttrs, ColumnsW, ConnectsW, ExecutesW, PreparesW, TablesW, ForeignW, ProceduresW,
           PrivilegesW, AttrsW, DescsW, ColAttributesW}
\* Entry points of one shape are the same to this module.
Shapes == UNION {{G[e] : e \in DOMAIN G} : G \in Groups}

-----------------------------------------------------------------------------
VARIABLES
  owner,          \* who holds a lock, None for nobody
  depth,          \* how often the lock of the connection, which is recursive, is held
  th,             \* the call of each thread
  calls,          \* those calls
  manual,         \* the application has switched autocommit off
  keeps,          \* per statement, lock_CC_for_rb: the thread whose connection lock it keeps
  asked,          \* per statement, its bracket has sent an ordinary statement in the
                  \* transaction under way, which was in no error then
  awaits,         \* per statement, the thread that was told SQL_NEED_DATA
  asks,           \* per statement, how often
  accessed,       \* CC_accessed_db
  inTrans,        \* CC_is_in_trans
  inError,        \* CC_is_in_error_trans
  lost            \* conn->pqconn is gone

brackets == <<keeps, asked, awaits, asks, accessed>>
conns == <<manual, inTrans, inError, lost>>
vars == <<owner, depth, th, calls, brackets, conns>>

Locks == {"env", "conns", "conn"} \cup Stmts
Idle == [pc |-> "idle", shape |-> Unlocked, s |-> None, ret |-> "SUCCESS", again |-> FALSE,
         kind |-> "ordinary"]

Init ==
  /\ owner = [l \in Locks |-> None] /\ depth = 0
  /\ th = [t \in Threads |-> Idle] /\ calls = 0
  /\ manual \in BOOLEAN
  /\ keeps = [s \in Stmts |-> None] /\ asked = [s \in Stmts |-> FALSE]
  /\ awaits = [s \in Stmts |-> None] /\ asks = [s \in Stmts |-> 0]
  /\ accessed = FALSE /\ inTrans = FALSE /\ inError = FALSE /\ lost = FALSE

Goes(t, pc) == th' = [th EXCEPT ![t].pc = pc]
OnStmt(t) == th[t].shape.on = "stmt"
Bracketed(t) == OnStmt(t) /\ th[t].shape.ends # "no"

OfStmt(shape) == shape.on \in {"stmt", "drop"} \/ shape = Canceling

\* Only the lock of a connection may be taken again by its owner.
Free(t, l) == owner[l] = None \/ (l = "conn" /\ owner[l] = t)
Acquire(t, l) ==
  /\ owner' = [owner EXCEPT ![l] = t]
  /\ depth' = IF l = "conn" THEN depth + 1 ELSE depth
Release(l) ==
  /\ depth' = IF l = "conn" THEN depth - 1 ELSE depth
  /\ owner' = [owner EXCEPT ![l] = IF l = "conn" /\ depth > 1 THEN @ ELSE None]

\* The thread was asked for data, and may keep the lock of the connection.
Waiting(t) == \E r \in Stmts : awaits[r] = t

\* What the rules of ODBC, the driver manager and this driver's habits let a thread call.
MayCall(t, shape, s) ==
  /\ (awaits[s] # None /\ shape.on = "stmt") => shape \in {Resuming, Putting}
  /\ shape \in {Resuming, Putting} =>
       awaits[s] # None /\ (awaits[s] = t \/ "other_thread" \in Risky)
  /\ (shape.on = "stmt" /\ manual) =>
       \/ "shared_trans" \in Risky
       \/ /\ \A u \in Threads : th[u].shape.on # "stmt"
          /\ \A r \in Stmts \ {s} : awaits[r] = None
          /\ keeps[s] = t \/ \A u \in Threads : th[u].shape.on \notin {"conn", "conns"}
  /\ (shape.on \in {"conn", "conns"} /\ manual) =>
       "shared_trans" \in Risky \/ \A u \in Threads : th[u].shape.on = "stmt" => keeps[th[u].s] = u
  /\ \A u \in Threads : (th[u].s = s /\ (shape.data \/ th[u].shape.data)) =>
       "shared_stmt" \in Risky
  /\ shape.on = "drop" => awaits[s] = None /\ \A u \in Threads : th[u].s # s
  /\ \A u \in Threads : (th[u].shape.on = "drop" \/ th[u].shape = Canceling) =>
       th[u].s # s \/ "cancel_data" \in Risky
  /\ Waiting(t) => shape.on \notin {"env", "add", "conns"} \/ "wait_alloc" \in Risky
  /\ \A u \in Threads : (shape.on = "stmt" /\ th[u].s = s) =>
       ~(Waiting(t) \/ Waiting(u)) \/ "wait_alloc" \in Risky
  /\ shape = Canceling =>
       \/ "cancel_data" \in Risky
       \/ (awaits[s] = None \/ keeps[s] = None) /\ \A u \in Threads : th[u].s # s

\* A call; giving data that was asked for is not counted.
Call(t, shape, s) ==
  /\ th[t].pc = "idle" /\ MayCall(t, shape, s)
  /\ shape # Resuming => calls < MaxCalls
  /\ calls' = IF shape = Resuming THEN calls ELSE calls + 1
  /\ th' = [th EXCEPT ![t] = [Idle EXCEPT !.pc = "enter", !.shape = shape, !.again = shape.rerun,
                                     !.s = IF OfStmt(shape) THEN s ELSE None]]
  /\ asks' = IF shape.on # "stmt" \/ awaits[s] # None THEN asks ELSE [asks EXCEPT ![s] = 0]
  /\ UNCHANGED <<owner, depth, keeps, asked, awaits, accessed, conns>>

\* SC_connection_lost_check: the call is refused before any lock is taken, and data is
\* no longer waited for.
Refused(t) ==
  /\ th[t].pc = "enter" /\ th[t].shape.lost /\ lost
  /\ th' = [th EXCEPT ![t] = Idle]
  /\ awaits' = [awaits EXCEPT ![th[t].s] = IF th[t].shape \in {Resuming, Putting} THEN None ELSE @]
  /\ UNCHANGED <<owner, depth, calls, keeps, asked, asks, accessed, conns>>

LockOf(t) ==
  CASE OnStmt(t) -> th[t].s
    [] th[t].shape.on \in {"drop", "conn"} -> "conn"
    [] OTHER -> "env"

\* ENTER_STMT_CS, ENTER_CONN_CS, ENTER_ENV_CS.
Enter(t) ==
  /\ th[t].pc = "enter" /\ ~(th[t].shape.lost /\ lost)
  /\ IF th[t].shape.on = "none" THEN UNCHANGED <<owner, depth>>
     ELSE Free(t, LockOf(t)) /\ Acquire(t, LockOf(t))
  /\ Goes(t, IF th[t].shape.on \in {"add", "conns"} THEN "table" ELSE "work")
  /\ UNCHANGED <<calls, brackets, conns>>

\* PGAPI_Cancel of a statement that awaits data.
PGAPI_Cancel(t) ==
  /\ th[t].pc = "work" /\ th[t].shape = Canceling /\ awaits[th[t].s] # None
  /\ owner[th[t].s] = None
  /\ awaits' = [awaits EXCEPT ![th[t].s] = None]
  /\ Goes(t, "leave")
  /\ UNCHANGED <<owner, depth, calls, keeps, asked, asks, accessed, conns>>

\* The outcomes of a call; only some ask for data.
Outcome(t, ret) ==
  ret = "NEED_DATA" => th[t].shape.data /\ asks[th[t].s] < MaxAsks

\* Who is waited for after the call.
Waits(t, ret) ==
  IF ret = "NEED_DATA" THEN t ELSE IF th[t].shape = Putting /\ ret = "SUCCESS" THEN awaits[th[t].s] ELSE None

\* The call has its outcome; without SC_opencheck's leave there is no bracket to close.
Ends(t, ret) ==
  /\ Outcome(t, ret)
  /\ th' = [th EXCEPT ![t].ret = ret, ![t].pc = IF Bracketed(t) THEN "discard" ELSE "leave"]
  /\ awaits' = IF Bracketed(t) THEN [awaits EXCEPT ![th[t].s] = Waits(t, ret)] ELSE awaits
  /\ asks' = IF ret = "NEED_DATA" THEN [asks EXCEPT ![th[t].s] = @ + 1] ELSE asks

\* SC_opencheck refuses before StartRollbackState.
Opened(t) ==
  /\ th[t].pc = "work" /\ th[t].shape.check = "before"
  /\ th' = [th EXCEPT ![t].ret = "ERROR", ![t].pc = "leave"]
  /\ UNCHANGED <<owner, depth, calls, brackets, conns>>

\* The work ends without the server.
WorkHere(t, ret) ==
  /\ th[t].pc = "work" /\ ~(th[t].shape = Canceling /\ awaits[th[t].s] # None)
  /\ Ends(t, ret)
  /\ UNCHANGED <<owner, depth, calls, keeps, asked, accessed, conns>>

\* EN_add_connection, and PGAPI_Transact of an environment, take the lock of the table.
EnterConns(t) ==
  /\ th[t].pc = "table" /\ owner["conns"] = None
  /\ Acquire(t, "conns")
  /\ Goes(t, IF th[t].shape.on = "conns" /\ manual /\ inTrans THEN "transact" ELSE "untable")
  /\ UNCHANGED <<calls, brackets, conns>>

\* CC_on_commit and CC_on_abort(NO_TRANS): CC_set_no_trans and CC_start_stmt.
TransEnds ==
  /\ inTrans' = FALSE /\ inError' = FALSE /\ accessed' = FALSE
  /\ asked' = [s \in Stmts |-> FALSE]

\* PGAPI_Transact of a connection in a transaction: CC_commit, CC_abort.
Transact(t) ==
  /\ \/ th[t].pc = "transact"
     \/ th[t].pc = "work" /\ th[t].shape.on = "conn"
  /\ Free(t, "conn") /\ inTrans
  /\ TransEnds
  /\ \E ret \in {"SUCCESS", "ERROR"} :
       th' = [th EXCEPT ![t].ret = ret, ![t].pc = IF @ = "transact" THEN "untable" ELSE "leave"]
  /\ UNCHANGED <<owner, depth, calls, keeps, awaits, asks, manual, lost>>

\* The transaction of a connection may have ended while its lock was waited for.
TransactNone(t) ==
  /\ th[t].pc = "transact" /\ ~inTrans
  /\ Goes(t, "untable")
  /\ UNCHANGED <<owner, depth, calls, brackets, conns>>

\* A slip: LEAVE_CONNS_CS is forgotten.
LeaveConnsForgotten(t) == UNCHANGED <<owner, depth>>
\* LEAVE_CONNS_CS on every way out.
LeaveConns(t) == Release("conns")
Untable(t) ==
  /\ th[t].pc = "untable"
  /\ LeaveConns(t)
  /\ Goes(t, "leave")
  /\ UNCHANGED <<calls, brackets, conns>>

\* What the driver makes of a statement: some cannot run in a transaction (VACUUM), some
\* end it or go back in it (COMMIT, ROLLBACK TO).
Kinds == {"ordinary", "special", "transaction"}

\* CC_send_query calls SetStatementSvp if it is in a transaction without error or begins one.
consider_rollback(kind) == IF inTrans THEN ~inError ELSE manual /\ kind # "special"

\* A slip: only the statement that begins the transaction counts.
AccessingFirst(kind) == kind = "ordinary" /\ ~inTrans
Accessing(kind) == kind = "ordinary"

\* The call has a statement for the server: with CC_send_query, or with the extended
\* protocol (RequestStart).
Sends(t) ==
  /\ th[t].pc = "work" /\ Bracketed(t) /\ th[t].shape.reach /\ ~lost
  /\ \E kind \in Kinds, how \in {"simple", "extended"} :
       th' = [th EXCEPT ![t].kind = kind, ![t].pc = how]
  /\ UNCHANGED <<owner, depth, calls, brackets, conns>>

\* SetStatementSvp does nothing in a transaction in error.  Else the lock of the
\* connection is kept, from the first time to the end of the bracket, and an ordinary
\* statement accesses the database.  The extended protocol calls it always.  (Neither calls
\* it again while the savepoint of this bracket is there, when nothing is left to do.)
SetStatementSvp(t) ==
  /\ th[t].pc \in {"simple", "extended"}
  /\ IF (th[t].pc = "extended" \/ consider_rollback(th[t].kind)) /\ ~inError /\ ~lost
     THEN /\ IF keeps[th[t].s] # None THEN UNCHANGED <<owner, depth, keeps>>
             ELSE /\ Free(t, "conn") /\ Acquire(t, "conn")
                  /\ keeps' = [keeps EXCEPT ![th[t].s] = t]
          /\ accessed' = (accessed \/ Accessing(th[t].kind))
     ELSE UNCHANGED <<owner, depth, keeps, accessed>>
  /\ Goes(t, "query")
  /\ UNCHANGED <<calls, asked, awaits, asks, conns>>

\* The server is gone: CC_on_abort(CONN_DEAD).
Loses(t) ==
  /\ "lost_waiting" \in Risky \/ \A r \in Stmts \ {th[t].s} : keeps[r] = None
  /\ lost' = TRUE /\ TransEnds

\* The server carries the statement out or refuses it.  A manual connection begins a
\* transaction, but for a special statement; an error leaves the transaction in error.
Served(t) ==
  LET kind == th[t].kind IN
  /\ UNCHANGED <<lost, accessed>>
  /\ inTrans' = (inTrans \/ (manual /\ kind # "special"))
  /\ inError' \in {inError, inTrans'} \cup (IF kind = "transaction" THEN {FALSE} ELSE {})
  /\ asked' = IF kind = "ordinary" /\ inTrans' /\ ~inError THEN [asked EXCEPT ![th[t].s] = TRUE] ELSE asked

\* CC_send_query: ENTER_INNER_CONN_CS, the statement, LEAVE_INNER_CONN_CS.  BEGIN under
\* autocommit is left out.
CC_send_query(t) ==
  /\ th[t].pc = "query" /\ Free(t, "conn")
  /\ \/ lost /\ UNCHANGED <<lost, accessed, inTrans, inError, asked>>
     \/ ~lost /\ Loses(t)
     \/ ~lost /\ th[t].kind = "transaction" /\ TransEnds /\ UNCHANGED lost
     \/ ~lost /\ Served(t)
  /\ th' = [th EXCEPT ![t].kind = "ordinary", ![t].pc = "asked"]
  /\ UNCHANGED <<owner, depth, calls, keeps, awaits, asks, manual>>

Answered(t, ret) ==
  /\ th[t].pc = "asked" /\ (lost => ret = "ERROR")
  /\ ~(ret = "SUCCESS" /\ th[t].again) /\ Ends(t, ret)
  /\ UNCHANGED <<owner, depth, calls, keeps, asked, accessed, conns>>

\* A catalog call that found nothing is made once more, with folded names.
Repeat(t) ==
  /\ th[t].pc = "asked" /\ ~lost /\ th[t].again
  /\ th' = [th EXCEPT ![t].again = FALSE, ![t].pc = "work"]
  /\ UNCHANGED <<owner, depth, calls, brackets, conns>>

\* start_stmt of DiscardStatementSvp: SQL_NEED_DATA, and success of SQLPutData, leave the
\* bracket open.
Starts(t) == th[t].ret = "ERROR" \/ (th[t].ret = "SUCCESS" /\ th[t].shape.ends = "discard")

\* An error rolls back what this bracket has sent (rollback_on_error is 1 or 2).
MustUndo(t) == th[t].ret = "ERROR" /\ accessed /\ inTrans

\* CC_internal_rollback to the savepoint, which may fail and which leaves a transaction
\* without error as it is, or CC_abort.
Undo(t) ==
  /\ th[t].pc = "discard" /\ MustUndo(t) /\ Free(t, "conn")
  /\ \/ inError' \in {FALSE, inError} /\ UNCHANGED <<inTrans, accessed, asked, lost>>
     \/ TransEnds /\ UNCHANGED lost
     \/ Loses(t)
  /\ Goes(t, "undone")
  /\ UNCHANGED <<owner, depth, calls, keeps, awaits, asks, manual>>

\* A slip: the lock of the connection stays when the call fails.
LetGoOk(t) ==
  IF keeps[th[t].s] # None /\ th[t].ret = "SUCCESS"
  THEN keeps' = [keeps EXCEPT ![th[t].s] = None] /\ Release("conn")
  ELSE UNCHANGED <<owner, depth, keeps>>
\* lock_CC_for_rb.
LetGo(t) ==
  IF keeps[th[t].s] # None
  THEN keeps' = [keeps EXCEPT ![th[t].s] = None] /\ Release("conn")
  ELSE UNCHANGED <<owner, depth, keeps>>

\* The end of DiscardStatementSvp.
Discard(t) ==
  /\ th[t].pc = "undone" \/ (th[t].pc = "discard" /\ ~MustUndo(t))
  /\ IF Starts(t) THEN LetGo(t) /\ Goes(t, "start") ELSE UNCHANGED <<owner, depth, keeps>> /\ Goes(t, "leave")
  /\ UNCHANGED <<calls, asked, awaits, asks, accessed, conns>>

\* CC_start_stmt, after the lock: the connection is not accessed yet.
Started == FALSE

CC_start_stmt(t) ==
  /\ th[t].pc = "start"
  /\ accessed' = Started
  /\ asked' = [asked EXCEPT ![th[t].s] = FALSE]
  /\ Goes(t, "leave")
  /\ UNCHANGED <<owner, depth, calls, keeps, awaits, asks, conns>>

Leave(t) ==
  /\ th[t].pc = "leave"
  /\ IF th[t].shape.on = "none" THEN UNCHANGED <<owner, depth>> ELSE Release(LockOf(t))
  /\ th' = [th EXCEPT ![t] = Idle]
  /\ UNCHANGED <<calls, brackets, conns>>

Step(t) ==
  \/ Refused(t) \/ Enter(t) \/ PGAPI_Cancel(t) \/ Opened(t)
  \/ \E ret \in {"SUCCESS", "ERROR", "NEED_DATA"} : WorkHere(t, ret) \/ Answered(t, ret)
  \/ EnterConns(t) \/ Transact(t) \/ TransactNone(t) \/ Untable(t)
  \/ Sends(t) \/ SetStatementSvp(t) \/ CC_send_query(t) \/ Repeat(t)
  \/ Undo(t) \/ Discard(t) \/ CC_start_stmt(t) \/ Leave(t)

Next == \E t \in Threads : Step(t) \/ \E s \in Stmts, shape \in Shapes : Call(t, shape, s)

\* A thread in a call takes its steps, and an application that was asked for data gives it.
Fairness ==
  \A t \in Threads : WF_vars(Step(t)) /\ WF_vars(\E s \in Stmts : Call(t, Resuming, s))

Spec == Init /\ [][Next]_vars /\ Fairness
-----------------------------------------------------------------------------
(* A thread that is in no call holds no lock, except the lock of the       *)
(* connection when it has been asked for data.  (LEAVE_..._CS on every way *)
(* out of the entry points; lock_CC_for_rb.)                               *)
NoLockLeft ==
  \A t \in Threads : th[t].pc = "idle" =>
    \A l \in Locks : owner[l] = t => l = "conn" /\ \E s \in Stmts : awaits[s] = t

(* An ordinary statement that was sent in a transaction without error and  *)
(* then fails comes to its rollback before its bracket is closed, and only *)
(* such a statement: an error found in the driver, a special statement, one*)
(* that ends the transaction and one refused because the transaction was   *)
(* in error before leave the transaction as it is.  (DiscardStatementSvp;  *)
(* CC_accessed_db, which is the connection's.)                             *)
ErrorUndone ==
  /\ [](\A t \in Threads :
    (th[t].pc = "discard" /\ th[t].ret = "ERROR" /\ asked[th[t].s] /\ inTrans) => MustUndo(t))
  /\ [][\A t \in Threads : Undo(t) => asked[th[t].s]]_vars

(* Every call returns, as long as the application gives the data it is     *)
(* asked for.  (The order of the locks of environment, table, statement    *)
(* and connection.)                                                        *)
CallsReturn == \A t \in Threads : []<>(th[t].pc = "idle")
=============================================================================
