# A TLA+ model of the openGauss ODBC driver

The repository is the openGauss fork of psqlODBC: a C library that an application
loads through an ODBC driver manager and that talks to openGauss servers through
libpq. This directory models the parts of it whose correctness depends on the
order of many steps: threads that share tables, calls that nest queries inside the
handling of other queries, windows and lists in memory that must agree with a server,
and long C functions that may fail at every step. TLC checks small instances, TLAPS
proves some of the properties for every value of the constants.

## Inventory

| component | state | operations | interacts with | what is hard |
|---|---|---|---|---|
| Autobalance (`connection.c` 60-571, `PGAPI_Connect`) | `conn_inited`, `orig_entry`, `pgxc_entry` (hosts, `ip_status`, `step`), `refresh_flag`, rwlocks and step locks | `check_and_init`, `init_conn`, `check_IP_connection`, `get_location`, `connect_random_IP`, `connect_IP`, `read_pgxc_node` | every thread that connects, and one background thread that connects through the same code | double-checked initialisation, a table rewritten under readers, a walk that must end, busy waiting |
| Connection and transactions (`connection.c`, `execute.c`, `statement.c`, `qresult.c`) | `transact_status`, `internal_svp`, `internal_op`, `rbonerr`, `opt_*`, `ncursors`, `discardp`, the cursor flags of each result | `CC_send_query_append`, `CC_begin/commit/abort`, `CC_on_commit/abort`, `SetStatementSvp`, `DiscardStatementSvp`, `SC_execute`, `QR_close`, `SQLEndTran` | the server session through libpq; statements through `conn->stmts` | a copy of the server's state kept up to date through failures, lost sessions and re-entrant calls |
| Entry points (`odbcapi*.c`) | `CONN_CS`, `STMT_CS`, the environment's and the table's locks, `lock_CC_for_rb`, `accessed_db` | all exported functions | every other component, the application's threads | locks kept across calls while data is awaited, a rollback bracket around every call |
| Statement execution (`statement.c`, `execute.c`, `bind.c`) | status, prepared state, data-at-execution counters, `exec_current_row` | prepare, describe, execute, put data, cancel, close | connection, descriptors, timer signal | cancel and timeout against a running query; resuming an execution in the middle |
| Bulk operations (`results.c`, `pgapi30.c`) | `spos_cdata`, `bop_cdata`, the callback queue, the execute delegate | SQLSetPos, SQLBulkOperations, SQLParamData, SQLCancel | autocommit of the connection, keysets | a loop interrupted by SQL_NEED_DATA and taken up by a callback |
| Result cache (`qresult.c`, `results.c`) | `num_cached_rows`, `base`, `cursTuple`, `num_total_read`, flags | fetch, scroll, more results | the server cursor | window arithmetic; a cursor position known only by counting |
| Keysets (`results.c`) | `keyset`, `added`, `updated`, `deleted`, `rollback` | positioned update, delete, insert, bookmarks, `ProcessRollback` | end of transaction | undoing changes in memory after a partial rollback without knowing where the savepoint was |
| Columns (`bind.c`, `descriptor.c`, `convert.c`) | ARD bindings, `gdata`, `bind_row` | SQLBindCol, SQLSetDescField, SQLCopyDesc, fetch, SQLGetData | results, descriptors shared by statements | two arrays that must agree; a value handed out in pieces |
| Handles (`environ.c`, `descriptor.c`, ...) | connection table, statement and descriptor lists | allocate, free, cascade | every other component | one thread frees what another uses |
| Catalog functions (`info.c`) | internal statements, buffers and names on the stack | SQLTables and its kin | statement execution | every step may fail; one cleanup label for all of them |
| Table definitions (`parse.c`) | `col_info` of the connection, `ti` of each statement, reference counts | parse, SQLColAttribute, clear, recycle | catalog functions, DDL of the connection | entries freed or outdated while a statement points to them |
| MSDTC and XA (`msdtc_enlist.cpp`, `pgxalib.cpp`) | `asdum`, `gTranInfo`, prepared transactions | enlist, prepare, commit, abort, isolate, recover | connection, the coordinator's threads | two-phase commit with callbacks from other threads and an object they all share |
| Conversion, query rewriting, options, DSN, large objects, logging | little | text and data | all | encodings and boundaries |

`PROJECT.json` lists every component, those not modelled with the reason, and under
*hazards* each place where the code is exposed to an order of events that a test would
hardly produce, with the properties that watch it.

What makes each correct. Autobalance probes and dials configured nodes only, reads tables
that nobody rewrites, gives up only when every usable node was tried, and comes back. A
connection's copy of the transaction state is the server's; a failing statement takes nothing
else with it; cursors are neither forgotten nor trusted when gone; the application's savepoints
survive the driver's. An entry point gives its locks back on every path and undoes exactly a
statement that failed on the server. A statement sends each row of its array once with its own
data and tells the application the truth about it. Scrolling shows what an array of rows would
show. The keys in memory are those of the table after any rollback. A value arrives whole, in
order and in its own place. No handle, definition or local of a catalog function is used after
its release or lost. A distributed transaction ends as the manager decided, and ends.

## Modules

Conventions. `pc`, `call` or a stack says where a C function is; an action is the code
between two points at which another actor can be noticed. Names are the source's where TLA+
allows. An operator whose comment says *slip* is a plausible bug; it stands above the definition
it replaces in a mutant, and each property of a passing run has such a mutant in `PROJECT.json`.

**Risky habits.** Things an application may do, or circumstances, that by themselves make some
property false are members of the constant `Risky` (`RiskyCalls` in `BulkOps`, `RiskyGets` in `GetData`). They are off in all runs, so that these
check everything else exhaustively. Putting one into the `.cfg` and running TLC shows the
failure; the table of each module says what one sees. They are what a maintainer should read first.

### `Autobalance` (with `MCAutobalance`, `Caches_proofs`)

A thread is a client or the refresh thread. The two tables are `list`, `status`, `step`, indexed by
`"orig"` and `"pgxc"`; the locks are `readers`, `writer`, `stepHolder`, `initWriter`. A dial or a
probe succeeds or fails by choice, and `Answers` is what `pgxc_node` may return, nodes that are not
configured included. `step` counts modulo `StepMod`, a multiple of every list length, because only its
remainder is used; the C counter is signed and the model says nothing about its overflow.

With three coordinators the walk of `connect_random_IP` need not end: the inner loop of `get_location`
(453-457) moves by triangular numbers, which come to two of three positions, and goes on for ever while
the third is the only one not visited, although the comment at 493 says that only success or the failure of
all nodes ends the walk. `Trapped` says exactly when; `WaitersReturn` that there is no other way not to return.
`rand()` is seeded with the thread's own id for every choice, so each thread starts at the same positions
(`Rands`) over and over.

### `ConnTrans` (with `MCConnTrans`, `ConnTrans_tasks`, `ConnTrans_proofs`, `ConnTrans_atomic`)

One connection and its server session. The application makes one API call at a time (the connection
lock serialises them). The C call stack is the variable `todo`, a sequence of tasks with the running
one first, so `CC_send_query` may call `LIBPQ_update_transaction_status`, that `CC_on_commit`, that
`CC_clear_cursors`, and that `CC_send_query` again, with the rest of each function waiting below. One
step of the server (`WireOk`, `WireError`, `WireLost`) is one command of a query string:
`BEGIN;SAVEPOINT;...` can fail in the middle.

* `conn` is the part of `ConnectionClass` that decides control, `curs` the cursor flags of each result
  (`open` a cursor name is set, `hold`, `perm` permanent, `doubt` survival check needed, `eof`),
  `discardp` the list of objects to discard, `srv` the session: status, savepoints with the number of
  writes before each, cursors with the savepoint level they belong to.
* A write is a count; rolling back restores the count of the savepoint.
* The server (`Replies`) is external: any write, read or DECLARE may fail, COMMIT may fail (deferred
  checks), writes may warn. With `Lossy`, the session may be lost at any command.
* `handle_pgres_error`, called in the result loop, finds libpq in `PQTRANS_ACTIVE` and sets
  `CONN_IN_TRANSACTION`, also for a notice; the extended protocol path has no such step.
* `last` is a history variable: the call, and the session's status and writes when it began.

Also visible in the model and left as they are: the driver's own BEGIN is taken for one of the
application (`CC_begin`), `connection.c` 2786 keeps manual mode after the last cursor is closed, and
`qresult.c` 777 closes a cursor of a transaction that is already over.

| habit | what happens |
|---|---|
| `catalog` | a catalog function inside a transaction makes the next statement run without its savepoint; its failure aborts the transaction (`StatementAtomic`) |
| `close_in_error` | closing a WITH HOLD cursor of the failed transaction makes the discard loop run inside itself (`connection.c` 3514) and leaves the transaction state wrong (`ManualMeansTrans`) |
| `hold_in_savepoint` | a WITH HOLD cursor undone by ROLLBACK TO leaves the connection "in transaction" after COMMIT (`ManualMeansTrans`) |
| `prepared_end` | SAVEPOINT executed by the extended protocol keeps `internal_svp`, and the next statement releases the internal savepoint together with the application's (`UserSavepointKept`; add `"savepoint"` to `PreparedOps` as well) |
| `stale_ignored` | a stale `CONN_ERROR_IGNORED` makes a surviving WITH HOLD cursor look lost (`CursorsAgree`) |
| `disconnect` | disconnecting with an internal savepoint set leaves `internal_svp` for the next session (`StatementAtomic`) |

### `StmtExec` (with `MCStmtExec`, `Execution_proofs`)

One statement handle that executes an INSERT, UPDATE or DELETE with parameter arrays. `stmt` holds the
fields of `StatementClass` that steer the execution (`status`, `exec_current_row`, `exec_end_row`,
`data_at_exec`, `current_exec_param`, `put_data`; row indices are shifted by one so that 0 stands for
-1), `apd` what the application bound, `bound` whether the descriptors have entries for the parameters
(SQLFreeStmt(SQL_RESET_PARAMS) takes them away), `pstat` the status array. A value is abstracted to where
it comes from (NULL, put data, the array) and the row it belongs to; the format of a parameter in a bind
message is that of `Binary`, and a batch fixes it by its first row. The application's calls are atomic up
to the point where the server runs a row (`StartExec`), the answer is one step, the passage to the next
row another. A second thread runs SQLCancel in the steps of `PGAPI_Cancel`: the unlocked read of
`data_at_exec`, that of `status`, then the request to the server or the wait for the lock. The query
timer is the same cancel in a signal handler. `sent`, `accepted` and `ret` are history. The application
follows the ODBC state table (`odbc`), except that a thread that lost the race with SQLCancel may still
call SQLParamData or SQLPutData.

| habit | what happens |
|---|---|
| `end_row` | `exec_end_row` of a batch is the end of the array of a later execution that is no batch, or of a larger batch whose rows up to there are all ignored: that one sends nothing and returns SQL_SUCCESS (`RowsExact`) |
| `direct_after_cancel` | SQLExecDirect after SQLCancel in a later row resumes at that row (`RowsExact`) |
| `batch_dae` | a batch asks for the data of its first row only and sends them for every row (`OwnData`) |
| `null_in_batch` | a binary parameter NULL in some rows of a batch and not in its first is sent in the wrong format (`OwnData`) |
| `timeout_dae` | the timer of an execution started by SQLParamData waits for the lock its own thread holds (TLC reports the deadlock) |

### `BulkOps` (with `MCBulkOps`, `Execution_proofs`)

SQLSetPos and SQLBulkOperations over the rows of a rowset. `cdata` is `spos_cdata`/`bop_cdata`,
`callbacks` the queue of the statement, `delegate` and `live` the execute delegates, `ac` autocommit. A
row is refused, runs at once, or waits for the data of `late[row]` columns; SQLParamData then
executes the delegate and the queue is worked off (`dequeueNeedDataCallback`), whose second entry takes the
loop up again. `done` is history. Its specification is called `BulkSpec` and its constant of habits `RiskyCalls`,
so that one module of proofs can extend it together with `StmtExec`: both execute many rows in one call.
Left out: rows the application excludes (`row_operation_ptr`, SQL_ROW_IGNORE, `results.c` 4735), rows no longer in the
rowset, and the end of the loop behind the last row of a partial rowset (4714-4720): every row is there and meant.

| habit | what happens |
|---|---|
| `cancel` | SQLCancel while data are awaited looks at the delegate's queue, which is empty: the delegate, the callbacks and autocommit off are left behind (`AutocommitBack`), and a later operation runs the old callbacks (`RowsOnce`) |
| `no_bookmark` | SQLBulkOperations notices a missing bookmark column after it switched autocommit off (`AutocommitBack`) |

### `Scroll` and `RowCache` (with `MCRowCache`, `Results_proofs`)

`Scroll` is the promise: the result is rows 1..n, the application asks for a rowset (`Ask`) and is
answered (`Fetch` by the rule of the orientation, `Targets`); there is no cache. When the server refuses a
command of the call (`Refuse`), no row is delivered: the call fails (`Fail`), or it tells the end of the data
(`Lose`). The second is a defect of the code that `Scroll` names because the driver cannot be shown to promise
more: for a refused MOVE `QR_next_tuple` returns -1 (`qresult.c` 1068-1072), `SC_fetch` makes it
SQL_NO_DATA_FOUND (`statement.c` 1661-1668), and the application takes the rows that are left for lost; a
refused FETCH returns an error. Without a refusal neither may happen. `Scroll` leaves three choices open, because the driver makes them by what it happens to know: behind the end the application stands
either where the call pointed or right behind the last row; SQL_FETCH_PRIOR from there goes back
from that place (the comment at `results.c` 1556-1560 promises the last rows instead), or to the first
rowset when that is larger than the result; and a call that delivers nothing may forget the size of
the rowset before it. `RowCache` is the code: the rows in memory
with their base, `cursTuple`, MOVE and FETCH with short answers, forward-only results, refusals of the
server, results without a cursor, chained results. It implements `Scroll`: `scroll == INSTANCE
Scroll WITH ...` maps the state, and `Transparent == scroll!Spec` is a property of the run, so that every
step of the code is a call of `Scroll` or invisible. The other two properties say why it works:
`CursorKnown` that the driver's count is the position of the cursor, `RowsetCached` that the rowset is
found where SQLGetData looks. `INT_MAX`, the number of rows of a result whose end was not seen, is a
constant: the code's arithmetic stays below it as long as `FitsAssumption` holds.

| habit | what happens |
|---|---|
| `after_close` | fetching again from a result whose cursor the server refused and ROLLBACK closed (`Transparent`) |
| `refused_last` | a refused MOVE ALL is ignored by its caller (`Transparent`) |
| `last_in_window` | MOVE ALL for a last rowset that lies inside the window leaves cursor and window apart (`Transparent`) |

### `Keyset` (with `MCKeyset`)

An updatable result of one of three kinds. Rows have versions (ctids); `srv` is the table the session
sees, its base and savepoint; `res` the keys, the columns (as the version they were read from), the log
`rollback` and, for results with a cursor, the lists `added`, `updated`, `deleted`. `UndoRollback` is
modelled as it is: after ROLLBACK TO it does not know where the savepoint was and infers it from
which old versions are visible again (`FirstReversed`, `Doubtless`, `RolledBackTo`). Another session may
change a row.

| habit | what happens |
|---|---|
| `update_added` | updating a row added through the same result (`KeysTrue`) |
| `partial_cursor` | ROLLBACK TO with changes through a result with a cursor: its lists have no undo log for a part (`KeysTrue`) |
| `after_commit` | COMMIT with a log under a cursor (`KeysTrue`) |
| `add_cursor` | adding rows under a cursor (`DataTrue`) |
| `bookmark_slot` | `bulk_ope_callback` asks the lists for the place in the application's array, not the row of the bookmark (`KeysTrue`, `PosHits`) |

### `Entry` (with `MCEntry`, `Entry_proofs`)

Every exported function as a *shape*: the lock it takes, whether it looks for a lost connection first, where
`SC_opencheck` stands, whether it may reach the server or ask for data, whether it is repeated with folded
names, how `DiscardStatementSvp` ends it. Threads acquire locks one by one (the connection's is
recursive), `keeps` is `lock_CC_for_rb`, `accessed` `accessed_db`, and a lock may stay with a statement while
its thread is asked for data. A call may send several statements, each *ordinary*, *special* (it cannot run in a
transaction) or one that ends or rewinds the *transaction*, by `CC_send_query` or by the extended protocol.
`SetStatementSvp` follows `execute.c` 741-806: nothing in a transaction in error (756-757), the lock but no
access to the database for special and transaction statements (766-771), both for ordinary ones. `inTrans` and
`inError` are the server's; `asked` is history: this bracket has sent an ordinary statement in a transaction
without error. BEGIN under autocommit and rollback_on_error 0 are left out (the first is in `ConnTrans`).

| habit | what happens |
|---|---|
| `shared_trans` | statements of a manual connection used by two threads: one's rollback bracket undoes the other's work (`ErrorUndone`) |
| `wait_alloc` | allocating, ending on the environment or using another statement while this thread's data are awaited: two locks taken in both orders (`CallsReturn`) |
| `cancel_data` | SQLCancel from another thread while data are awaited: the kept lock belongs to a thread that is not coming back (`NoLockLeft`) |
| `other_thread` | the data are given by another thread than the one that was asked; it cannot give the lock back (`NoLockLeft`) |
| `shared_stmt` | two threads on one statement around SQL_NEED_DATA (`NoLockLeft`) |
| `lost_waiting` | the session is lost while another statement waits for data (`NoLockLeft`) |

### `Catalog` (with `MCCatalog`)

Each function of `info.c` is a program, a sequence of steps in the order of the source: allocate an internal
statement, copy a name, start a buffer, execute, bind, fetch, append, jump, release. The actions run the
programs; a step may fail, with its own message, the inner statement's or none, and goes to the cleanup
label or out at once. A local is `null`, `live` or `gone` (released, the pointer kept).

| situation | what happens |
|---|---|
| `no_table_name` | SQLStatistics without a table name returns through cleanup with no error (`SuccessComplete`) |
| `failed_procedure_query` | SQLProcedureColumns releases the result of a failed query and cleanup releases it again (`ReleasedOnce`) |
| `failed_group_query` | SQLTablePrivileges uses the result of a group query that failed (`ReleasedOnce`) |
| `old_server_fetch` | `PGAPI_ForeignKeys_old` takes a failing fetch for the end of the rows (`SuccessComplete`) |

### `ColInfo` (with `MCColInfo`, `Caches_proofs`)

The cache of table definitions. `arr` is `conn->col_info`, `ent` the `COL_INFO`s with reference counts,
`ti` the `TABLE_INFO`s of each statement, `srv` the version of each table on the server. A query on the catalog
has three steps, between which other statements go on and tables change. At `COLI_RECYCLE` entries
the least recently used one makes room; a DROP or ALTER TABLE of this connection empties the cache.
Its specification is `ColInfoSpec`; its general names differ from those of `Autobalance`, since
`Caches_proofs` extends both.

| circumstance | what happens |
|---|---|
| `used_after_drop` | SQLColAttribute on an old result after a change refills the entry its TABLE_INFO kept, which has left the cache (`OwnTable`, `NoneLost`) |
| `identity` | `@@identity` takes a reference through a TABLE_INFO on the stack that is never given back (`NoneLost`) |
| `unnoticed_change` | a change by another session, a rollback or DROP SCHEMA leaves the old definition (`Fresh`) |
| `parallel_ddl` | the table changes between the answer of the catalog and its storing (`Fresh`) |
| `parallel_asks` | two statements fill one entry; the first one's reference is forgotten (`OwnTable`) |

### `Handles` (with `MCHandles`, `Handles_proofs`)

`alive` is the memory of the handles; the tables and pointers are functions; `bad` becomes true when a step
touches what is not alive. Calls that hold the section of the connection are one step; SQLFreeConnect,
SQLFreeHandle of a descriptor (which walks the statements) and an execution are several. `slot` is the place
of a statement in `conn->stmts`: `CC_add_statement` takes the first free one, and `CC_cleanup` destroys the
statements in that order. `SC_Destructor` drops the delegate of its statement, which takes it out of its later
slot; a delegate in an earlier slot has been freed already, and is used and freed again (`DelegateGone`).
What is risky is explained at the head of the module and breaks `NoUseAfterFree`:

| | |
|---|---|
| `busy` | a handle is freed while another thread is in a call that uses it; a driver manager refuses it |
| `desc_parallel`, `foreign_desc` | a descriptor is freed beside statements of its connection, or used on another connection |
| `pending` | SQLDisconnect (or the freeing of the connection or environment) while SQLSetPos or SQLBulkOperations waits for data: two statements, the first is freed, the second inserts a row with data at execution and its delegate gets the first slot; `CC_cleanup` then uses freed memory (`statement.c` 1394). A driver manager refuses such a SQLDisconnect. The other order of the two is in the run |

### `GetData` (with `MCGetData`, `Results_proofs`)

`bindings` belong to a descriptor, embedded or explicit, `gdata` to the statement; calls that bind, unbind, count,
copy, attach and free change the first, the next use adjusts the second. A fetch fills bound columns row by
row; SQLGetData hands out a value in pieces, a value being its length, with the conversions that need a
buffer of their own (`Converted`). `at` is history: what the application has of each value. Its
specification is `GetDataSpec`; its general names differ from those of `RowCache`, since `Results_proofs`
extends both.

| habit | what happens |
|---|---|
| `rd_off` | with SQL_ATTR_RETRIEVE_DATA off a fetch does not reset the place within the last value (`PiecesExact`) |
| `row_error` | after a rowset that ended in an error the binding place stays on a later row (`InPlace`) |
| `probe` | an empty buffer in the middle of a value (`PiecesExact`) |
| `retype` | another C type in the middle of a value (`PiecesExact`) |
| `shrink` | a shorter descriptor in the middle of a value (`PiecesExact`) |

### `XaLib` and `Dtc` (with `MCDtc`)

`Dtc` is the `IAsyncPG` object between the connection and the transaction manager: references, `ELOCK`, the
locks of the connections, the request threads (prepare, commit, abort) and the threads that close their
handles, isolation (the object moves to a connection of its own when the application goes on),
disconnect and crash. Isolation after the prepare leaves the work alone. Before it, when the application has left the
transaction and calls again, `CC_cleanup` finishes the session whatever `keepCommunication` says
(`connection.c` 1212): the work is lost and the vote is refused although no command failed. `Atomic` names
this as one of the reasons of a refused vote, and shows that such work is never committed. `XaLib`, which it extends, is the recovery: `xa_open`, `xa_recover`, `xa_commit`,
`xa_rollback`, `xa_close` and the text form of a transaction identifier. The manager's decisions, the
server's answers and the crash are external.

| circumstance | what happens |
|---|---|
| `connect_fails` | a handle whose connect failed is freed and kept: the next routine gets it (`Resolved`) |
| `busy_request` | a request while a call of the application runs (`Atomic`) |
| `early_request` | a request in the middle of the enlistment (`NoUseAfterFree`) |
| `abort_preparing` | AbortRequest while the prepare is under way (`Answered`) |
| `late_closer` | the object is destroyed under the threads that close its handles (`NoUseAfterFree`) |
| `quick_commit` | CommitRequest before `SetPrepareResult` is refused (`Atomic`) |
| `no_work` | a prepare with no transaction on the server (`Atomic`) |
| `forgotten_error` | `CC_clear_error` of a later call hides a failed transaction from the vote (`Atomic`) |
| `prepared_left` | disconnecting with prepared work whose decision is late (`Atomic`) |

## Runs

| run | question | bounds |
|---|---|---|
| `autobalance_connect` | is the initialisation run once, do a connecting client and the refresh thread keep tables, locks and counters consistent, and does the client come back | 2 clients up to the wait for the refreshed list, or 1 client to its end and one answered round of the refresh thread; 3 configured nodes and 1 that is not, lists of at most 3, walks from the first position |
| `conn_calls` | atomicity, manual mode, cursors, savepoints, termination for every sequence of calls | 2 statement handles, all modes, BEGIN, COMMIT, SAVEPOINT, ROLLBACK TO, writes, cursors, SQLEndTran; 2, 1 or no uncommitted writes by mode, 1 application savepoint at a time, discard list of 1, session loss |
| `stmt_calls` | rows, data, counters, statuses and return of every call, in every setting | 3 rows, 2 parameters, one binary, 18 shapes of arrays, 1 cancelling thread |
| `bulk_calls` | rows, callbacks, autocommit, delegates | 3 rows, up to 2 late columns each, 2 operations |
| `rows_scroll` | does the cache implement `Scroll` | results of 0 to 4 rows, rowsets of 1 and 2, windows of 1 to 3, refusals |
| `keyset_changes` | keys, columns and targets after every mix of changes and rollbacks | 2 rows, 4 versions, 2 changes in a transaction, all three kinds, window 1, rowset 2, 1 change of another session |
| `entry_calls` | locks, rollback brackets, return | 2 threads, 2 statements, 3 calls of any shape, 1 demand for data |
| `catalog_calls` | releases and answers of every catalog function | any 2 calls, queries of 0 to 2 rows |
| `colinfo_cache` | references, loss, freshness | 2 tables, one temporary, 2 statements, 3 entries, recycling from the first, 1 change |
| `handles_calls` | memory | 2 each of threads, environments, connections and descriptors, 3 statements |
| `getdata_pieces` | pieces and places | 2 rows of 2 columns, values of 3, 1, 2 characters and NULL, buffers of 0, 2 and 5 bytes, 2 calls that change bindings |
| `dtc_requests` | outcome, memory, answers, recovery | 1 transaction, 2 calls of the application, 2 failures, scans of 1 |

Why the bounds are enough. The race of the double check is between two clients, before either waits for the
refresh thread (`scenario` "race"); that of the rewrite is between a client and the refresh thread ("walk").
Three nodes are the smallest list whose walk need not end. All walks from one position share one step lock and
one step, which is the most contended case; the lists are rotations of each other otherwise.
In `ConnTrans` and `StmtExec` the number of calls is not bounded: the bounds cap what can be pending at a
time. With RollbackOnError = 2 a second write can fail after the first, which must be kept; one application savepoint gives every order of
application and internal savepoints, two cursors the cases in which one is lost and the other not. Three
rows are the smallest batch with an ignored row between others, two parameters the smallest number with
one that is not the last. Four rows with windows of at most three let a result be read in part, to its end and
beyond, and let rowsets straddle windows. Two changes are the shortest log of which a part can be undone.
In `Entry` two threads and two statements are enough for a lock kept for one while the other calls. Of the
catalog functions the second call only shows what the first left behind. Two statements share a definition,
an entry recycled from the first on leaves the cache while used. Three statements are a statement, its
delegate and a bystander. Two failures let the recovery fail once after a failure that made it necessary.

Deadlock is checked in `stmt_calls`, `conn_calls`, `colinfo_cache`, `handles_calls` and `getdata_pieces`;
the others stop when their bounded calls, requests or versions are used up, and liveness properties
replace the check where actors wait for one another. In `Autobalance` every thread may stop, connected or failed.

Fairness. `MCAutobalance!MCFairSpec`: weak fairness of the refresh thread (it never waits for anything but
locks), strong fairness of each client's steps, because a pthread rwlock released again and again is acquired
in the end; the environment's choices (a node fails, a query fails) are never forced. `ConnTrans!FairSpec`:
weak fairness of the driver's steps, since libpq answers each query or reports the loss of the session; the
application is never forced to call. `StmtExec!FairSpec`: weak fairness of the driver's and the timer's steps;
the server answers when no query timeout is set, and when one is set only after a cancel request has reached
it, so that `CallReturns` really depends on the timer; strong fairness of the lock SQLCancel waits for.
`Entry!Fairness`: weak fairness of each thread within a call, and of an application that was asked for
data, which gives it in the end. `Dtc!Fairness`: each thread, the manager once it has asked for a prepare,
and the recovery go on. `Catalog!Spec`: weak fairness of the running function.

## What is proved

`Caches_proofs`, its part about `Autobalance`, for any sets of clients and nodes, any DSN list,
any `MaxCN` and any answers, from the named assumptions `ThreadAssumption`, `ListAssumption` (the DSN
list is not empty and fits `MaxCN`) and `NumberAssumption`:

* `TypeCorrect`: `Spec => []TypeOK`. The types include the bounds of the fixed arrays, so this is the
  absence of overflow of `IP_list_temp` and of both tables.
* `ConfiguredOnly`: `Spec => []OnlyConfigured`, whatever `pgxc_node` returns.
* `InitFirst` (`InitBeforeUse`), `InitRunsOnce` (`InitOnce`): the double-checked initialisation is right.
* `WalkCounts` (`VisitedExact`): `visited_count` is the number of bits set.
* `StableTable` (`ReadersSeeStableTable`): nobody rewrites a table under a reader.
* `GivesUpLast` (`GiveUpComplete`): a walk that gives up has tried every usable node.

The first two follow from the inductive invariant `IInv`: the type invariant in four parts (shared flags,
tables, threads, refresh thread), `OnlyConfigured`, and `WalkNonEmpty`, that a thread inside the walk works
on a non-empty list. The last is needed because the position is computed modulo the length: without it,
`ind` need not be an index. The others need `LInv`, which adds who may hold `init_lock` while the flag
is unset (`InitLock`), which locks each `pc` implies (`TableLocks`), and `VisitedExact` itself: it
is inductive only together with the locks, since the refresh thread could otherwise shorten the list
during a walk. There is one lemma per conjunct, with one step per action that can disturb it.

`Execution_proofs`, its part about `BulkOps`, for any number of rows, columns and data-at-execution rounds,
from `RowsAssumption` and the hypothesis `BulkPrudent` (neither `cancel` nor `no_bookmark` is in `RiskyCalls`;
with either of them the theorems are false, see the table above):

* `EachRowOnce`: `BulkPrudent` implies `BulkSpec => []RowsOnce`.
* `AutocommitRestored`: `BulkPrudent` implies `BulkSpec => []AutocommitBack`.

The inductive invariant says what the callback queue holds at each `pc` (`Queue`: nothing, the loop's
callback, or the row's and then the loop's), that the rows done are consecutive (`DoneInOrder`) and counted
(`Counted`), that one delegate lives exactly while a row waits (`Delegates`), and that
`auto_commit_needed` remembers what the application wants while autocommit is off
(`Autocommit`). `RowsOnce` alone is not inductive: a callback taken from the queue must be
known to carry the row after the last one done.

`Results_proofs`, its part about `RowCache`, for any size of results, rowsets and windows and any refusals of the server, from
`SizeAssumption`, `FetchAssumption`, `HabitAssumption` and `FitsAssumption` (an int holds the rows):

* `CursorAlwaysKnown`: `Spec => []CursorKnown`, with any of the habits in `Risky`.
* `RowsetStaysCached`: `NoHabits` implies `Spec => []RowsetCached`.
* `ScrollImplemented`: `NoHabits` implies `Spec => Transparent`, the refinement of `Scroll`. `NoHabits` says
  that `Risky` is empty; with any of the three habits the run finds a counterexample.

The first invariant (`Types`, `Pictured`, `Underway`) relates a result to its cursor: `cursTuple` is the
server's position minus one; a result that has seen its end has counted all
rows; one that has not is at most at the last row. `Underway` says which steps of a call only occur
with a cursor. Each action has a lemma of its own. The two that carry the argument, `MovesBack` and
`MovesForward`, show that a MOVE answered with fewer rows than asked puts the cursor before
the first or after the last row, and that the driver computes the same; `FetchedPicture` does
so for a short FETCH.

The second, `WInv`, relates the window to both ends. The window is a contiguous piece of the result
(`Window`), and the cursor stands on its last row (`Joined`), unless the cursor ran over the end (`Loose`)
and either is dead or has yet to come back (`OnTheWay`), or a move was made and the FETCH is still to
come (`Stale`, `Moves`). A call knows where it may end (`Aimed`, by the rules of `Scroll`), has the first
rows of that rowset (`Delivered`), and has the last of them in the window (`Reading`); a
forward-only cursor that closed itself had no row left (`Ended`). Neither theorem could do without
the other half: to know that the window still holds the rowset one must know what the call was asked
for, and the reverse. Each step of QR_next_tuple has a lemma that ends in the same conjunct, `Fits`;
the switch on the orientation has one lemma per branch, each showing that the branch computes a
member of `Targets`.

`Caches_proofs`, its part about `ColInfo`, for any tables, any finite set of statements, any FROM lists, size of
the cache and bounds, from `SizeAssumption`, `QueriesAssumption` and `NamesAssumption` (finitely many
statements; `None` is not a table), and with no circumstance of its table in `Risky`:

* `OwnTables` (`OwnTable`): an entry a TABLE_INFO points to is alive and describes its table.
* `NoEntryLost` (`NoneLost`): every live entry is in the cache or referenced.
* `AlwaysFresh` (`Fresh`): what a lookup finds is the version the server has.
* `CacheTypes` (`ColInfoTypeOK`), all four from `CacheInvariant`.

In `CacheInv` the count of an entry is the number of TABLE_INFOs that point to it (`Counted`), these are of its
table (`Owned`), what is in the cache is alive and up to date (`Inside`, `UpToDate`), and what is out of it
is free or still referenced (`Outside`). `LookInv` says where the lookup of a statement stands. `ByOid`
is the fact a test would hardly find: a statement that asks the catalog by oid is the only one that asks for
its table, and the cache has no entry of it. `getColumnsInfo` (`parse.c` 940-988) fills an entry of the same
oid anew whatever its count; by `ByOid` none exists then, and any other it recycles has count 0. `WithoutGood`, `PointsGood`, `ClearGood`, `CleanGood` and `UsedGood` are the changes of the cache the
actions are made of, each with what it keeps.

`Handles_proofs`, for any sets of threads and handles, from `HandlesAssumption`, `AddressAssumption` (the
handles of different kinds are different objects) and `Prudent` (none of the four habits is in `Risky`):

* `NothingDangles`: `Prudent` implies `Spec => []NoUseAfterFree`.
* `NothingLeaks`: `Prudent` implies `Spec => []NothingLost`.

The invariant has three parts. The tables and the pointers agree in both directions (`ConnTable`,
`StmtTable`, `DescTable`, `Ards`, `Links`): a statement is in the table of the connection it points to,
its delegate belongs to the same connection and points back. Each call under way relies on
something (`FreeingConns`, `FreeingDescs`, `Executions`, `Sections`): every statement that points to
a descriptor that is being freed is still to be walked, and where a connection is being freed a delegate comes
after its statement (`FreedInOrder`, which only the steps of SQLFreeConnect need). No two calls are at one object (`Apart`).
`Cleanup...` lemmas treat `CC_cleanup` for any set of connections, and serve SQLDisconnect, SQLFreeConnect
and SQLFreeEnv; `Dropped...` lemmas treat any set of statements that go together. A by-product: under
`Prudent` neither `CC_Destructor` nor the drop of a delegate is ever refused.

`Entry_proofs`, for any finite sets of threads and statements and any bounds, from `SetsAssumption`,
`LocksAssumption` (a statement is not one of the other locks) and what ODBC asks of an application:

* `LocksAreLeft`: `Prudent` implies `Spec => []NoLockLeft`. `Prudent` says that `other_thread`, `shared_stmt`,
  `cancel_data` and `lost_waiting` are not in `Risky`; `wait_alloc` and `shared_trans` may be.
* `RolledBack`: `PrudentTrans`, which also excludes `shared_trans`, implies `Spec => ErrorUndone`.

`ShapesFit` reduces the exported functions to what the proofs need of a shape. `Going`, `Ending`, `Resting`
and `Steps` say how a call moves; the rest is a lemma per conjunct of the invariant and per kind of step.
A call that may ask for data, or cancels, is alone on its statement (`Apart`), so the thread that is
asked is the only one to come back (`Awaited`). A statement keeps the connection's lock for the thread in
its bracket or the one it waits for (`Kept`); the depth of the recursive lock is the number of calls plus
the number of statements that hold it (`ConnLock`), so that the last LEAVE really frees it. `RolledBack`
adds that on a manual connection one bracket is open at a time (`Single`), which holds the connection's
lock against a call that would end the transaction (`Guarded`), that a statement that has asked keeps that lock to
the end of its bracket (`Accounted`), and that `accessed_db`, a flag of the connection, then says what a flag of the statement would (`Accessed`),
whatever special and transaction statements come between.

`Results_proofs`, its part about `GetData`, for any result, any buffers, types, descriptors and rowsets, from `SizesAssumption`:

* `PiecesGoOn`: `PiecesPrudent` implies `GetDataSpec => []PiecesExact`. `PiecesPrudent` excludes `shrink`, `rd_off`,
  `retype` and `probe`, with each of which the property is false; `row_error` may be in `RiskyGets`.
* `WithinArrays`: under the same hypothesis a conversion finds its column in `bindings` and in `gdata`.
* `WrittenInPlace`: `PlacePrudent` (`row_error` excluded, the others not) implies `GetDataSpec => []InPlace`.

The centre is `Follows`, which ties `data_left` of a column to what the application has of its value: -1 is
nothing, 0 and -2 are all of it, and a positive value is a text whose rest lies in the work area, kept for
this very row, column and type. It holds for every column between two calls and for the other columns
during one; `Progress` says what holds of the column asked for at each `pc`, `Fetching` that a fetch
has started every column again, `Within` that no value is begun beyond the descriptor. `CopiedLength` is the
arithmetic of the terminator and of whole UTF-16 units. `WrittenInPlace` has an invariant of its own,
`AtItsPlace`: the binding location is on the first row, or the last fetch was in error, or past the end.

`Execution_proofs`, its part about `StmtExec`, for arrays of any size, any number of parameters, any bindings and settings, from
`BoundAssumption` and `BindingAssumption`:

* `CountsRight`: `Spec => []CounterExact`, with any of the habits in `Risky`.
* `TypeCorrect`, `RowsInOrder`, `StatusHonest`: `RowsPrudent` implies `Spec => []TypeOK`, `Spec => []RowsExact`
  and `Spec => []StatusTruth`. `RowsPrudent` excludes `end_row` and `direct_after_cancel`: with either of them
  `exec_current_row` runs past the array.
* `OwnValues`: `DataPrudent` (neither `batch_dae` nor `null_in_batch`) implies `Spec => []OwnData`.

`DInv` needs no hypothesis. It says what `data_at_exec`, `current_exec_param` and the put buffers hold
while a row runs (`RunningData`), while the application is asked for data (`AskingData`: the
parameters before the current one are put for this row, those after it are empty, and the counter is
the number of those after it), and after SQLCancel (`CancelledData`). `BatchData` adds what the
application does not bind under UseBatchProtocol. `RInv` is about the rows: those sent are in order and below
the current one (`SentRows`, `RunningRows`, `PassingRows`, `AskingRows`), those carried out are exactly the
live rows below it, or none while a batch runs (`Below`), the end of the array is the one of this
execution (`EndKnown`), and the status array agrees (`Statuses`). `FirstRow` chooses the least of a set of
naturals; `LeastElement` supplies it by well-founded induction. The proof attempt found what the run cannot
show, with arrays of three rows: the second half of the habit `end_row`. With five rows TLC
finds it too.

`ConnTrans_tasks`, `ConnTrans_proofs` and `ConnTrans_atomic`, for any set of cursors, any calls (`DirectOps`, `PreparedOps`) and any bounds, from the
named assumption of `ConnTrans` and `Prudent`: none of the habits of its table is in `Risky`, but for
`catalog`, which breaks `StatementAtomic` only:

* `ConnTransTypes`: `Prudent` implies `Spec => []TypeOK`.
* `ManualTrans`: `Prudent` implies `Spec => []ManualMeansTrans`.
* `CursorsKnown`: `Prudent` implies `Spec => []CursorsAgree`.
* `SavepointsKept`: `Prudent` implies `Spec => UserSavepointKept`, an action property.
* `Atomic`: `Cautious`, which excludes `catalog` too, implies `Spec => []StatementAtomic`: under
  statement rollback a failed statement leaves nothing behind and takes nothing else with it.

The first four follow from one invariant (`IInv`). `BaseInv`, its first half, holds with and without a
session. It says which task may lie under which on the call stack (`Lower`, for any depth, because `CC_on_commit`
and `CC_send_query` call one another) and what a task needs under it (`Under`). `LiveInv` relates the
driver's copies to the server. `StatusInv`: the copy of the transaction status is right, or
`LIBPQ_update_transaction_status` is still on the stack. `SvpInv`: `internal_svp` is set exactly when the
server has the driver's savepoint on top of those of the application, but while a query that sets or
releases it is under way. `TalkInv` says what the query under way may still contain, command by command; that is
what the properties miss to be inductive, because a query of four commands passes through three states in which
the driver knows less than the server. `CursInv`, `OpenInv` and `DiscInv` say which cursors are open
on either side and which are on the discard list; during COMMIT and ROLLBACK they hold only of the cursors
not yet visited. Each action of the driver has a lemma that shows the whole invariant; the
largest are about the steps of the server (`WireOkStep`, `WireErrorStep`), divided by the kind of query.
`PoppedLive` and `StackFacts` are what almost all of them need: what the rest of the stack says once
the first task has ended.

`Atomic` needs a second invariant, `SafeInv`, shown in `ConnTrans_atomic` on top of `IInv` for RollbackOnError = 2. `CountInv` says
that the driver's flags (`CC_accessed_db`, `opt_in_progress`, `opt_previous`) account for what the
server holds: a command that writes is under way only for a statement that counts as one that writes
(`AccInv`, `WriteInv`, `ExtWriteInv`, `CatalogInv`), and a transaction that has written is known to
the next statement (`PrevInv`). `AtomInv` says of each statement that began in a transaction that has written where
its savepoint is: still to be set, with nothing written since (`Before`), the latest of the server's and holding
the writes of before (`Shielded`), or already rolled back to (`Undone`). The error may arrive at any point of
this way, also with the savepoint in the same query as the statement.

## Only model-checked

Every property of *Runs* that is not named above. Those of `Keyset` rest on recursive functions over the
log of changes (`Doubtless`, `RolledBackTo`, `Without`, `Latest`), so on induction over data, which the provers
cannot do. Those of `Catalog` and `Dtc` are about finite control, which the runs go through completely but for the
number of calls; they have no proofs so far. Out of the prover's reach are all liveness properties
(`WaitersReturn`, `CallsReturn`, `CallReturns`, `Answered`, `Resolved`, which rest on fairness).

## Not modelled

* Query rewriting and value conversion (`convert.c`, but for the choice of a parameter's source),
  connection options, connection strings, large objects, logging, `PGAPI_GetInfo`: data
  transformations without a state of their own.
* Of a connection's transactions: further FETCHes of a cursor, `ProcessRollback` (in `Keyset`),
  `for_extension_connector`, servers before 8.0, `BIT_IGNORE_ROUND_TRIP_TIME`, `SQLEndTran` on an
  environment, a direct RELEASE and the special operations that are not in `DirectOps`.
* `SQLSetPos(SQL_REFRESH)` (`SC_pos_refresh`, `results.c` 4605-4659). It calls `SC_fetch` without
  stepping `currTuple` back, so what arrives in the bound buffer is the row after the current
  one, and a missing row is not reported.
* `Keyset`: `dl_count` outside cursors, negative bookmarks of rows added under a cursor.
  `Handles`: the growth of the tables and the slots of descriptors; an APD is treated as an ARD is.
* `GetData`: values are lengths; NULL dates, large objects, bookmarks, backward fetches, and a driver
  that claims more truncation than there is are left out. `RowCache`: `maxRows`.
* `StmtExec`: a NULL given by SQLPutData, output parameters.
* MSDTC: parsing the XA info string, the registry, the connect string made of it.

## Plan

What is still worth doing, in this order: proofs of `Keyset`, `Catalog` and `Dtc`;
`SC_pos_refresh`; the pure algorithms (the lexer of `convert.c`, the multibyte encoder, UTF conversion) against
reference definitions; the error record handed out in pieces (`ER_ReturnError`, `environ.c` 105-235).
