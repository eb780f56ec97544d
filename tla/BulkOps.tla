------------------------------- MODULE BulkOps -------------------------------
(***************************************************************************)
(* SQLSetPos and SQLBulkOperations over several rows (results.c,           *)
(* pgapi30.c): each row is executed by a statement of its own, the         *)
(* execute_delegate, with autocommit switched off around all of them.      *)
(* When a row has data at execution the call returns SQL_NEED_DATA and the *)
(* rest of the work waits as callbacks in a queue of the statement, to be  *)
(* taken up by SQLParamData (statement.c, execute.c).                      *)
(***************************************************************************)
EXTENDS Integers, Sequences

CONSTANTS
  RowsetSize,     \* size_of_rowset
  MaxLate,        \* a bound on the data-at-execution columns of a row
  MaxOps,         \* a bound on the operations of a run
  RiskyCalls      \* calls of the application that break a property

ASSUME RowsAssumption == RowsetSize \in Nat \ {0} /\ MaxLate \in Nat /\ MaxOps \in Nat
ASSUME RiskyAssumption == RiskyCalls \subseteq {"cancel", "no_bookmark"}

VARIABLES
  late,           \* per row, its columns with data at execution
  ac,             \* CC_does_autocommit
  want,           \* the autocommit that the application has set
  pc,             \* where the running call is; "need": returned SQL_NEED_DATA
  retcode,        \* its RETCODE so far
  cdata,          \* spos_cdata, bop_cdata: the operation that is running
  callbacks,      \* stmt->callbacks
  live,           \* the delegates that exist: the operation and row of each
  delegate,       \* stmt->execute_delegate, and its data_at_exec
  done,           \* the rows that the operation has executed, with their outcome
  ops             \* operations begun

bulkVars == <<late, ac, want, pc, retcode, cdata, callbacks, live, delegate, done, ops>>

NoDelegate == [op |-> 0, row |-> 0, data_at_exec |-> -1]
NoOp == [op |-> 0, nrow |-> 0, end_row |-> -1, processed |-> 0, auto_commit_needed |-> FALSE]

BulkInit ==
  /\ late \in [0..(RowsetSize - 1) -> 0..MaxLate]
  /\ want \in BOOLEAN /\ ac = want
  /\ pc = "idle" /\ retcode = "SUCCESS" /\ cdata = NoOp
  /\ callbacks = <<>> /\ live = {} /\ delegate = NoDelegate
  /\ done = <<>> /\ ops = 0

\* The state of an operation on the rows from first to last.
Begun(first, last) ==
  [op |-> ops + 1, nrow |-> first, end_row |-> last, processed |-> 0, auto_commit_needed |-> ac]

\* PGAPI_SetPos(irow): one row, or all of them for irow = 0.
PGAPI_SetPos(irow) ==
  /\ pc = "idle" /\ ops < MaxOps
  /\ cdata' = IF irow = 0 THEN Begun(0, RowsetSize - 1) ELSE Begun(irow - 1, irow - 1)
  /\ ac' = FALSE
  /\ pc' = "rows" /\ retcode' = "SUCCESS" /\ done' = <<>> /\ ops' = ops + 1
  /\ UNCHANGED <<late, want, callbacks, live, delegate>>

\* PGAPI_BulkOperations; a bookmark that is missing is noticed after autocommit is off.
PGAPI_BulkOperations(bookmark) ==
  /\ pc = "idle" /\ ops < MaxOps
  /\ bookmark \/ "no_bookmark" \in RiskyCalls
  /\ ac' = FALSE /\ done' = <<>> /\ ops' = ops + 1
  /\ IF bookmark
     THEN pc' = "rows" /\ retcode' = "SUCCESS" /\ cdata' = Begun(0, RowsetSize - 1)
     ELSE pc' = "idle" /\ retcode' = "ERROR" /\ cdata' = NoOp
  /\ UNCHANGED <<late, want, callbacks, live, delegate>>

\* irow_update, irow_insert: the outcome of a row, and the end of its delegate
\* (PGAPI_FreeStmt clears the parent's execute_delegate).
RowDone(op, row, outcome) ==
  /\ done' = Append(done, [op |-> op, row |-> row, outcome |-> outcome])
  /\ live' = live \ {[op |-> op, row |-> row]}
  /\ delegate' = NoDelegate

\* enqueueNeedDataCallback of SC_pos_update or SC_pos_add, and then of the loop.
Enqueued(row) ==
  <<[func |-> "pos_callback", row |-> row, data |-> cdata],
    [func |-> "spos_callback", row |-> row, data |-> cdata]>>

\* The row cannot be changed at all (SC_pos_update before it has a delegate).
RowRefused ==
  /\ pc = "rows" /\ retcode # "ERROR" /\ cdata.nrow <= cdata.end_row
  /\ retcode' = "ERROR"
  /\ cdata' = [cdata EXCEPT !.processed = @ + 1]
  /\ done' = Append(done, [op |-> cdata.op, row |-> cdata.nrow, outcome |-> "ERROR"])
  /\ UNCHANGED <<late, ac, want, pc, callbacks, live, delegate, ops>>

\* A row without data at execution runs at once.
RowNow(outcome) ==
  /\ pc = "rows" /\ retcode # "ERROR" /\ cdata.nrow <= cdata.end_row /\ late[cdata.nrow] = 0
  /\ RowDone(cdata.op, cdata.nrow, outcome)
  /\ retcode' = outcome
  /\ cdata' = [cdata EXCEPT !.processed = @ + 1, !.nrow = IF outcome = "ERROR" THEN @ ELSE @ + 1]
  /\ UNCHANGED <<late, ac, want, pc, callbacks, ops>>

\* A row with data at execution: SC_set_delegate, and the call returns.
RowLate ==
  /\ pc = "rows" /\ retcode # "ERROR" /\ cdata.nrow <= cdata.end_row /\ late[cdata.nrow] > 0
  /\ delegate' = [op |-> cdata.op, row |-> cdata.nrow, data_at_exec |-> late[cdata.nrow]]
  /\ live' = live \cup {[op |-> cdata.op, row |-> cdata.nrow]}
  /\ callbacks' = callbacks \o Enqueued(cdata.nrow)
  /\ pc' = "need" /\ retcode' = "NEED_DATA"
  /\ UNCHANGED <<late, ac, want, cdata, done, ops>>

\* A slip: autocommit comes back only when all rows went well.
RestoredOnSuccess == IF cdata.auto_commit_needed /\ retcode # "ERROR" THEN TRUE ELSE ac
\* CC_set_autocommit(conn, TRUE), after an error too.
Restored == IF cdata.auto_commit_needed THEN TRUE ELSE ac

\* The end of the loop, by its bounds or by an error.
RowsEnd ==
  /\ pc = "rows" /\ (retcode = "ERROR" \/ cdata.nrow > cdata.end_row)
  /\ ac' = Restored
  /\ pc' = IF callbacks = <<>> THEN "idle" ELSE "dequeue"
  /\ cdata' = IF callbacks = <<>> THEN [NoOp EXCEPT !.processed = cdata.processed] ELSE cdata
  /\ UNCHANGED <<late, want, retcode, callbacks, live, delegate, done, ops>>

\* PGAPI_ParamData asks for another column.
PGAPI_ParamData ==
  /\ pc = "need" /\ delegate.data_at_exec > 0
  /\ delegate' = [delegate EXCEPT !.data_at_exec = @ - 1]
  /\ UNCHANGED <<late, ac, want, pc, retcode, cdata, callbacks, live, done, ops>>

\* PGAPI_ParamData has them all and executes the delegate.
ParamDataExecutes(outcome) ==
  /\ pc = "need" /\ delegate.data_at_exec = 0
  /\ retcode' = outcome
  /\ pc' = "dequeue"
  /\ UNCHANGED <<late, ac, want, cdata, callbacks, live, delegate, done, ops>>

\* A slip: the loop goes on with the row that waited.
ResumedSame(data, outcome) == [data EXCEPT !.processed = @ + 1]
\* spos_callback, bulk_ope_callback with need_data_callback: the row that waited counts.
Resumed(data, outcome) ==
  [data EXCEPT !.processed = @ + 1, !.nrow = IF outcome = "ERROR" THEN @ ELSE @ + 1]

\* pos_update_callback, pos_add_callback.
AfterRow(c) == RowDone(c.data.op, c.row, retcode)

\* dequeueNeedDataCallback takes the first one; the loop is resumed by the second.
dequeueNeedDataCallback ==
  /\ pc = "dequeue" /\ callbacks # <<>>
  /\ callbacks' = Tail(callbacks)
  /\ LET c == Head(callbacks) IN
     IF c.func = "pos_callback"
     THEN AfterRow(c) /\ UNCHANGED <<pc, cdata>>
     ELSE pc' = "rows" /\ cdata' = Resumed(c.data, retcode) /\ UNCHANGED <<live, delegate, done>>
  /\ UNCHANGED <<late, ac, want, retcode, ops>>

\* PGAPI_Cancel while data is awaited: cancelNeedDataState works on the delegate, whose
\* queue is empty; the queue of the statement stays, and so does the delegate.  Between
\* operations it does nothing.
PGAPI_Cancel ==
  /\ pc \in {"idle", "need"} /\ (pc = "need" => "cancel" \in RiskyCalls)
  /\ delegate' = [delegate EXCEPT !.data_at_exec = -1]
  /\ pc' = "idle" /\ retcode' = "SUCCESS"
  /\ cdata' = IF pc = "need" THEN NoOp ELSE cdata
  /\ UNCHANGED <<late, ac, want, callbacks, live, done, ops>>

BulkNext ==
  \/ \E irow \in 0..RowsetSize : PGAPI_SetPos(irow)
  \/ \E bookmark \in BOOLEAN : PGAPI_BulkOperations(bookmark)
  \/ RowRefused
  \/ \E outcome \in {"SUCCESS", "ERROR"} : RowNow(outcome)
  \/ RowLate
  \/ RowsEnd
  \/ PGAPI_ParamData
  \/ \E outcome \in {"SUCCESS", "ERROR"} : ParamDataExecutes(outcome)
  \/ dequeueNeedDataCallback
  \/ PGAPI_Cancel

BulkSpec == BulkInit /\ [][BulkNext]_bulkVars

-----------------------------------------------------------------------------
\* Each row is executed once and in order, up to the first error, and the count that the
\* application reads at the end (rowsFetched, diag_row_count) is the number of them.  A
\* callback that waits belongs to the operation that is running: none is left over to be
\* run, with its old row and delegate, at the end of a later one (callbacks).
RowsOnce ==
  /\ \A i \in DOMAIN callbacks : callbacks[i].data.op = cdata.op
  /\ \A i \in DOMAIN done :
       /\ i > 1 => done[i].row = done[i - 1].row + 1
       /\ i < Len(done) => done[i].outcome = "SUCCESS"
  /\ pc = "idle" => cdata.processed = Len(done)

\* Between operations the connection is as it was: autocommit is what the application has
\* set (auto_commit_needed, CC_set_autocommit), and no statement of the driver's own is
\* left in its table (execute_delegate).
AutocommitBack == pc = "idle" => ac = want /\ live = {} /\ delegate = NoDelegate
=============================================================================
