------------------------------ MODULE StmtExec ------------------------------
(***************************************************************************)
(* One statement handle that executes a parameterised INSERT, UPDATE or    *)
(* DELETE: arrays of parameters, data at execution (SQL_NEED_DATA,         *)
(* SQLParamData, SQLPutData), the batch protocol, SQLCancel from another   *)
(* thread and the query timer.  execute.c, statement.c and the wrappers of *)
(* odbcapi.c.                                                              *)
(*                                                                         *)
(* The application thread makes one call at a time and holds the lock of   *)
(* the statement (STMT_CS) during it.  A second thread calls SQLCancel,    *)
(* which looks at the statement before it takes that lock.  A call is one  *)
(* step as long as nobody else can tell; it is cut where the server runs   *)
(* a row and between two rows.                                             *)
(***************************************************************************)
EXTENDS Integers, Sequences, FiniteSets

CONSTANTS
    MaxRows,    \* largest SQL_ATTR_PARAMSET_SIZE
    NumParams,  \* parameter markers of the statement
    Binary,     \* the parameters of type bytea, which a bind message carries in binary
    Configs,    \* the connection settings looked at, see below
    Bindings,   \* the parameter arrays the application binds, see below
    Risky       \* habits of the application that are allowed, see README

ASSUME BoundAssumption ==
    MaxRows \in Nat \ {0} /\ NumParams \in Nat \ {0} /\ Binary \subseteq 1..NumParams
\* batch: UseBatchProtocol against a server that knows it; named: server side
\* prepare; timeout: SQL_ATTR_QUERY_TIMEOUT is not 0
ASSUME ConfigAssumption ==
    Configs \subseteq {c \in [batch : BOOLEAN, named : BOOLEAN, timeout : BOOLEAN] :
                         c.batch => c.named}

Rows   == 1..MaxRows             \* C index + 1
Slots  == 1..(MaxRows + 1)       \* one past the arrays of the application
Params == 1..NumParams
NoData == [p \in Params |-> 0]

\* size: paramset_size; ignored: rows with SQL_PARAM_IGNORE; daeOf: the parameters
\* of each row whose length is SQL_DATA_AT_EXEC; nullOf: those with SQL_NULL_DATA
Arrays == [size : Rows, ignored : SUBSET Rows, daeOf : [Rows -> SUBSET Params],
           nullOf : [Rows -> SUBSET Params]]
ASSUME BindingAssumption ==
    \A b \in Bindings :
       /\ b \in Arrays
       /\ \A r \in Rows : /\ b.daeOf[r] \cap b.nullOf[r] = {}
                          /\ (r \in b.ignored \/ b.daeOf[r] \cup b.nullOf[r] # {}) => r <= b.size
       /\ b.ignored \cup {r \in Rows : b.daeOf[r] # {}} \subseteq 1..b.size

VARIABLES
    cfg,        \* a member of Configs
    stmt,       \* the StatementClass
    apd,        \* what the application bound: rows, ignored rows, data at execution
    bound,      \* the APD and the IPD have an entry for every marker
    pstat,      \* SQL_ATTR_PARAM_STATUS_PTR, the application's array
    call,       \* the call in progress: "none", "Execute" or "ParamData"
    phase,      \* "exec": the server runs a row; "next": between two rows
    armed,      \* the interval timer runs (outstmt is this statement)
    stuck,      \* the signal handler waits for STMT_CS on the thread that holds it
    canc,       \* where the second thread is in SQLCancel
    cancelReq,  \* a cancel request has reached the server
    odbc,       \* what the application may call next (ODBC statement states)
    sent,       \* history: rows handed to SC_execute by this execution
    accepted,   \* history: rows the server carried out
    ret         \* history: what the last execution call returned

callVars == <<call, phase, armed, stuck, cancelReq>>
vars == <<cfg, stmt, apd, bound, pstat, callVars, canc, odbc, sent, accepted, ret>>

Waiting == {"need_data", "must_put", "can_put"}          \* S8, S9, S10

StmtType == [
    status   : {"ALLOCATED", "READY", "DESCRIBED", "FINISHED", "EXECUTING"},
    prepare  : BOOLEAN,          \* SQLPrepare set the text
    prepared : BOOLEAN,          \* PREPARED_PERMANENTLY at the server
    row      : 0..MaxRows,       \* exec_current_row + 1
    endRow   : 0..(MaxRows + 1), \* exec_end_row + 1
    dae      : -1..NumParams,    \* data_at_exec
    cep      : 0..NumParams,     \* current_exec_param + 1
    put      : BOOLEAN,          \* put_data
    flagged  : SUBSET Params,    \* parameters[i].data_at_exec
    bufs     : [Params -> 0..MaxRows]]  \* the row whose data EXEC_buffer holds

\* Types; in particular no counter leaves the arrays it indexes.
TypeOK ==
    /\ cfg \in Configs
    /\ stmt \in StmtType
    /\ apd \in Arrays /\ bound \in BOOLEAN
    /\ pstat \in [Slots -> {"none", "UNUSED", "ERROR", "SUCCESS", "INFO"}]
    /\ call \in {"none", "Execute", "ParamData"} /\ phase \in {"exec", "next"}
    /\ armed \in BOOLEAN /\ stuck \in BOOLEAN /\ cancelReq \in BOOLEAN
    /\ canc \in {"idle", "read_status", "lock", "send"}
    /\ odbc \in {"allocated", "prepared", "executed", "cancelled"} \cup Waiting
    /\ sent \in Seq(Slots) /\ accepted \subseteq Slots
    /\ ret \in {"none", "NEED_DATA", "SUCCESS", "INFO", "ERROR"}

Init ==
    /\ cfg \in Configs
    /\ stmt = [status |-> "ALLOCATED", prepare |-> FALSE, prepared |-> FALSE, row |-> 0,
               endRow |-> 0, dae |-> -1, cep |-> 0, put |-> FALSE, flagged |-> {},
               bufs |-> NoData]
    /\ apd = [size |-> 1, ignored |-> {}, daeOf |-> [r \in Rows |-> {}],
              nullOf |-> [r \in Rows |-> {}]]
    /\ bound = FALSE
    /\ pstat = [r \in Slots |-> "none"]
    /\ call = "none" /\ phase = "next" /\ armed = FALSE /\ stuck = FALSE
    /\ cancelReq = FALSE /\ canc = "idle" /\ odbc = "allocated"
    /\ sent = << >> /\ accepted = {} /\ ret = "none"

----------------------------------------------------------------------------
(* Helpers of the statement *)

\* PDATA_free_params: what SQLPutData kept for each parameter
FreePut(s) == [s EXCEPT !.bufs = NoData]

\* SC_free_params(STMT_FREE_PARAMS_DATA_AT_EXEC_ONLY)
FreeData(s) == [FreePut(s) EXCEPT !.dae = -1, !.cep = 0, !.put = FALSE]

\* SC_free_params(STMT_FREE_PARAMS_ALL), the part of the statement
FreeAll(s) == [FreeData(s) EXCEPT !.row = 0, !.endRow = 0]

\* SC_recycle_statement: nothing to do on a fresh handle
Recycle(s) ==
    IF s.status = "ALLOCATED" THEN s ELSE [FreeData(s) EXCEPT !.status = "READY"]

\* SC_CanUseBatchProto: at least two parameter sets that are not ignored
Batch ==
    /\ cfg.batch
    /\ \E i, j \in 1..apd.size : i # j /\ {i, j} \cap apd.ignored = {}

\* exec_end_row, or the last row of the array
LastRow(s) == IF s.endRow = 0 THEN apd.size ELSE s.endRow

\* a slip: SQL_PARAM_IGNORE is not looked at
FirstRow_Slip(r, last) == IF r <= last THEN r ELSE 0

\* while (param_operation_ptr[exec_current_row] == SQL_PARAM_IGNORE)
FirstRow(r, last) ==
    LET ok == {k \in r..last : k \notin apd.ignored}
    IN  IF ok = {} THEN 0 ELSE CHOOSE k \in ok : \A j \in ok : k <= j

\* the rows of the array that are not ignored
Live == (1..apd.size) \ apd.ignored

InOrder(S) ==
    CHOOSE s \in [1..Cardinality(S) -> S] : \A i, j \in DOMAIN s : i < j => s[i] < s[j]

\* the rows one trip to the server carries, in their order
Trip(r) == IF Batch THEN InOrder(Live) ELSE <<r>>

Carried == IF Batch THEN Live ELSE {stmt.row}

Null == [from |-> "null", row |-> 0]

\* a slip: the row of the batch is not moved on
Resolve_Slip(r, p) ==
    IF p \in stmt.flagged THEN [from |-> "put", row |-> stmt.bufs[p]]
    ELSE IF p \in apd.nullOf[stmt.row] THEN Null ELSE [from |-> "app", row |-> stmt.row]

\* what ResolveOneParam takes for a parameter of a row: the data put for it, NULL, or the
\* row-th element of the application's array
Resolve(r, p) ==
    IF p \in stmt.flagged THEN [from |-> "put", row |-> stmt.bufs[p]]
    ELSE IF p \in apd.nullOf[r] THEN Null ELSE [from |-> "app", row |-> r]

\* the values of one row in the bind message
RowValues(r) == [p \in Params |-> Resolve(r, p)]

\* the format the message announces for a parameter: one for all its rows, set again by
\* every row, and text when the row has NULL
InBinary(p) ==
    LET rows == Trip(stmt.row)
    IN  p \in Binary /\ RowValues(rows[Len(rows)])[p] # Null

\* copy_statement_with_parameters leaves the parameters to the bind message
ByBindMessage(s) == s.prepared \/ cfg.named

\* where a failed or abandoned execution leaves the handle
Fallen(s) == IF s.prepare THEN "prepared" ELSE "allocated"

\* the call returns and the lock is released
Return(s, code, where) ==
    /\ stmt' = s /\ ret' = code /\ odbc' = where
    /\ call' = "none" /\ phase' = "next" /\ armed' = FALSE /\ cancelReq' = FALSE

----------------------------------------------------------------------------
(* Exec_with_parameters_resolved and SC_execute *)

\* copy_statement_with_parameters fails on a value, or the row goes to the server:
\* the timer is armed and the status becomes STMT_EXECUTING.  The batch path
\* overwrites exec_end_row.
StartExec(s, from, who) ==
    \/ Return([s EXCEPT !.cep = 0, !.row = 0], "ERROR", Fallen(s)) /\ sent' = from
    \/ /\ bound \/ ByBindMessage(s)
       /\ stmt' = [s EXCEPT !.cep = 0, !.status = "EXECUTING",
                            !.endRow = IF Batch THEN apd.size + 1 ELSE @]
       /\ call' = who /\ phase' = "exec" /\ armed' = cfg.timeout
       /\ sent' = from \o Trip(s.row) /\ ret' = "none"
       /\ UNCHANGED <<odbc, cancelReq>>

\* a slip: the search starts at current_exec_param, not after it
Token_Slip(s) ==
    LET p == CHOOSE p \in s.flagged : p >= s.cep /\ \A q \in s.flagged : q >= s.cep => p <= q
    IN  [s EXCEPT !.dae = @ - 1, !.cep = p, !.put = FALSE]

\* SQLParamData hands out the next parameter: data_at_exec--
Token(s) ==
    LET p == CHOOSE p \in s.flagged : p > s.cep /\ \A q \in s.flagged : q > s.cep => p <= q
    IN  [s EXCEPT !.dae = @ - 1, !.cep = p, !.put = FALSE]

\* next_param_row in PGAPI_Execute: skip ignored rows, free the data of the last
\* row, look for data at execution; ask for it or execute.  ps is the status
\* array before, from the rows sent so far.
RunRow(s, ps, from, who) ==
    LET k == FirstRow(s.row, LastRow(s)) IN
    IF k = 0
    THEN /\ Return([s EXCEPT !.row = 0], "SUCCESS", "executed")
         /\ pstat' = ps /\ sent' = from
    ELSE LET atExec == IF k \in Rows /\ bound THEN apd.daeOf[k] ELSE {}
             s1 == [FreeData(s) EXCEPT !.row = k, !.flagged = atExec,
                        !.dae = IF atExec = {} THEN -1 ELSE Cardinality(atExec)]
         IN  /\ pstat' = [ps EXCEPT ![k] = "ERROR"]
             /\ IF atExec = {} THEN StartExec(s1, from, who)
                ELSE /\ sent' = from
                     /\ IF who = "ParamData" THEN Return(Token(s1), "NEED_DATA", "must_put")
                        ELSE Return(s1, "NEED_DATA", "need_data")

\* PGAPI_Execute for a new call.  A positive exec_current_row means that an array
\* is being executed: nothing is recycled and the status array is kept.
Execute(s) ==
    LET s1 == IF s.prepare /\ s.status = "DESCRIBED" THEN [Recycle(s) EXCEPT !.row = 0] ELSE s
        s2 == IF s1.row <= 1 /\ ~s1.prepared THEN Recycle(s1) ELSE s1
        s3 == IF s2.row = 0 THEN [s2 EXCEPT !.row = 1] ELSE s2
        ps == IF s3.row = 1 /\ ~Batch
              THEN [r \in Slots |-> IF r <= LastRow(s3) THEN "UNUSED" ELSE pstat[r]]
              ELSE pstat
    IN  /\ \/ RunRow(s3, ps, << >>, "Execute")
           \/ /\ s3.row = 1 /\ ~s3.prepared          \* prepareParameters fails
              /\ Return([(IF s1.status = "FINISHED" THEN s3 ELSE s1) EXCEPT !.row = 1],
                        "ERROR", Fallen(s))
              /\ sent' = << >> /\ UNCHANGED pstat
        /\ accepted' = {}

----------------------------------------------------------------------------
(* Calls of the application *)

Ready == call = "none" /\ ~stuck
Between == Ready /\ odbc \notin Waiting        \* no execution is pending

\* the attributes of the parameter array (SQLSetStmtAttr) and the application's own
\* length and operation arrays, which the driver only reads; the status array is a new one
SetParams(b) ==
    /\ Between
    /\ \/ \A r \in Rows : b.daeOf[r] = {}
       \/ /\ cfg.batch => "batch_dae" \in Risky
          /\ cfg.timeout => "timeout_dae" \in Risky
    /\ \/ ~cfg.batch \/ "null_in_batch" \in Risky
       \/ \A p \in Binary, r \in 1..b.size : p \in b.nullOf[r] <=> p \in b.nullOf[1]
    /\ apd' = b /\ pstat' = [r \in Slots |-> "none"]
    /\ sent' = << >> /\ accepted' = {} /\ ret' = "none"
    /\ UNCHANGED <<cfg, stmt, bound, callVars, canc, odbc>>

\* Both descriptors get an entry for every marker.
extend_parameter_bindings == bound' = TRUE

\* SQLBindParameter of every parameter again: the data put for it are freed, a
\* described statement is recycled
BindParameter ==
    /\ Between
    /\ stmt' = LET s1 == FreePut(stmt)
               IN  IF stmt.status = "DESCRIBED" THEN Recycle(s1) ELSE s1
    /\ extend_parameter_bindings
    /\ UNCHANGED <<cfg, apd, pstat, callVars, canc, odbc, sent, accepted, ret>>

\* SQLPrepare
Prepare ==
    /\ Between
    /\ stmt' = LET s1 == IF \/ stmt.status \in {"DESCRIBED", "FINISHED"}
                            \/ stmt.status = "READY" /\ stmt.prepared
                         THEN Recycle(stmt) ELSE stmt
               IN  [s1 EXCEPT !.status = "READY", !.prepare = TRUE, !.prepared = FALSE]
    /\ odbc' = "prepared" /\ ret' = "none"
    /\ UNCHANGED <<cfg, apd, bound, pstat, callVars, canc, sent, accepted>>

\* SQLNumResultCols and the like on a prepared statement (SC_describe)
Describe ==
    /\ Between /\ odbc = "prepared" /\ stmt.status = "READY" /\ ~stmt.prepared
    /\ stmt' = IF cfg.named THEN [stmt EXCEPT !.prepared = TRUE]
               ELSE [stmt EXCEPT !.status = "DESCRIBED"]
    /\ UNCHANGED <<cfg, apd, bound, pstat, callVars, canc, odbc, sent, accepted, ret>>

\* the habit of using a handle for another array after a batch, see README: the new
\* one is a batch too, and the search for its first row gets that far
EndRowClean == "end_row" \in Risky \/ stmt.endRow = 0 \/ (Batch /\ FirstRow(1, stmt.endRow) # 0)

\* SQLExecute
SQLExecute ==
    /\ Between /\ stmt.prepare /\ EndRowClean
    /\ Execute([stmt EXCEPT !.row = 0])
    /\ UNCHANGED <<cfg, apd, bound, stuck, canc>>

\* SQLExecDirect: SC_initialize_and_recycle, then the same; exec_current_row is kept
SQLExecDirect ==
    /\ Between /\ EndRowClean
    /\ "direct_after_cancel" \notin Risky => stmt.row <= 1
    /\ Execute(Recycle([stmt EXCEPT !.prepare = FALSE, !.prepared = FALSE]))
    /\ UNCHANGED <<cfg, apd, bound, stuck, canc>>

\* SQLParamData.  A thread that lost the race with SQLCancel may still call it.
SQLParamData ==
    /\ Ready /\ odbc \in {"need_data", "can_put", "cancelled"}
    /\ IF stmt.dae < 0
       THEN ret' = "ERROR" /\ UNCHANGED <<stmt, call, phase, armed, cancelReq, odbc, sent>>
       ELSE IF stmt.dae = 0 THEN StartExec(stmt, sent, "ParamData")
       ELSE Return(Token(stmt), "NEED_DATA", "must_put") /\ UNCHANGED sent
    /\ UNCHANGED <<cfg, apd, bound, pstat, stuck, canc, accepted>>

\* SQLPutData, the first piece or another one
SQLPutData ==
    /\ Ready /\ odbc \in {"must_put", "can_put", "cancelled"}
    /\ IF stmt.cep = 0
       THEN UNCHANGED <<stmt, odbc>>
       ELSE /\ stmt' = [stmt EXCEPT !.put = TRUE, !.bufs[stmt.cep] = stmt.row]
            /\ odbc' = "can_put"
    /\ UNCHANGED <<cfg, apd, bound, pstat, callVars, canc, sent, accepted, ret>>

\* SQLFreeStmt(SQL_CLOSE)
CloseStmt ==
    /\ Between
    /\ stmt' = Recycle(stmt) /\ odbc' = Fallen(stmt) /\ ret' = "none"
    /\ UNCHANGED <<cfg, apd, bound, pstat, callVars, canc, sent, accepted>>

\* SQLFreeStmt(SQL_RESET_PARAMS): SC_free_params(STMT_FREE_PARAMS_ALL) takes the
\* bindings away; the size of the array and the ignored rows stay
ResetParams ==
    /\ Between
    /\ stmt' = FreeAll(stmt) /\ bound' = FALSE
    /\ sent' = << >> /\ accepted' = {} /\ ret' = "none"
    /\ UNCHANGED <<cfg, apd, pstat, callVars, canc, odbc>>

----------------------------------------------------------------------------
(* The call in progress *)

\* a slip: after a batch every row gets the status, the ignored ones too
Done_Slip(kind) ==
    /\ pstat' = [r \in Slots |->
                   IF r \in Carried \/ (Batch /\ r <= apd.size) THEN kind ELSE pstat[r]]
    /\ accepted' = accepted \cup Carried

\* what a row or a batch that went well leaves in the status array (SetIPDField)
Done(kind) ==
    /\ pstat' = [r \in Slots |->
                   IF r \in Carried THEN kind
                   ELSE IF Batch /\ r <= apd.size THEN "UNUSED" ELSE pstat[r]]
    /\ accepted' = accepted \cup Carried

\* exec_current_row >= end_row; a batch sets the first to paramset_size
AtEnd == Batch \/ stmt.row >= LastRow(stmt)

\* the row or the batch succeeds, maybe with a notice; without a binding it never got out
ReplyOk(kind) ==
    LET s1 == [stmt EXCEPT !.status = "FINISHED", !.prepared = @ \/ (stmt.prepare /\ cfg.named)]
    IN
    /\ call # "none" /\ phase = "exec" /\ ~stuck /\ bound
    /\ Done(kind)
    /\ IF AtEnd THEN Return([s1 EXCEPT !.row = 0], kind, "executed")
       ELSE /\ stmt' = [s1 EXCEPT !.row = @ + 1]
            /\ phase' = "next" /\ armed' = FALSE /\ cancelReq' = FALSE
            /\ UNCHANGED <<call, ret, odbc>>
    /\ UNCHANGED <<cfg, apd, bound, stuck, canc, sent>>

\* it fails, by itself or because of a cancel request: the array is abandoned
ReplyError ==
    /\ call # "none" /\ phase = "exec" /\ ~stuck
    /\ \E p \in {stmt.prepared, stmt.prepare /\ cfg.named} :
          Return([stmt EXCEPT !.status = "FINISHED", !.row = 0, !.prepared = p],
                 "ERROR", Fallen(stmt))
    /\ UNCHANGED <<cfg, apd, bound, pstat, stuck, canc, sent, accepted>>

\* goto next_param_row, or PGAPI_Execute called by PGAPI_ParamData
NextRow ==
    /\ call # "none" /\ phase = "next"
    /\ RunRow(stmt, pstat, sent, call)
    /\ UNCHANGED <<cfg, apd, bound, stuck, canc, accepted>>

\* a slip: the timer is stopped and nothing is cancelled
TimerFires_Silent ==
    /\ armed /\ armed' = FALSE
    /\ UNCHANGED <<cfg, stmt, apd, bound, pstat, call, phase, stuck, canc, cancelReq, odbc, sent,
                   accepted, ret>>

\* Recept_timer_signal: stop the timer and PGAPI_Cancel.  With data_at_exec >= 0 that
\* waits for STMT_CS, for ever when the signal interrupted the holder.
TimerFires ==
    /\ armed /\ armed' = FALSE
    /\ IF stmt.dae >= 0 THEN stuck' \in BOOLEAN /\ UNCHANGED cancelReq
       ELSE cancelReq' = TRUE /\ UNCHANGED stuck
    /\ UNCHANGED <<cfg, stmt, apd, bound, pstat, call, phase, canc, odbc, sent, accepted, ret>>

----------------------------------------------------------------------------
(* SQLCancel in another thread: PGAPI_Cancel reads data_at_exec and status with no lock *)

CancelReadData ==
    /\ canc = "idle"
    /\ canc' = IF stmt.dae >= 0 THEN "lock" ELSE "read_status"
    /\ UNCHANGED <<cfg, stmt, apd, bound, pstat, callVars, odbc, sent, accepted, ret>>

CancelReadStatus ==
    /\ canc = "read_status"
    /\ canc' = IF stmt.status = "EXECUTING" THEN "send" ELSE "idle"
    /\ UNCHANGED <<cfg, stmt, apd, bound, pstat, callVars, odbc, sent, accepted, ret>>

\* CC_send_cancel_request: it hits whatever the server runs at that moment
CancelSend ==
    /\ canc = "send" /\ canc' = "idle"
    /\ cancelReq' = (call # "none" /\ phase = "exec")
    /\ UNCHANGED <<cfg, stmt, apd, bound, pstat, call, phase, armed, stuck, odbc, sent, accepted, ret>>

\* what the need-data branch resets; the buffers and exec_current_row are kept
Abandon(s) == [s EXCEPT !.dae = -1, !.cep = 0, !.put = FALSE]

\* ENTER_STMT_CS is granted between two calls of the other thread
CancelLock ==
    /\ canc = "lock" /\ Ready
    /\ canc' = "idle"
    /\ stmt' = Abandon(stmt)
    /\ odbc' = IF odbc \in Waiting THEN "cancelled" ELSE odbc
    /\ UNCHANGED <<cfg, apd, bound, pstat, callVars, sent, accepted, ret>>

----------------------------------------------------------------------------
App ==
    \/ \E b \in Bindings : SetParams(b)
    \/ BindParameter \/ ResetParams \/ Prepare \/ Describe
    \/ SQLExecute \/ SQLExecDirect \/ SQLParamData \/ SQLPutData \/ CloseStmt

Reply == ReplyOk("SUCCESS") \/ ReplyOk("INFO") \/ ReplyError
Cancel == CancelReadData \/ CancelReadStatus \/ CancelSend \/ CancelLock

Next == App \/ Reply \/ NextRow \/ TimerFires \/ Cancel
Spec == Init /\ [][Next]_vars

\* The driver's own steps happen; a mutex that is released again and again is
\* granted in the end.  Without a query timeout the server answers; with one it
\* may run for ever unless a cancel request reaches it.
FairSpec ==
    /\ Spec
    /\ WF_vars(NextRow) /\ WF_vars(TimerFires)
    /\ WF_vars((cancelReq \/ ~cfg.timeout) /\ Reply)
    /\ WF_vars(CancelReadStatus) /\ WF_vars(CancelSend) /\ SF_vars(CancelLock)

----------------------------------------------------------------------------
(* Properties *)

\* One execution sends the rows of the array in order, each at most once, never an
\* ignored one and never one past paramset_size; when it returns success it has
\* sent and carried out all of them (PGAPI_Execute, PGAPI_ParamData).
RowsExact ==
    /\ \A i \in 1..Len(sent) : sent[i] <= apd.size /\ sent[i] \notin apd.ignored
    /\ \A i, j \in 1..Len(sent) : i < j => sent[i] < sent[j]
    /\ ret \in {"SUCCESS", "INFO"} => accepted = Live

\* Every row reaches the server with its own values, each read in the format it is
\* written in: NULL where the row says so, the data put for that very row, or the row's
\* element of the array.  No buffer of an earlier row or of a cancelled execution
\* survives, and none is overwritten while it is live (SC_free_params, PGAPI_PutData,
\* ResolveOneParam, build_libpq_bind_params_batch).
OwnData ==
    /\ call # "none" /\ phase = "exec" /\ bound =>
          \A r \in Carried \cap Rows, p \in Params :
             LET v == RowValues(r)[p]
             IN  /\ v.from = "null" <=> p \in apd.nullOf[r]
                 /\ v.from = "put" <=> p \in apd.daeOf[r]
                 /\ v # Null => v.row = r /\ (p \in Binary => InBinary(p))
    /\ odbc = "must_put" => stmt.bufs[stmt.cep] = 0

\* While the application supplies data, data_at_exec is the number of parameters it
\* has still to be asked for, so SQLParamData executes exactly after the last one.
CounterExact ==
    odbc \in Waiting /\ call = "none" =>
        /\ stmt.row \in Rows /\ stmt.flagged = apd.daeOf[stmt.row]
        /\ stmt.dae = Cardinality({p \in stmt.flagged : p > stmt.cep})
        /\ \A p \in stmt.flagged : p < stmt.cep => stmt.bufs[p] = stmt.row

\* The status array tells the truth when the call has returned: success for the rows
\* that were carried out and for no others.  (A failed batch leaves the array as it was.)
StatusTruth ==
    ret \in {"SUCCESS", "INFO", "ERROR"} /\ call = "none" /\ sent # << >>
        /\ ~(Batch /\ ret = "ERROR") =>
        \A r \in 1..apd.size : pstat[r] \in {"SUCCESS", "INFO"} <=> r \in accepted

\* Every execution call returns: the server answers, or the timer makes it answer.
CallReturns == call # "none" ~> call = "none"

=============================================================================
