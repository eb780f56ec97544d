------------------------------- MODULE Catalog -------------------------------
(***************************************************************************)
(* The catalog functions of info.c.  Each is a long C function that        *)
(* borrows things -- internal statements, query texts, results, names --   *)
(* may fail at every step, and leaves through its cleanup label.  A        *)
(* function is given here as the program of its steps, in the order of     *)
(* the source; the actions below run the programs.  What is abstracted is  *)
(* the text of the queries and the values put in the rows.                 *)
(*                                                                         *)
(* A local pointer is "null", "live", or "gone" when the code has released *)
(* what it points at and kept the pointer.                                 *)
(***************************************************************************)
EXTENDS Integers, Sequences

CONSTANTS
  MaxRows,        \* a bound on the rows a catalog query returns
  MaxCalls,       \* a bound on the calls of the application
  Risky           \* situations that break a property, see the README

ASSUME BoundsAssumption == MaxRows \in Nat \ {0} /\ MaxCalls \in Nat
ASSUME RiskyAssumption ==
  Risky \subseteq {"no_table_name", "failed_procedure_query", "failed_group_query", "old_server_fetch"}

-----------------------------------------------------------------------------
(* The language: what a step does, to which pointer (or label), how its    *)
(* failure is reported -- a message of its own, the inner statement's copy *)
(* at once, or nothing, left to the copy at cleanup -- and where the       *)
(* failure goes: to cleanup, or out of the function at once.               *)

Step(op, p, sets, exit) == [op |-> op, p |-> p, sets |-> sets, exit |-> exit]
Do(op, p) == Step(op, p, "msg", "cleanup")

Recycle == Step("recycle", "-", "msg", "return")  \* SC_initialize_and_recycle
Own == Do("own", "-")                             \* QR_Constructor, SC_set_Result
OwnOrReturn == Step("own", "-", "msg", "return")
Stmt(p) == Do("stmt", p)                          \* PGAPI_AllocStmt
StmtOrReturn(p) == Step("stmt", p, "msg", "return")
Name(p) == Do("name", p)                          \* a copied or escaped name, NULL when it is not given
Fresh(p) == Do("fresh", p)                        \* if (p) free(p), then Name
Query(p) == Do("query", p)                        \* initPQExpBuffer
Built(p) == Do("built", p)                        \* PQExpBufferDataBroken
Exec(p, sets) == Step("exec", p, sets, "cleanup") \* PGAPI_ExecDirect, or a catalog function on p
Bind(p, sets) == Step("bind", p, sets, "cleanup") \* the PGAPI_BindCol calls in a row
First(p) == Step("first", p, "copy", "cleanup")   \* no row at all ends the function well
Rows(p, sets) == Step("rows", p, sets, "cleanup") \* the loop head: PGAPI_Fetch
Send(p) == Do("send", p)                          \* CC_send_query
Temp(p) == Do("temp", p)                          \* malloc, where something has to be kept
Grow(p) == Do("grow", p)                          \* malloc or realloc
Free(p) == Do("free", p)                          \* the pointer is kept
Forget(p) == Do("forget", p)                      \* the pointer is set to NULL
Copy(p) == Do("copy", p)                          \* SC_error_copy, when there is no error yet
Jump(op, l) == Do(op, l)
Label(l) == Do("label", l)
Add == Do("add", "-")                             \* QR_AddNew
EndRows == Do("endrows", "-")
Retry(p) == Step("retry", p, "keep", "-")         \* p is empty: once more, with schema public
RetryFresh(p) == Step("retry", p, "forget", "-")  \* p is released before
Finish == Do("finish", "-")
Succeed == Do("succeed", "-")
Cleanup == Label("cleanup")
Return == Do("return", "-")
Frees(ps) == [i \in 1..Len(ps) |-> Free(ps[i])]

-----------------------------------------------------------------------------
(* info.c, function by function.                                           *)

TypesBegin == <<Recycle, OwnOrReturn, Jump("either", "no_type")>>
TypesRows == <<Do("addnew", "-"), Label("no_type"), Succeed, Cleanup, Finish, Do("unset", "-"), Return>>
GetTypeInfo == TypesBegin \o TypesRows

TablesBegin == <<Recycle, StmtOrReturn("tbl"), Name("cat"), Name("table")>>
TablesQuery == <<Label("retry"), Fresh("schema"), Name("type"), Query("query")>>
TablesTypes == <<Built("query")>>
TablesRun == <<Exec("tbl", "copy"), Retry("tbl"), Bind("tbl", "inner")>>
TablesRows == <<Own, Rows("tbl", "copy"), Jump("either", "hidden"), Add, Label("hidden"), EndRows, Succeed>>
TablesEnd == <<Cleanup, Finish, Copy("tbl")>> \o Frees(<<"query", "cat", "schema", "table", "type", "tbl">>) \o <<Return>>
Tables == TablesBegin \o TablesQuery \o TablesTypes \o TablesRun \o TablesRows \o TablesEnd

ColumnsBegin == <<Recycle, Jump("by_ids", "retry"), Name("table"), Name("column")>>
ColumnsQuery == <<Label("retry"), Fresh("schema"), Query("query"), Built("query"), Stmt("col"), Exec("col", "copy"), RetryFresh("col")>>
ColumnsBind == <<Bind("col", "inner")>>
ColumnsRows == <<Own, Rows("col", "copy"), Temp("attdef"), Add>>
ColumnsRow == <<Forget("attdef"), EndRows, Jump("either", "no_xmin"), Add, Label("no_xmin"), Succeed>>
ColumnsEnd == <<Cleanup, Finish, Copy("col")>> \o Frees(<<"query", "schema", "table", "column", "col">>) \o <<Return>>
Columns == ColumnsBegin \o ColumnsQuery \o ColumnsBind \o ColumnsRows \o ColumnsRow \o ColumnsEnd

SpecialBegin ==
  <<Recycle, Name("table"), Step("need", "table", "msg", "return"), Label("retry"), Fresh("schema"), Query("query"),
    Stmt("col"), Built("query"), Exec("col", "copy"), RetryFresh("col"), Bind("col", "inner"), Do("peek", "col")>>
SpecialRowsTwice ==
  <<Free("col"), Own, Jump("either", "no_row"), Add, Label("no_row"), Succeed,
    Cleanup, Copy("col")>> \o Frees(<<"query", "schema", "table">>) \o <<Finish, Free("col"), Return>>
SpecialRows ==
  <<Forget("col"), Own, Jump("either", "no_row"), Add, Label("no_row"), Succeed,
    Cleanup, Copy("col")>> \o Frees(<<"query", "schema", "table">>) \o <<Finish, Free("col"), Return>>
SpecialColumns == SpecialBegin \o SpecialRows

StatsBegin ==
  <<Recycle, Name("table"), Do("need_silently", "table"), Step("own", "table", "msg", "return"),
    Stmt("col"), Exec("col", "inner"), Bind("col", "inner")>>
StatsColumns ==
  <<Rows("col", "copy"), Grow("names"), EndRows, Forget("col"), Jump("done_if_null", "names"), Stmt("indx"),
    Name("esc"), Name("schema"), Query("query"), Built("query"), Exec("indx", "copy")>>
StatsBind == <<Bind("indx", "inner")>>
StatsRows ==
  <<Rows("indx", "copy"), Add, Jump("either", "named"), Do("send_anyway", "def"), Forget("def"), Label("named"), EndRows, Succeed>>
StatsEnd ==
  <<Cleanup, Finish, Copy("col"), Copy("indx")>>
  \o Frees(<<"col", "indx", "query", "table", "esc", "schema", "names">>) \o <<Return>>
Statistics == StatsBegin \o StatsColumns \o StatsBind \o StatsRows \o StatsEnd

ColumnPrivileges ==
  <<Recycle, Name("schema"), Name("table"), Name("column"), Query("query"), Built("query"),
    Send("res"), Do("give", "res"), Succeed, Cleanup, Free("res"), Finish>>
  \o Frees(<<"query", "schema", "table", "column">>) \o <<Return>>

KeysBegin ==
  <<Recycle, OwnOrReturn, Stmt("tbl"), Jump("by_ids", "retry"), Name("pktab"), Do("need_text", "pktab"), Name("table"),
    Label("retry"), Fresh("schema"), Bind("tbl", "inner"), Query("query")>>
KeysQueries ==
  <<Built("query"), Exec("tbl", "copy"), Jump("by_ids", "found"), Jump("if_row", "found"),
    Built("query"), Exec("tbl", "copy"), Label("found"), Retry("tbl")>>
KeysRowsSome ==
  <<Rows("tbl", "ignored"), Add, EndRows, Succeed, Cleanup, Finish, Copy("tbl"), Free("tbl")>>
  \o Frees(<<"query", "pktab", "schema", "table">>) \o <<Return>>
KeysRows ==
  <<Rows("tbl", "copy"), Add, EndRows, Succeed, Cleanup, Finish, Copy("tbl"), Free("tbl")>>
  \o Frees(<<"query", "pktab", "schema", "table">>) \o <<Return>>
PrimaryKeys == KeysBegin \o KeysQueries \o KeysRows

\* getClientColumnName: the column is looked up in the server's own encoding, and the
\* second SET CLIENT_ENCODING follows whatever the query does.
ClientName(p) ==
  <<Do("overwrite", p), Jump("either", "same"), Do("encode", "server"), Do("encode", "client"),
    Jump("either", "same"), Name(p), Label("same")>>

ForeignBegin ==
  <<Recycle, OwnOrReturn, Finish, StmtOrReturn("tbl"), Name("pk"), Name("fk"), Query("query"), Jump("if_blank", "fk"),
    Name("escFk"), Name("escSchema")>>
ForeignAsk == <<Forget("escSchema"), Built("query"), Exec("tbl", "copy")>>
ForeignBind == <<Bind("tbl", "inner"), First("tbl"), Stmt("hpkey"), Bind("hpkey", "msg")>>
ForeignMatch ==
  <<Rows("tbl", "ignored"), Jump("either", "other"), Exec("hpkey", "msg")>> \o ClientName("pkey")
  \o <<Jump("either", "other"), Forget("pkey")>>
ForeignRow ==
  <<Add>> \o ClientName("pkey") \o ClientName("fkey")
  \o <<Forget("fkey"), Forget("pkey"), Label("other"), EndRows, Jump("goto", "listed")>>
PrimaryBegin ==
  <<Label("fk"), Jump("if_blank", "pk"), Name("escPk"), Name("escSchema"), Forget("escSchema"), Built("query"), Exec("tbl", "inner")>>
PrimaryBind == <<Bind("tbl", "inner"), First("tbl"), Stmt("hpkey"), Bind("hpkey", "msg"), Exec("hpkey", "msg"), Rows("tbl", "ignored")>>
PrimaryRow ==
  ClientName("pkey") \o ClientName("fkey")
  \o <<Add, Forget("pkey"), Forget("fkey"), EndRows, Jump("goto", "listed"), Label("pk"), Do("fail", "-"), Label("listed"), Succeed>>
ForeignEnd ==
  <<Cleanup, Finish, Copy("tbl")>>
  \o Frees(<<"query", "pkey", "fkey", "pk", "escPk", "fk", "escFk", "tbl", "hpkey">>) \o <<Return>>
ForeignKeys_old ==
  ForeignBegin \o ForeignAsk \o ForeignBind \o ForeignMatch \o ForeignRow \o PrimaryBegin \o PrimaryBind \o PrimaryRow \o ForeignEnd

ForeignNewBegin ==
  <<Recycle, Name("pk"), Name("fk"), Jump("if_null", "fk"), Name("table"), Jump("goto", "ask"),
    Label("fk"), Jump("if_null", "pk"), Name("table"), Jump("goto", "ask"), Label("pk"), Do("fail", "-"),
    Label("ask"), Name("schema")>>
ForeignNewSend ==
  <<Query("query"), Forget("schema"), Jump("if_null", "pk"), Jump("if_null", "fk"), Fresh("table"), Label("fk"), Label("pk"), Built("query"),
    Do("send_free", "res"), Do("give", "res"), Succeed, Cleanup, Do("finish_if_good", "-")>>
  \o Frees(<<"pk", "table", "fk", "query">>) \o <<Return>>
ForeignKeys_new == ForeignNewBegin \o ForeignNewSend

ProcColumnsBegin ==
  <<Recycle, Name("schema"), Name("proc"), Query("query"), Free("schema"), Free("proc"), Built("query"), Do("send_free", "tres"), Own>>
ProcColumnsRows == <<Rows("tres", "local"), Add>>
ProcColumnsParam == <<EndRows>>
ProcColumnsEnd == <<Succeed, Cleanup, Free("tres"), Free("query"), Finish, Return>>
ProcedureColumns == ProcColumnsBegin \o ProcColumnsRows \o ProcColumnsParam \o ProcColumnsEnd

Procedures ==
  <<Recycle, Name("schema"), Name("proc"), Query("query"), Built("query"), Do("send_free", "res"), Do("give", "res"),
    Succeed, Cleanup, Finish>> \o Frees(<<"schema", "proc", "query">>) \o <<Return>>

PrivBegin ==
  <<Recycle, OwnOrReturn, Finish, Name("table"), Label("retry"), Fresh("schema"), Query("query"), Built("query"),
    Send("wres"), RetryFresh("wres"), Built("query"), Send("allures"), Grow("useracl")>>
PrivAcl ==
  <<Rows("wres", "local"), Jump("either", "user"), Grow("escaped"), Do("escape", "escaped"), Forget("escaped"), Built("query"),
    Do("send_group", "gres"), Forget("gres"), Label("user")>>
PrivRows == <<Add, EndRows, Succeed, Cleanup>> \o Frees(<<"schema", "table", "useracl", "query", "wres", "allures">>) \o <<Return>>
TablePrivileges == PrivBegin \o PrivAcl \o PrivRows

Programs ==
  [GetTypeInfo |-> GetTypeInfo, Tables |-> Tables, Columns |-> Columns, SpecialColumns |-> SpecialColumns,
   Statistics |-> Statistics, ColumnPrivileges |-> ColumnPrivileges, PrimaryKeys |-> PrimaryKeys,
   ForeignKeys_old |-> ForeignKeys_old, ForeignKeys_new |-> ForeignKeys_new, ProcedureColumns |-> ProcedureColumns,
   Procedures |-> Procedures, TablePrivileges |-> TablePrivileges]

-----------------------------------------------------------------------------
Pointers ==
  {"tbl", "col", "indx", "hpkey", "cat", "schema", "table", "type", "column", "query", "attdef", "names", "esc", "def", "res",
   "pktab", "pk", "fk", "escPk", "escFk", "escSchema", "pkey", "fkey", "tres", "proc", "wres", "allures", "useracl", "escaped", "gres"}
Cursors == {"tbl", "col", "indx", "hpkey", "wres", "tres", "allures", "res"}

VARIABLES
  fn, at,         \* the function running and its next step, 0 between calls
  ptr,            \* its local pointers
  lost,           \* what nothing points at any more
  stale,          \* something was used or released after its release
  left,           \* the rows left to read, per internal statement or result
  ahead,          \* the first row is read already
  cut,            \* a row could not be read and the list ends there
  inner,          \* the internal statements with an error of their own
  schema,         \* the schema asked for: the user's own, another, or public when retried
  byIds,          \* an internal caller identifies the table by its oid
  err, ret,       \* the error of the application's statement, and what the call returns
  given, status,  \* its result and its status
  encoding,       \* client_encoding of the session
  unrestored,     \* the server refused to set it back
  calls

locals == <<fn, ptr, lost, left, ahead, cut, inner, schema, byIds>>
answer == <<err, ret, given, status>>
session == <<encoding, unrestored>>
vars == <<at, locals, stale, answer, session, calls>>

Init ==
  /\ fn = "GetTypeInfo" /\ at = 0
  /\ ptr = [p \in Pointers |-> "null"] /\ lost = {} /\ stale = FALSE
  /\ left = [p \in Cursors |-> 0] /\ ahead = FALSE /\ cut = FALSE /\ inner = {}
  /\ schema = "other" /\ byIds = FALSE
  /\ err = FALSE /\ ret = "none" /\ given = "none" /\ status = "ready"
  /\ encoding = "client" /\ unrestored = FALSE /\ calls = 0

\* An entry point clears the errors of the statement and calls the function.
Call(f) ==
  /\ at = 0 /\ calls < MaxCalls
  /\ fn' = f /\ at' = 1 /\ calls' = calls + 1
  /\ ptr' = [p \in Pointers |-> "null"] /\ lost' = {}
  /\ left' = [p \in Cursors |-> 0] /\ ahead' = FALSE /\ cut' = FALSE /\ inner' = {}
  /\ schema' \in {"mine", "other"}
  /\ byIds' \in IF f \in {"Columns", "PrimaryKeys"} THEN BOOLEAN ELSE {FALSE}
  /\ err' = FALSE /\ ret' = "ERROR"
  /\ UNCHANGED <<stale, given, status, session>>

Now == Programs[fn][at]
Is(op) == at # 0 /\ Now.op = op
\* Forward to the next place where test holds of a step.
Ahead(test(_)) ==
  CHOOSE i \in at + 1 .. Len(Programs[fn]) : test(Programs[fn][i]) /\ \A j \in at + 1 .. i - 1 : ~test(Programs[fn][j])
ToLabel(l) == LET here(s) == s = Label(l) IN Ahead(here)
AfterRows == LET end(s) == s.op = "endrows" IN Ahead(end) + 1
Next1 == at' = at + 1

\* A failing step reports as its program says, and leaves.
Fails(p) ==
  /\ err' = (err \/ Now.sets \in {"msg", "copy"})
  /\ inner' = IF p \in Pointers THEN inner \cup {p} ELSE inner
  /\ at' = IF Now.exit = "return" THEN 0 ELSE ToLabel("cleanup")

Assigned(p, v) ==
  /\ lost' = IF ptr[p] = "live" THEN lost \cup {p} ELSE lost
  /\ ptr' = [ptr EXCEPT ![p] = v]
Released(p, v) ==
  /\ stale' = (stale \/ ptr[p] = "gone")
  /\ ptr' = [ptr EXCEPT ![p] = IF @ = "null" THEN "null" ELSE v]
Used(p) == stale' = (stale \/ ptr[p] # "live")

DoRecycle ==
  /\ Is("recycle")
  /\ \/ Fails("-") /\ UNCHANGED <<given, status>>
     \/ Next1 /\ given' = "none" /\ status' = "ready" /\ UNCHANGED <<err, inner>>
  /\ UNCHANGED <<fn, ptr, lost, left, ahead, cut, schema, byIds, stale, ret, session, calls>>

DoOwn ==
  /\ Is("own")
  /\ \/ /\ Fails("-") /\ UNCHANGED given
        /\ IF Now.p \in Pointers THEN Released(Now.p, "gone") ELSE UNCHANGED <<stale, ptr>>
     \/ Next1 /\ given' = "own" /\ UNCHANGED <<err, inner, stale, ptr>>
  /\ UNCHANGED <<fn, lost, left, ahead, cut, schema, byIds, ret, status, session, calls>>

DoStmt ==
  /\ Is("stmt")
  /\ \/ Fails("-") /\ Assigned(Now.p, "null")
     \/ Next1 /\ Assigned(Now.p, "live") /\ inner' = inner \ {Now.p} /\ UNCHANGED err
  /\ UNCHANGED <<fn, left, ahead, cut, schema, byIds, stale, ret, given, status, session, calls>>

\* Names that the application does not give, or that do not fit in memory, are NULL.
DoName ==
  /\ Is("name") /\ Next1
  /\ \E v \in {"live"} \cup (IF fn = "Statistics" /\ Now.p = "table" /\ "no_table_name" \notin Risky THEN {} ELSE {"null"}) :
       Assigned(Now.p, v)
  /\ UNCHANGED <<fn, left, ahead, cut, inner, schema, byIds, stale, answer, session, calls>>

DoFresh ==
  /\ Is("fresh") /\ Next1
  /\ \E v \in {"live", "null"} :
       ptr' = [ptr EXCEPT ![Now.p] = IF byIds THEN @ ELSE v]
  /\ stale' = (stale \/ ptr[Now.p] = "gone")
  /\ UNCHANGED <<fn, lost, left, ahead, cut, inner, schema, byIds, answer, session, calls>>

DoQuery ==
  /\ Is("query") /\ Next1 /\ Assigned(Now.p, "live")
  /\ UNCHANGED <<fn, left, ahead, cut, inner, schema, byIds, stale, answer, session, calls>>

\* A broken buffer has given its memory back.
DoBuilt ==
  /\ Is("built")
  /\ \/ Fails("-") /\ ptr' = [ptr EXCEPT ![Now.p] = "null"]
     \/ Next1 /\ UNCHANGED <<ptr, err, inner>>
  /\ UNCHANGED <<fn, lost, left, ahead, cut, schema, byIds, stale, ret, given, status, session, calls>>

DoExec ==
  /\ Is("exec") /\ Used(Now.p)
  /\ \/ Fails(Now.p) /\ UNCHANGED left
     \/ /\ Next1 /\ UNCHANGED <<err, inner>>
        /\ \E n \in 0..MaxRows : left' = [left EXCEPT ![Now.p] = n]
  /\ UNCHANGED <<fn, ptr, lost, ahead, cut, schema, byIds, ret, given, status, session, calls>>

DoBind ==
  /\ Is("bind") /\ Used(Now.p)
  /\ \/ Fails(Now.p)
     \/ Next1 /\ UNCHANGED <<err, inner>>
  /\ UNCHANGED <<fn, ptr, lost, left, ahead, cut, schema, byIds, ret, given, status, session, calls>>

\* allow_public_schema: only where the schema asked for is the user's own.
Allow == schema = "mine" /\ ~byIds

DoRetry ==
  /\ Is("retry")
  /\ IF left[Now.p] = 0 /\ Allow
     THEN /\ schema' = "public"
          /\ at' = CHOOSE i \in 1..at : Programs[fn][i] = Label("retry")
          /\ IF Now.sets = "forget" THEN Released(Now.p, "null") ELSE UNCHANGED <<stale, ptr>>
     ELSE Next1 /\ UNCHANGED <<schema, stale, ptr>>
  /\ UNCHANGED <<fn, lost, left, ahead, cut, inner, byIds, answer, session, calls>>

DoFirst ==
  /\ Is("first") /\ Used(Now.p)
  /\ \/ left[Now.p] = 0 /\ ret' = "SUCCESS" /\ at' = ToLabel("cleanup") /\ UNCHANGED <<left, ahead, err, inner>>
     \/ left[Now.p] > 0 /\ Fails(Now.p) /\ UNCHANGED <<left, ahead, ret>>
     \/ /\ left[Now.p] > 0 /\ Next1 /\ ahead' = TRUE /\ left' = [left EXCEPT ![Now.p] = @ - 1]
        /\ UNCHANGED <<err, inner, ret>>
  /\ UNCHANGED <<fn, ptr, lost, cut, schema, byIds, given, status, session, calls>>

\* SpecialColumns reads one row and does not look whether it came.
DoPeek ==
  /\ Is("peek") /\ Next1 /\ Used(Now.p)
  /\ \E bad \in SUBSET {Now.p} : inner' = inner \cup bad
  /\ UNCHANGED <<fn, ptr, lost, left, ahead, cut, schema, byIds, answer, session, calls>>

Row ==
  /\ ahead \/ left[Now.p] > 0
  /\ Next1 /\ ahead' = FALSE
  /\ left' = IF ahead THEN left ELSE [left EXCEPT ![Now.p] = @ - 1]
  /\ UNCHANGED <<err, inner, cut>>
NoMore ==
  /\ ~ahead /\ left[Now.p] = 0
  /\ at' = AfterRows /\ UNCHANGED <<left, ahead, err, inner, cut>>
\* PGAPI_ForeignKeys_old takes a failing fetch for the end of the rows.
RowFails ==
  /\ ~ahead /\ left[Now.p] > 0 /\ Now.sets # "local"
  /\ IF Now.sets = "ignored"
     THEN (fn = "ForeignKeys_old" => "old_server_fetch" \in Risky) /\ cut' = TRUE /\ at' = AfterRows /\ inner' = inner \cup {Now.p} /\ UNCHANGED err
     ELSE Fails(Now.p) /\ UNCHANGED cut
  /\ UNCHANGED <<left, ahead>>

DoRows ==
  /\ Is("rows") /\ Used(Now.p)
  /\ Row \/ NoMore \/ RowFails
  /\ UNCHANGED <<fn, ptr, lost, schema, byIds, ret, given, status, session, calls>>

DoEndRows ==
  /\ Is("endrows")
  /\ at' = CHOOSE i \in 1..at : Programs[fn][i].op = "rows" /\ \A j \in i + 1 .. at : Programs[fn][j].op # "rows"
  /\ UNCHANGED <<locals, stale, answer, session, calls>>

\* What a failing CC_send_query returns: nothing, or a result that holds the error.
DoSend ==
  /\ Is("send") \/ Is("send_free") \/ Is("send_anyway") \/ Is("send_group")
  /\ \/ /\ Next1 /\ Assigned(Now.p, "live") /\ UNCHANGED <<err, inner, stale>>
        /\ \E n \in 0..MaxRows : left' = IF Now.p \in {"wres", "tres"} THEN [left EXCEPT ![Now.p] = n] ELSE left
     \/ /\ Is("send") /\ Fails("-") /\ UNCHANGED <<left, stale>>
        /\ \E v \in {"null", "live"} : Assigned(Now.p, v)
     \/ /\ Is("send_free") /\ Fails("-") /\ UNCHANGED <<left, lost, stale>>
        /\ \E v \in {"null"} \cup (IF fn = "ProcedureColumns" /\ "failed_procedure_query" \notin Risky THEN {} ELSE {"gone"}) :
             ptr' = [ptr EXCEPT ![Now.p] = v]
     \/ /\ Is("send_anyway") /\ Next1 /\ UNCHANGED <<left, err, inner, stale>>
        /\ \E v \in {"null", "live"} : Assigned(Now.p, v)
     \/ /\ Is("send_group") /\ "failed_group_query" \in Risky /\ Next1 /\ UNCHANGED <<left, err, inner>>
        /\ stale' = TRUE /\ Assigned(Now.p, "null")
  /\ UNCHANGED <<fn, ahead, cut, schema, byIds, ret, given, status, session, calls>>

DoGive ==
  /\ Is("give") /\ Next1 /\ Used(Now.p)
  /\ given' = "own" /\ ptr' = [ptr EXCEPT ![Now.p] = "null"]
  /\ UNCHANGED <<fn, lost, left, ahead, cut, inner, schema, byIds, err, ret, status, session, calls>>

DoGrow ==
  /\ Is("temp") \/ Is("grow") \/ Is("addnew") \/ Is("escape")
  /\ \/ Fails("-") /\ IF Is("escape") THEN Released(Now.p, "null") ELSE UNCHANGED <<ptr, stale>>
     \/ /\ Next1 /\ UNCHANGED <<err, inner, stale>>
        /\ \E ok \in IF Is("temp") THEN BOOLEAN ELSE {Is("grow")} :
             ptr' = IF ok THEN [ptr EXCEPT ![Now.p] = "live"] ELSE ptr
  /\ UNCHANGED <<fn, lost, left, ahead, cut, schema, byIds, ret, given, status, session, calls>>

DoFree ==
  /\ Is("free") \/ Is("forget")
  /\ Next1 /\ Released(Now.p, IF Is("free") THEN "gone" ELSE "null")
  /\ UNCHANGED <<fn, lost, left, ahead, cut, inner, schema, byIds, answer, session, calls>>

DoOverwrite ==
  /\ Is("overwrite") /\ Next1 /\ Assigned(Now.p, "null")
  /\ UNCHANGED <<fn, left, ahead, cut, inner, schema, byIds, stale, answer, session, calls>>

DoCopy ==
  /\ Is("copy") /\ Next1
  /\ err' = (err \/ (ret = "ERROR" /\ ptr[Now.p] = "live" /\ Now.p \in inner))
  /\ stale' = (stale \/ (ret = "ERROR" /\ ~err /\ ptr[Now.p] = "gone"))
  /\ UNCHANGED <<locals, ret, given, status, session, calls>>

Taken ==
  \/ Is("either") \/ Is("goto")
  \/ Is("by_ids") /\ byIds
  \/ Is("if_row") /\ left["tbl"] > 0
  \/ Is("if_null") /\ ptr[Now.p] = "null"
  \/ Is("if_blank")
NotTaken ==
  \/ Is("either") \/ Is("label") \/ Is("add")
  \/ Is("by_ids") /\ ~byIds
  \/ Is("if_row") /\ left["tbl"] = 0
  \/ (Is("if_null") \/ Is("if_blank")) /\ ptr[Now.p] # "null"
DoJump ==
  /\ \/ Taken /\ at' = ToLabel(Now.p)
     \/ NotTaken /\ Next1
  /\ UNCHANGED <<locals, stale, answer, session, calls>>

DoNeed ==
  /\ \/ /\ Is("need") \/ Is("need_text") \/ Is("need_silently")
        /\ ptr[Now.p] = "live" /\ Next1 /\ UNCHANGED <<err, inner, ret>>
     \/ Is("need") /\ ptr[Now.p] = "null" /\ Fails("-") /\ UNCHANGED ret
     \/ Is("need_text") /\ Fails("-") /\ UNCHANGED ret
     \/ Is("fail") /\ Fails("-") /\ UNCHANGED ret
     \/ /\ Is("need_silently") /\ ptr[Now.p] = "null"
        /\ err' = TRUE /\ ret' = "SUCCESS" /\ at' = 0 /\ UNCHANGED inner
  /\ UNCHANGED <<fn, ptr, lost, left, ahead, cut, schema, byIds, stale, given, status, session, calls>>

DoEncode ==
  /\ Is("encode") /\ Next1
  /\ \/ encoding' = Now.p /\ UNCHANGED unrestored
     \/ UNCHANGED encoding /\ unrestored' = (unrestored \/ Now.p = "client")
  /\ UNCHANGED <<locals, stale, answer, calls>>

DoSucceed ==
  /\ \/ Is("succeed") /\ ret' = "SUCCESS" /\ Next1
     \/ /\ Is("done_if_null")
        /\ IF ptr[Now.p] = "null" THEN ret' = "SUCCESS" /\ at' = ToLabel("cleanup") ELSE UNCHANGED ret /\ Next1
  /\ UNCHANGED <<locals, stale, err, given, status, session, calls>>

DoFinish ==
  /\ Is("finish") \/ Is("finish_if_good") \/ Is("unset")
  /\ Next1
  /\ status' = IF Is("finish") \/ (Is("finish_if_good") /\ ret = "SUCCESS") THEN "finished" ELSE status
  /\ given' = IF Is("unset") /\ ret = "ERROR" THEN "none" ELSE given
  /\ UNCHANGED <<locals, stale, err, ret, session, calls>>

DoReturn ==
  /\ Is("return") /\ at' = 0
  /\ UNCHANGED <<locals, stale, answer, session, calls>>

Runs ==
  \/ DoRecycle \/ DoOwn \/ DoStmt \/ DoName \/ DoFresh \/ DoQuery \/ DoBuilt \/ DoExec \/ DoBind \/ DoRetry \/ DoFirst
  \/ DoPeek \/ DoRows \/ DoEndRows \/ DoSend \/ DoGive \/ DoGrow \/ DoFree \/ DoOverwrite \/ DoCopy \/ DoJump \/ DoNeed
  \/ DoEncode \/ DoSucceed \/ DoFinish \/ DoReturn
Next == Runs \/ \E f \in DOMAIN Programs : Call(f)

Spec == Init /\ [][Next]_vars /\ WF_vars(Runs)

-----------------------------------------------------------------------------
Returned == at = 0 /\ calls > 0
\* What the code is known to lose: the first query text (and the table types) when the
\* public schema is tried, and a key name of a foreign key that does not match.
KnownLost ==
  (IF schema = "public" THEN {"query"} \cup (IF fn = "Tables" THEN {"type"} ELSE {}) ELSE {})
  \cup (IF fn = "ForeignKeys_old" THEN {"pkey"} ELSE {})

\* Every internal statement, result, query text and name that a catalog function takes is
\* released once: none is used or released a second time, by the cleanup label, which is
\* reached with some of them released already, or by the second round with the public
\* schema, and whichever step fails none is left on the way out (info.c, from each goto
\* cleanup and early return to the end).  Nor is the session left in the server's encoding.
ReleasedOnce ==
  /\ ~stale
  /\ Returned => lost \cup {p \in Pointers : ptr[p] = "live"} \subseteq KnownLost
  /\ Returned /\ encoding = "server" => unrestored

\* SQL_SUCCESS always comes with a result, a finished statement, no error left from a step
\* that failed on the way, and all the rows the server had; SQL_ERROR comes with an error on
\* the application's own statement, though most failures are those of an internal statement
\* that cleanup is about to drop.
SuccessComplete ==
  Returned =>
    /\ ret = "SUCCESS" => given = "own" /\ status = "finished" /\ ~err /\ ~cut
    /\ ret = "ERROR" => err

=============================================================================
