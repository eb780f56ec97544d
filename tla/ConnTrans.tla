----------------------------- MODULE ConnTrans -----------------------------
(***************************************************************************)
(* One connection of the driver and its server session: the driver's copy  *)
(* of the transaction status (transact_status), the internal savepoint     *)
(* that protects statements (RollbackOnError = 2), server-side cursors     *)
(* (UseDeclareFetch), and the list of server objects to discard later.     *)
(*                                                                         *)
(* The application calls one API function at a time.  A call runs as a     *)
(* stack of tasks `todo`: a task is one C function, or the rest of one     *)
(* after a nested call, so that the calls CC_send_query -> on_commit ->    *)
(* CC_send_query nest as they do in the code.  One step of the server is   *)
(* one command of the query string that was sent.                          *)
(***************************************************************************)
EXTENDS Integers, Sequences, FiniteSets

CONSTANTS
    Handles,        \* statement handles that may own a cursor
    StmtList,       \* the same handles in the order of conn->stmts[]
    NoHandle,
    Modes,          \* StartRollbackState: 0 nothing, 1 transaction, 2 statement
    DirectOps,      \* what the application runs with SQLExecDirect
    PreparedOps,    \* what it runs with SQLPrepare and SQLExecute
    Risky,          \* the risky habits it has, see RiskyHabits
    Lossy,          \* the session may be lost while a query runs
    MaxWrites, MaxUserSvp, MaxSvp, MaxDiscard   \* bounds on what it does

RiskyHabits ==
    {"catalog",            \* catalog functions inside a transaction
     "hold_in_savepoint",  \* opens WITH HOLD cursors after a SAVEPOINT
     "close_in_error",     \* closes a WITH HOLD cursor of the failed transaction
     "stale_ignored",      \* has a WITH HOLD cursor after closing a lost one
     "prepared_end",       \* prepares transaction control other than BEGIN
     "disconnect"}         \* disconnects while an internal savepoint is set

Kinds == {"begin", "start", "commit", "rollback", "savepoint", "release",
          "rollback_to", "write", "read", "special"}
Svps == {"exec", "query", "user"}
EndKinds == {"commit", "rollback", "savepoint", "release", "rollback_to"}
\* what the application calls
ApiCalls == Kinds \cup {"none", "catalog", "open", "close", "free", "connect"}

ASSUME HandleAssumption ==
    /\ NoHandle \notin Handles
    /\ StmtList \in Seq(Handles)
    /\ \A h \in Handles : \E k \in 1..Len(StmtList) : StmtList[k] = h
ASSUME OptionAssumption ==
    /\ Modes \subseteq 0..2 /\ Lossy \in BOOLEAN
    /\ Risky \subseteq RiskyHabits
    /\ DirectOps \subseteq Kinds /\ PreparedOps \subseteq Kinds
ASSUME BoundAssumption ==
    MaxWrites \in [Modes -> Nat] /\ {MaxUserSvp, MaxSvp, MaxDiscard} \subseteq Nat

VARIABLES
    conn,       \* ConnectionClass
    srv,        \* the server session
    curs,       \* QResultClass of each statement handle
    discardp,   \* discardp[0 .. num_discardp-1]
    todo,       \* the call stack, top first
    ret,        \* result of the last CC_send_query or CC_begin/commit/abort
    last        \* the API call being run, or the last one, and what it found

vars == <<conn, srv, curs, discardp, todo, ret, last>>

----------------------------------------------------------------------------
(* Types *)

Cmds == [op : Kinds \cup {"declare", "fetch", "close", "move", "deallocate"},
         svp : Svps, h : Handles \cup {NoHandle}, hold : BOOLEAN]

\* flags of CC_send_query, locals of CC_send_query_append, and facts a task passes on
Flags == {"begin", "rollback_on_error", "ignore_abort", "end_with_commit",
          "read_only", "stmt", "inner", "query_rollback", "discard_svp",
          "discard_release", "failed", "ok", "error", "commit", "was_in", "on"}

Tasks == [t : {"send", "wire", "query_rollback", "update", "return",
               "begin", "commit", "close_eof", "commit_send", "abort", "close", "closed",
               "clear", "moved", "discard_all", "discard", "discard_free",
               "on_commit_end",
               "request_start", "svp_sent", "request_begin", "exec_ext",
               "exec_end", "opened", "stmt_end", "stmt_rollback", "stmt_clean",
               "transact_end", "set_auto"},
          q : Seq(Cmds), f : SUBSET Flags, h : Handles \cup {NoHandle}, i : Nat]

Conns == [alive : BOOLEAN,         \* pqconn is not NULL
          auto : BOOLEAN,          \* CONN_IN_AUTOCOMMIT
          inTrans : BOOLEAN,       \* CONN_IN_TRANSACTION
          manual : BOOLEAN,        \* CONN_IN_MANUAL_TRANSACTION
          err : BOOLEAN,           \* CONN_IN_ERROR_BEFORE_IDLE
          svp : BOOLEAN,           \* internal_svp
          op : {"none", "savepoint", "prepend"},  \* internal_op
          point : BOOLEAN,         \* CC_started_rbpoint
          acc : BOOLEAN,           \* CC_accessed_db
          prog : BOOLEAN,          \* opt_in_progress has SVPOPT_RDONLY
          prev : BOOLEAN,          \* opt_previous has SVPOPT_RDONLY
          committing : BOOLEAN,    \* on_commit_in_progress
          ignored : BOOLEAN,       \* __error_number is CONN_ERROR_IGNORED
          mode : 0..2]             \* connInfo.rollback_on_error

Ports == [st : {"none", "trans", "held"}, hold : BOOLEAN, lvl : Nat]
Servers == [st : {"IDLE", "INTRANS", "INERROR"}, w : Nat,
            svps : Seq([name : Svps, w : Nat]), port : [Handles -> Ports]]
Cursors == [open : BOOLEAN, hold : BOOLEAN, perm : BOOLEAN, doubt : BOOLEAN,
            eof : BOOLEAN]

TypeOK ==
    /\ conn \in Conns
    /\ srv \in Servers
    /\ curs \in [Handles -> Cursors]
    /\ discardp \in Seq([type : {"s", "p"}, h : Handles \cup {NoHandle}])
    /\ todo \in Seq(Tasks)
    /\ ret \in {"ok", "error"}
    /\ last \in [op : ApiCalls, st : {"IDLE", "INTRANS", "INERROR"}, w : Nat,
                 failed : BOOLEAN]

NoPort   == [st |-> "none", hold |-> FALSE, lvl |-> 0]
NoCursor == [open |-> FALSE, hold |-> FALSE, perm |-> FALSE, doubt |-> FALSE,
             eof |-> FALSE]
NewServer == [st |-> "IDLE", w |-> 0, svps |-> << >>,
              port |-> [h \in Handles |-> NoPort]]

Init ==
    /\ conn \in [alive : {TRUE}, auto : {TRUE}, inTrans : {FALSE},
                manual : {FALSE}, err : {FALSE}, svp : {FALSE}, op : {"none"},
                point : {FALSE}, acc : {FALSE}, prog : {FALSE}, prev : {FALSE},
                committing : {FALSE}, ignored : {FALSE}, mode : Modes]
    /\ srv = NewServer
    /\ curs = [h \in Handles |-> NoCursor]
    /\ discardp = << >> /\ todo = << >> /\ ret = "ok"
    /\ last = [op |-> "none", st |-> "IDLE", w |-> 0, failed |-> FALSE]

Cmd(op)         == [op |-> op, svp |-> "user", h |-> NoHandle, hold |-> FALSE]
SvpCmd(op, s)   == [Cmd(op) EXCEPT !.svp = s]
CursCmd(op, h)  == [Cmd(op) EXCEPT !.h = h]

Call(t)         == [t |-> t, q |-> << >>, f |-> {}, h |-> NoHandle, i |-> 0]
CallH(t, h)     == [Call(t) EXCEPT !.h = h]
CallI(t, i)     == [Call(t) EXCEPT !.i = i]
Send(q, f)      == [Call("send") EXCEPT !.q = q, !.f = f]
Return(ok)      == [Call("return") EXCEPT !.f = {ok}]

Quiet  == todo = << >>
Top(t) == todo # << >> /\ Head(todo).t = t
\* the top task ends and calls the tasks of s
Then(s) == todo' = s \o Tail(todo)
If(b, s) == IF b THEN s ELSE << >>

----------------------------------------------------------------------------
(* The server (external): what one command of a query does to the session *)

Indices(s, n) == {i \in 1..Len(s.svps) : s.svps[i].name = n}
Latest(s, n)  == CHOOSE i \in Indices(s, n) : \A j \in Indices(s, n) : j <= i
UserSvps(s)   == Cardinality(Indices(s, "user"))

TransEnds(s, keepHold) ==
    [s EXCEPT !.st = "IDLE", !.w = 0, !.svps = << >>,
       !.port = [h \in Handles |->
          IF s.port[h].st = "held" THEN s.port[h]
          ELSE IF keepHold /\ s.port[h].st = "trans" /\ s.port[h].hold
               THEN [s.port[h] EXCEPT !.st = "held", !.lvl = 0]
               ELSE NoPort]]

\* back to the savepoint: later writes, savepoints and cursors are gone
RolledBackTo(s, i) ==
    [s EXCEPT !.st = "INTRANS", !.w = s.svps[i].w, !.svps = SubSeq(s.svps, 1, i),
       !.port = [h \in Handles |->
          IF s.port[h].st = "trans" /\ s.port[h].lvl >= i THEN NoPort
          ELSE s.port[h]]]

Released(s, i) ==
    [s EXCEPT !.svps = SubSeq(s.svps, 1, i - 1),
       !.port = [h \in Handles |->
          IF s.port[h].lvl >= i THEN [s.port[h] EXCEPT !.lvl = i - 1]
          ELSE s.port[h]]]

WithPort(s, h, p) == [s EXCEPT !.port = [s.port EXCEPT ![h] = p]]

Reply(s, tag) == [srv |-> s, tag |-> tag, notice |-> FALSE]
Failed(s) == Reply([s EXCEPT !.st = IF s.st = "IDLE" THEN "IDLE" ELSE "INERROR"],
                   "ERROR")
\* a WARNING precedes the command tag
Warned(s, tag) == [Reply(s, tag) EXCEPT !.notice = TRUE]

SvpReplies(s, c) ==
    IF s.st = "IDLE" \/ (s.st = "INERROR" /\ c.op # "rollback_to") THEN {Failed(s)}
    ELSE IF c.op = "savepoint"
    THEN {Reply([s EXCEPT !.svps = Append(@, [name |-> c.svp, w |-> s.w])],
                "SAVEPOINT")}
    ELSE IF Indices(s, c.svp) = {} THEN {Failed(s)}
    ELSE IF c.op = "release"
    THEN {Reply(Released(s, Latest(s, c.svp)), "RELEASE")}
    ELSE {Reply(RolledBackTo(s, Latest(s, c.svp)), "ROLLBACK")}

\* COMMIT of a failed transaction rolls back; a deferred check may fail it
EndReplies(s, c) ==
    IF s.st = "IDLE"
    THEN {Warned(s, IF c.op = "commit" THEN "COMMIT" ELSE "ROLLBACK")}
    ELSE IF c.op = "rollback" \/ s.st = "INERROR"
    THEN {Reply(TransEnds(s, FALSE), "ROLLBACK")}
    ELSE {Reply(TransEnds(s, TRUE), "COMMIT"), Reply(TransEnds(s, FALSE), "ERROR")}

CursorReplies(s, c) ==
    LET exists == s.port[c.h].st # "none"
    IN  CASE c.op = "declare" ->
               {Failed(s)} \cup
               (IF exists \/ (s.st = "IDLE" /\ ~c.hold) THEN {}
                ELSE {Reply(WithPort(s, c.h,
                        [st |-> IF s.st = "IDLE" THEN "held" ELSE "trans",
                         hold |-> c.hold, lvl |-> Len(s.svps)]), "OTHER")})
          [] c.op = "close" /\ exists -> {Reply(WithPort(s, c.h, NoPort), "OTHER")}
          [] c.op \in {"fetch", "move"} /\ exists -> {Reply(s, "OTHER")}
          [] OTHER -> {Failed(s)}

\* the commands a failed transaction does not take
PlainReplies(s, c) ==
    CASE c.op \in {"declare", "fetch", "close", "move"} -> CursorReplies(s, c)
      [] c.op \in {"begin", "start"} ->
           LET tag == IF c.op = "begin" THEN "BEGIN" ELSE "OTHER"
           IN  {IF s.st = "IDLE" THEN Reply([s EXCEPT !.st = "INTRANS"], tag)
                ELSE Warned(s, tag)}
      [] c.op \in {"write", "read"} ->
           LET s1 == [s EXCEPT !.w = IF s.st # "IDLE" /\ c.op = "write" THEN @ + 1 ELSE @]
           IN  {Failed(s), Reply(s1, "OTHER"), Warned(s1, "OTHER")}
      [] c.op = "special" ->        \* VACUUM: not inside a transaction block
           {Failed(s)} \cup (IF s.st = "IDLE" THEN {Reply(s, "OTHER")} ELSE {})
      [] c.op = "deallocate" -> {Reply(s, "OTHER")}

Replies(s, c) ==
    CASE c.op \in {"savepoint", "release", "rollback_to"} -> SvpReplies(s, c)
      [] c.op \in {"commit", "rollback"} -> EndReplies(s, c)
      [] OTHER -> IF s.st = "INERROR" THEN {Failed(s)} ELSE PlainReplies(s, c)

----------------------------------------------------------------------------
(* End of a transaction in the driver *)

\* CC_svp_init, CC_start_stmt and CC_set_no_trans: what an end of transaction resets
SvpInit(c) == [c EXCEPT !.svp = FALSE, !.op = "none", !.prog = TRUE, !.prev = TRUE]
StartStmt(c) == [c EXCEPT !.point = FALSE, !.acc = FALSE]
NoTrans(c) == IF c.inTrans
              THEN [c EXCEPT !.inTrans = FALSE, !.err = FALSE, !.manual = FALSE]
              ELSE c

\* CC_clear_cursors(conn, TRUE)
CursAborted == [h \in Handles |->
                  IF curs[h].open /\ ~curs[h].perm THEN NoCursor ELSE curs[h]]

\* CC_on_commit, up to its nested calls
OnCommitConn == IF conn.committing THEN conn
                ELSE [StartStmt(SvpInit(NoTrans(conn))) EXCEPT !.committing = TRUE]
OnCommitCalls ==
    If(~conn.committing,
       [k \in 1..Len(StmtList) |-> CallH("clear", StmtList[k])]
         \o <<Call("discard_all"), Call("on_commit_end")>>)

\* CC_on_abort(conn, NO_TRANS)
OnAbortConn == StartStmt(SvpInit(NoTrans(conn)))
OnAbortCalls == If(conn.inTrans, <<Call("discard_all")>>)

\* CC_on_abort(conn, CONN_DEAD): the PGconn is gone, nothing is discarded
DeadConn == [OnAbortConn EXCEPT !.alive = FALSE]

----------------------------------------------------------------------------
(* CC_send_query_append *)

\* SetStatementSvp: is an internal savepoint needed before this statement?
StmtType(c) == IF c.op = "special" THEN "special"
               ELSE IF c.op \in EndKinds THEN "transaction" ELSE "other"
\* a slip: the savepoint of an earlier statement is thought good enough
NeedSvp_Reuse(c, inner) ==
    ~c.point /\ ~c.prev /\ c.mode = 2 /\ ~inner /\ c.inTrans /\ ~c.svp
NeedSvp(c, inner) ==
    /\ ~c.point /\ ~c.prev
    /\ c.mode = 2 /\ ~inner          \* SC_is_rb_stmt: set by StartRollbackState
    /\ c.inTrans
SetSvp(cmd, ro, inner) ==
    LET c == [conn EXCEPT !.prog = @ /\ ro]
    IN  IF conn.err THEN conn
        ELSE IF StmtType(cmd) # "other" THEN c
        ELSE IF NeedSvp(c, inner) THEN [c EXCEPT !.op = "prepend", !.acc = TRUE]
        ELSE [c EXCEPT !.acc = TRUE]

\* GenerateSvpCommand(INTERNAL_SAVEPOINT_OPERATION)
InternalSavepoint(c) ==
    If(c.svp, <<SvpCmd("release", "exec")>>) \o <<SvpCmd("savepoint", "exec")>>

\* up to PQsendQuery: what is put around the query
SendQuery ==
    /\ Top("send")
    /\ LET k == Head(todo)
           q == k.q
           begin == "begin" \in k.f /\ ~conn.inTrans
           consider == begin \/ (conn.inTrans /\ ~conn.err) \/ Head(q).op = "begin"
           queryRollback == "rollback_on_error" \in k.f /\ consider
                            /\ "end_with_commit" \notin k.f
           protect == ~queryRollback /\ consider /\ "stmt" \in k.f
                      /\ "end_with_commit" \notin k.f /\ ~conn.point
           c == IF protect
                THEN SetSvp(Head(q), "read_only" \in k.f, "inner" \in k.f)
                ELSE conn
           prepend == c.op = "prepend" /\ ~begin /\ ~queryRollback
           wire == [Call("wire") EXCEPT
                      !.q = If(begin, <<Cmd("begin")>>)
                            \o If(queryRollback, <<SvpCmd("savepoint", "query")>>)
                            \o If(prepend, InternalSavepoint(c))
                            \o q
                            \o If(queryRollback, <<SvpCmd("release", "query")>>),
                      !.f = (k.f \cap {"ignore_abort"}) \cup
                            (IF queryRollback THEN {"query_rollback", "discard_svp"}
                             ELSE {})]
       IN  IF conn.alive
           THEN /\ Then(<<wire>>)
                /\ conn' = IF prepend THEN [c EXCEPT !.op = "savepoint"] ELSE c
                /\ UNCHANGED ret
           ELSE Then(<< >>) /\ ret' = "error" /\ UNCHANGED conn
    /\ UNCHANGED <<srv, curs, discardp, last>>

\* a slip: the application's own SAVEPOINT does not give up the internal one
TagConn_KeepSvp(c, f, tag) ==
    CASE tag = "BEGIN"     -> [c EXCEPT !.inTrans = TRUE, !.manual = TRUE]
      [] tag = "SAVEPOINT" /\ "discard_svp" \notin f /\ c.op = "savepoint" ->
           [c EXCEPT !.point = TRUE, !.svp = TRUE, !.op = "none"]
      [] tag = "ROLLBACK"  -> [c EXCEPT !.err = TRUE, !.svp = FALSE, !.prev = FALSE,
                                        !.prog = TRUE]
      [] tag = "RELEASE" /\ "discard_release" \notin f -> [c EXCEPT !.svp = FALSE]
      [] OTHER -> c
\* PGRES_COMMAND_OK: what the command tag does to our copy of the status
TagConn(c, f, tag) ==
    CASE tag = "BEGIN"     -> [c EXCEPT !.inTrans = TRUE, !.manual = TRUE]
      [] tag = "SAVEPOINT" -> IF "discard_svp" \in f THEN c
                              ELSE IF c.op = "savepoint"
                              THEN [c EXCEPT !.point = TRUE, !.svp = TRUE, !.op = "none"]
                              ELSE [c EXCEPT !.svp = FALSE]
      [] tag = "ROLLBACK"  -> [c EXCEPT !.err = TRUE, !.svp = FALSE, !.prev = FALSE,
                                        !.prog = TRUE]
      [] tag = "RELEASE" /\ "discard_release" \notin f -> [c EXCEPT !.svp = FALSE]
      [] OTHER -> c
TagFlags(f, tag) ==
    CASE tag = "SAVEPOINT" /\ "discard_svp" \in f ->
           (f \ {"discard_svp"}) \cup {"discard_release"}
      [] tag = "RELEASE" -> f \ {"discard_release"}
      [] OTHER -> f
\* a slip: ROLLBACK TO is taken to keep every cursor
TagCursors_Trusted(tag) == curs
\* CC_mark_cursors_doubtful
TagCursors(tag) ==
    IF tag # "ROLLBACK" THEN curs
    ELSE [h \in Handles |-> IF curs[h].open /\ ~curs[h].perm
                            THEN [curs[h] EXCEPT !.doubt = TRUE] ELSE curs[h]]

\* A notice, or the result of a command while the rest is still to come: the
\* status of libpq is ACTIVE, handle_pgres_error sets CONN_IN_TRANSACTION.
Noticed(c, r) == IF r.notice THEN [c EXCEPT !.inTrans = TRUE] ELSE c

WireOk ==
    /\ Top("wire") /\ Head(todo).q # << >> /\ conn.alive
    /\ LET k == Head(todo) IN
       \E r \in Replies(srv, Head(k.q)) :
          /\ r.tag # "ERROR"
          /\ srv' = r.srv
          /\ conn' = TagConn(Noticed(conn, r), k.f, r.tag)
          /\ curs' = TagCursors(r.tag)
          /\ Then(<<[k EXCEPT !.q = Tail(@), !.f = TagFlags(@, r.tag)]>>)
    /\ UNCHANGED <<discardp, ret, last>>

\* handle_pgres_error: the server skips the rest of the query
WireError ==
    /\ Top("wire") /\ Head(todo).q # << >> /\ conn.alive
    /\ LET k == Head(todo) IN
       \E r \in Replies(srv, Head(k.q)) :
          /\ r.tag = "ERROR"
          /\ srv' = r.srv
          /\ conn' = [conn EXCEPT !.err = @ \/ conn.inTrans, !.inTrans = TRUE,
                                  !.ignored = FALSE]
          /\ Then(<<[k EXCEPT !.q = << >>, !.f = @ \cup {"failed"}]>>)
    /\ UNCHANGED <<curs, discardp, ret, last>>

\* the session is lost: handle_pgres_error calls CC_on_abort(CONN_DEAD)
WireLost ==
    /\ Lossy /\ Top("wire") /\ Head(todo).q # << >> /\ conn.alive
    /\ srv' = NewServer
    /\ conn' = [DeadConn EXCEPT !.ignored = FALSE]
    /\ curs' = CursAborted
    /\ Then(<<[Head(todo) EXCEPT !.q = << >>, !.f = @ \cup {"failed"}]>>)
    /\ UNCHANGED <<discardp, ret, last>>

\* cleanup: of CC_send_query_append
WireDone ==
    /\ Top("wire") /\ Head(todo).q = << >>
    /\ LET f == Head(todo).f
           undo == /\ "query_rollback" \in f /\ "discard_svp" \notin f
                   /\ conn.inTrans /\ conn.err
       IN  /\ conn' = [conn EXCEPT !.ignored = @ \/ {"failed", "ignore_abort"} \subseteq f]
           /\ Then(If(undo, <<[Call("query_rollback") EXCEPT
                                 !.f = f \cap {"ignore_abort"}]>>)
                   \o <<Call("update"),
                        Return(IF "failed" \in f THEN "error" ELSE "ok")>>)
    /\ UNCHANGED <<srv, curs, discardp, ret, last>>

\* CC_internal_rollback(PER_QUERY_ROLLBACK): ignore_abort clears the error bit
\* only when ROLLBACK TO itself has failed
QueryRollback ==
    /\ Top("query_rollback")
    /\ IF srv.st # "IDLE" /\ Indices(srv, "query") # {}
       THEN LET i == Latest(srv, "query")
            IN  srv' = Released(RolledBackTo(srv, i), i) /\ UNCHANGED conn
       ELSE /\ srv' = Failed(srv).srv
            /\ conn' = [conn EXCEPT !.ignored = FALSE,
                           !.err = @ /\ "ignore_abort" \notin Head(todo).f]
    /\ Then(<<Call("update")>>)
    /\ UNCHANGED <<curs, discardp, ret, last>>

\* LIBPQ_update_transaction_status
UpdateStatus ==
    /\ Top("update")
    /\ CASE ~conn.alive -> Then(<< >>) /\ UNCHANGED <<conn, curs>>
         [] conn.alive /\ srv.st = "IDLE" /\ ~conn.inTrans ->
              Then(<< >>) /\ UNCHANGED <<conn, curs>>
         [] conn.alive /\ srv.st = "IDLE" /\ conn.inTrans /\ conn.err ->
              /\ conn' = OnAbortConn /\ curs' = CursAborted
              /\ Then(OnAbortCalls)
         [] conn.alive /\ srv.st = "IDLE" /\ conn.inTrans /\ ~conn.err ->
              conn' = OnCommitConn /\ Then(OnCommitCalls) /\ UNCHANGED curs
         [] conn.alive /\ srv.st = "INTRANS" ->
              /\ conn' = [conn EXCEPT !.inTrans = TRUE, !.err = FALSE]
              /\ Then(If(conn.err, <<Call("discard_all")>>))
              /\ UNCHANGED curs
         [] conn.alive /\ srv.st = "INERROR" ->
              /\ conn' = [conn EXCEPT !.inTrans = TRUE, !.err = TRUE]
              /\ Then(<< >>) /\ UNCHANGED curs
    /\ UNCHANGED <<srv, discardp, ret, last>>

ReturnResult ==
    /\ Top("return")
    /\ ret' = IF "ok" \in Head(todo).f THEN "ok" ELSE "error"
    /\ Then(<< >>)
    /\ UNCHANGED <<conn, srv, curs, discardp, last>>

----------------------------------------------------------------------------
(* Cursors and discarded objects *)

\* the body of CC_clear_cursors(conn, FALSE) for one statement
ClearCursor ==
    /\ Top("clear")
    /\ LET h == Head(todo).h
           move == curs[h].open /\ curs[h].hold /\ ~curs[h].perm /\ curs[h].doubt
       IN  /\ curs' = [curs EXCEPT ![h] =
                         IF ~@.open \/ move \/ @.perm THEN @
                         ELSE IF ~@.hold THEN NoCursor ELSE [@ EXCEPT !.perm = TRUE]]
           /\ Then(If(move, <<Send(<<CursCmd("move", h)>>,
                                   {"rollback_on_error", "ignore_abort", "read_only"}),
                              CallH("moved", h)>>))
    /\ UNCHANGED <<conn, srv, discardp, ret, last>>

\* back from MOVE 0: has the cursor survived?
Moved ==
    /\ Top("moved")
    /\ curs' = [curs EXCEPT ![Head(todo).h] =
                  IF ret = "ok" /\ ~conn.ignored
                  THEN [@ EXCEPT !.perm = TRUE, !.doubt = FALSE] ELSE NoCursor]
    /\ Then(<< >>)
    /\ UNCHANGED <<conn, srv, discardp, ret, last>>

\* CC_discard_marked_objects: the loop counts down from num_discardp
DiscardAll ==
    /\ Top("discard_all")
    /\ Then(If(discardp # << >>, <<CallI("discard", Len(discardp))>>))
    /\ UNCHANGED <<conn, srv, curs, discardp, ret, last>>

\* one turn: DEALLOCATE or CLOSE (a slot freed behind its back reads as nothing)
DiscardOne ==
    /\ Top("discard")
    /\ LET i == Head(todo).i
           o == discardp[i]
       IN  IF i \in 1..Len(discardp)
           THEN Then(<<Send(<<IF o.type = "s" THEN Cmd("deallocate")
                              ELSE CursCmd("close", o.h)>>,
                            {"rollback_on_error", "ignore_abort", "read_only"}),
                       CallI("discard_free", i)>>)
           ELSE Then(<< >>)
    /\ UNCHANGED <<conn, srv, curs, discardp, ret, last>>

\* a slip: num_discardp is not lowered
DiscardFree_Stuck ==
    /\ Top("discard_free")
    /\ Then(<<Call("discard_all")>>)
    /\ UNCHANGED <<conn, srv, curs, discardp, ret, last>>
DiscardFree ==
    /\ Top("discard_free")
    /\ LET i == Head(todo).i
       IN  /\ discardp' = IF Len(discardp) >= i THEN SubSeq(discardp, 1, i - 1)
                          ELSE discardp
           /\ Then(If(i > 1, <<CallI("discard", i - 1)>>))
    /\ UNCHANGED <<conn, srv, curs, ret, last>>

OnCommitEnd ==
    /\ Top("on_commit_end")
    /\ conn' = [conn EXCEPT !.committing = FALSE]
    /\ Then(<< >>)
    /\ UNCHANGED <<srv, curs, discardp, ret, last>>

OpenCursors == {h \in Handles : curs[h].open}

\* a slip: no cursor is marked
MarkToDiscard_None(c, h) == << >>
\* CC_mark_a_object_to_discard, of QR_close
MarkToDiscard(c, h) == If(c.hold, <<[type |-> "p", h |-> h]>>)

\* QR_close.  In a failed transaction nothing can be sent: a WITH HOLD cursor may
\* outlive the transaction and is marked.  (close;commit when no cursor is left.)
CloseResult ==
    /\ Top("close")
    /\ LET h == Head(todo).h
           c == curs[h]
           endTrans == conn.inTrans /\ conn.auto /\ ~conn.manual
                       /\ Cardinality(OpenCursors) <= 1
           flags == {"read_only"} \cup
                    (IF c.doubt THEN {"rollback_on_error", "ignore_abort"} ELSE {}) \cup
                    (IF endTrans /\ ~c.doubt THEN {"end_with_commit"} ELSE {})
       IN  CASE ~c.open -> Then(<< >>) /\ UNCHANGED <<curs, discardp>>
             [] c.open /\ conn.err ->
                  /\ discardp' = discardp \o MarkToDiscard(c, h)
                  /\ curs' = [curs EXCEPT ![h] = NoCursor]
                  /\ Then(<< >>)
             [] c.open /\ ~conn.err ->
                  /\ Then(<<Send(<<CursCmd("close", h)>>
                                 \o If(endTrans /\ ~c.doubt, <<Cmd("commit")>>), flags),
                            CallH("closed", h)>>
                          \o If(endTrans /\ c.doubt, <<Call("commit")>>))
                  /\ curs' = IF endTrans /\ ~c.doubt
                             THEN [curs EXCEPT ![h] = NoCursor] ELSE curs
                  /\ UNCHANGED discardp
    /\ UNCHANGED <<conn, srv, ret, last>>

Closed ==
    /\ Top("closed")
    /\ curs' = [curs EXCEPT ![Head(todo).h] = NoCursor]
    /\ Then(<< >>)
    /\ UNCHANGED <<conn, srv, discardp, ret, last>>

----------------------------------------------------------------------------
(* CC_begin, CC_commit, CC_abort *)

Begin ==
    /\ Top("begin")
    /\ Then(If(~conn.inTrans, <<Send(<<Cmd("begin")>>, {})>>))
    /\ ret' = IF conn.inTrans THEN "ok" ELSE ret
    /\ UNCHANGED <<conn, srv, curs, discardp, last>>

\* CC_close_eof_cursors first, unless the transaction has failed
Commit ==
    /\ Top("commit")
    /\ Then(If(conn.inTrans /\ ~conn.err,
               [k \in 1..Len(StmtList) |-> CallH("close_eof", StmtList[k])])
            \o If(conn.inTrans, <<Call("commit_send")>>))
    /\ ret' = IF conn.inTrans THEN ret ELSE "ok"
    /\ UNCHANGED <<conn, srv, curs, discardp, last>>

CloseEof ==
    /\ Top("close_eof")
    /\ LET h == Head(todo).h
       IN  Then(If(curs[h].open /\ curs[h].hold /\ curs[h].eof,
                   <<CallH("close", h)>>))
    /\ UNCHANGED <<conn, srv, curs, discardp, ret, last>>

CommitSend ==
    /\ Top("commit_send")
    /\ Then(If(conn.inTrans, <<Send(<<Cmd("commit")>>, {})>>))
    /\ ret' = IF conn.inTrans THEN ret ELSE "ok"
    /\ UNCHANGED <<conn, srv, curs, discardp, last>>

Abort ==
    /\ Top("abort")
    /\ Then(If(conn.inTrans, <<Send(<<Cmd("rollback")>>, {})>>))
    /\ ret' = IF conn.inTrans THEN ret ELSE "ok"
    /\ UNCHANGED <<conn, srv, curs, discardp, last>>

----------------------------------------------------------------------------
(* Executing a statement: SC_execute between StartRollbackState and
   DiscardStatementSvp *)

\* a slip: only a cursor needs a transaction
IssueBegin_Cursor(type, useCursor) == ~conn.inTrans /\ useCursor
\* the transaction begins implicitly: autocommit is off, or a cursor is opened
IssueBegin(type, useCursor) ==
    /\ ~conn.inTrans
    /\ ~(conn.auto /\ ~conn.manual /\ ~useCursor)
    /\ type # "special"
CommitFirst(cmd) == If(conn.inTrans /\ cmd.op \in {"begin", "start"}
                       /\ conn.auto /\ ~conn.manual, <<Call("commit")>>)
\* is_in_trans, read again after that commit
ExecEnd(cmd) == [Call("exec_end") EXCEPT
                   !.f = IF conn.inTrans /\ CommitFirst(cmd) = << >> THEN {"was_in"} ELSE {}]

Calling(op) == last' = [op |-> op, st |-> srv.st, w |-> srv.w, failed |-> FALSE]

\* what the application may ask for within the bounds
MayRun(op) ==
    /\ op = "write" => srv.w < MaxWrites[conn.mode]
    /\ op = "savepoint" => /\ UserSvps(srv) < MaxUserSvp
                           /\ Len(srv.svps) < MaxSvp

\* SQLExecDirect on a statement without parameters: the simple query protocol
ExecDirect(op) ==
    /\ Quiet /\ conn.alive /\ MayRun(op)
    /\ LET begin == IssueBegin(StmtType(Cmd(op)), FALSE)
       IN  todo' = CommitFirst(Cmd(op))
                   \o <<Send(<<Cmd(op)>>, {"stmt"} \cup IF begin THEN {"begin"} ELSE {}),
                        ExecEnd(Cmd(op)), Call("stmt_end")>>
    /\ Calling(op)
    /\ UNCHANGED <<conn, srv, curs, discardp, ret>>

\* SQLExecute of a prepared statement: the extended protocol
ExecPrepared(op) ==
    /\ Quiet /\ conn.alive /\ MayRun(op)
    /\ op \in EndKinds => "prepared_end" \in Risky
    /\ LET tk(t) == [Call(t) EXCEPT !.q = <<Cmd(op)>>]
       IN  todo' = CommitFirst(Cmd(op))
                   \o If(IssueBegin(StmtType(Cmd(op)), FALSE), <<Call("begin")>>)
                   \o <<tk("request_start"), tk("exec_ext"), ExecEnd(Cmd(op)),
                        Call("stmt_end")>>
    /\ Calling(op)
    /\ UNCHANGED <<conn, srv, curs, discardp, ret>>

\* SQLTables and the like: a read-only query on an internal statement
Catalog ==
    /\ Quiet /\ conn.alive
    /\ conn.inTrans /\ conn.mode = 2 => "catalog" \in Risky
    /\ todo' = <<Send(<<Cmd("read")>>, {"stmt", "inner", "read_only"}),
                 Call("stmt_end")>>
    /\ Calling("catalog")
    /\ UNCHANGED <<conn, srv, curs, discardp, ret>>

\* a SELECT with UseDeclareFetch: DECLARE CURSOR and the first FETCH
OpenCursor(h, hold) ==
    /\ Quiet /\ conn.alive /\ ~curs[h].open
    /\ hold /\ UserSvps(srv) > 0 => "hold_in_savepoint" \in Risky
    /\ hold /\ conn.ignored => "stale_ignored" \in Risky
    /\ todo' = <<Send(<<[CursCmd("declare", h) EXCEPT !.hold = hold],
                        CursCmd("fetch", h)>>,
                      {"stmt"} \cup IF IssueBegin("other", TRUE) THEN {"begin"} ELSE {}),
                 [CallH("opened", h) EXCEPT !.f = IF hold THEN {"on"} ELSE {}],
                 Call("stmt_end")>>
    /\ Calling("open")
    /\ UNCHANGED <<conn, srv, curs, discardp, ret>>

\* QR_from_PGresult sets the cursor, SC_execute the WITH HOLD flag; fewer rows
\* than asked for are the end of the result
Opened ==
    /\ Top("opened")
    /\ \E eof \in BOOLEAN :
          curs' = IF ret = "ok" /\ conn.alive
                  THEN [curs EXCEPT ![Head(todo).h] =
                          [open |-> TRUE, hold |-> "on" \in Head(todo).f,
                           perm |-> FALSE, doubt |-> FALSE, eof |-> eof]]
                  ELSE curs
    /\ Then(<< >>)
    /\ UNCHANGED <<conn, srv, discardp, ret, last>>

\* RequestStart, of libpq_bind_and_exec: the savepoint is a query of its own
RequestStart ==
    /\ Top("request_start")
    /\ LET cmd == Head(Head(todo).q)
           c == IF conn.point THEN conn ELSE SetSvp(cmd, FALSE, FALSE)
           need == c.op = "prepend"
           begin == ~conn.inTrans /\ (~conn.auto \/ conn.manual)
                    /\ cmd.op # "special" /\ ~conn.point
       IN  IF conn.alive
           THEN /\ conn' = IF need THEN [c EXCEPT !.op = "savepoint"] ELSE c
                /\ Then(If(need, <<Send(InternalSavepoint(c), {}), Call("svp_sent")>>)
                        \o If(begin, <<Call("begin")>>))
           ELSE UNCHANGED conn /\ Then(<< >>)
    /\ UNCHANGED <<srv, curs, discardp, ret, last>>

\* the internal SAVEPOINT failed: the statement is not executed
SvpSent ==
    /\ Top("svp_sent")
    /\ conn' = [conn EXCEPT !.op = "none"]
    /\ todo' = IF ret = "ok" THEN Tail(todo)
               ELSE Tail(Tail(Tail(todo)))     \* without exec_ext and exec_end
    /\ UNCHANGED <<srv, curs, discardp, ret, last>>

\* PQexecParams or PQexecPrepared, and what its result says of the transaction
ExecExtOk ==
    /\ Top("exec_ext") /\ conn.alive
    /\ LET cmd == Head(Head(todo).q) IN
       \E r \in Replies(srv, cmd) :
          /\ r.tag # "ERROR"
          /\ srv' = r.srv
          /\ conn' = IF r.srv.st = "IDLE"
                     THEN [conn EXCEPT !.inTrans = FALSE, !.err = FALSE, !.manual = FALSE]
                     ELSE [conn EXCEPT !.inTrans = TRUE,
                                       !.manual = @ \/ cmd.op \in {"begin", "start"}]
    /\ ret' = "ok" /\ Then(<< >>)
    /\ UNCHANGED <<curs, discardp, last>>

ExecExtError ==
    /\ Top("exec_ext") /\ conn.alive
    /\ \E r \in Replies(srv, Head(Head(todo).q)) :
          r.tag = "ERROR" /\ srv' = r.srv
    /\ conn' = [conn EXCEPT !.err = @ \/ conn.inTrans, !.ignored = FALSE]
    /\ ret' = "error"
    /\ Then(<<Call("update"), Return("error")>>)
    /\ UNCHANGED <<curs, discardp, last>>

ExecExtLost ==
    /\ Top("exec_ext") /\ (Lossy \/ ~conn.alive)
    /\ srv' = NewServer /\ conn' = [DeadConn EXCEPT !.ignored = FALSE]
    /\ curs' = CursAborted
    /\ ret' = "error" /\ Then(<< >>)
    /\ UNCHANGED <<discardp, last>>

\* end of SC_execute, for statements that are not SELECTs
FinishExec ==
    /\ Top("exec_end")
    /\ LET c == IF conn.inTrans /\ "was_in" \notin Head(todo).f
                THEN [conn EXCEPT !.manual = TRUE] ELSE conn
       IN  /\ conn' = c
           /\ Then(If(c.inTrans /\ c.auto /\ ~c.manual,
                      <<Call("commit"), Return(ret)>>))
    /\ UNCHANGED <<srv, curs, discardp, ret, last>>

\* DiscardStatementSvp(stmt, ret, FALSE)
EndStatement ==
    /\ Top("stmt_end")
    /\ LET failed == ret = "error"
           protect == conn.acc /\ conn.inTrans /\ conn.mode # 0 /\ failed
       IN  /\ Then(If(protect, <<IF conn.point /\ conn.svp THEN Call("stmt_rollback")
                                ELSE Call("abort")>>)
                   \o <<Call("stmt_clean")>>)
           /\ last' = [last EXCEPT !.failed = failed]
    /\ UNCHANGED <<conn, srv, curs, discardp, ret>>

\* CC_internal_rollback(PER_STATEMENT_ROLLBACK)
StatementRollback ==
    /\ Top("stmt_rollback")
    /\ IF ~conn.err THEN UNCHANGED <<srv, conn>> /\ Then(<< >>)
       ELSE \E r \in Replies(srv, IF conn.svp THEN SvpCmd("rollback_to", "exec")
                                  ELSE Cmd("rollback")) :
              /\ srv' = r.srv
              /\ conn' = [conn EXCEPT !.ignored = @ /\ r.tag # "ERROR"]
              /\ Then(<<Call("update")>>)
    /\ UNCHANGED <<curs, discardp, ret, last>>

CleanStatement ==
    /\ Top("stmt_clean")
    /\ conn' = StartStmt(IF ~last.failed /\ conn.acc
                         THEN [conn EXCEPT !.prev = conn.prog, !.prog = TRUE]
                         ELSE conn)
    /\ Then(<< >>)
    /\ UNCHANGED <<srv, curs, discardp, ret, last>>

----------------------------------------------------------------------------
(* The other calls *)

\* SQLEndTran: PGAPI_Transact
EndTran(op) ==
    /\ Quiet /\ conn.alive
    /\ conn' = [conn EXCEPT !.ignored = FALSE]
    /\ todo' = If((~conn.auto \/ conn.manual) /\ conn.inTrans,
                  <<Call(IF op = "commit" THEN "commit" ELSE "abort"),
                    Call("transact_end")>>)
    /\ Calling(op)
    /\ UNCHANGED <<srv, curs, discardp, ret>>

EndTransact ==
    /\ Top("transact_end")
    /\ IF ret = "ok" THEN Then(<< >>) /\ UNCHANGED <<conn, curs>>
       ELSE conn' = OnAbortConn /\ curs' = CursAborted /\ Then(OnAbortCalls)
    /\ last' = [last EXCEPT !.failed = ret = "error"]
    /\ UNCHANGED <<srv, discardp, ret>>

\* SQLSetConnectAttr(SQL_ATTR_AUTOCOMMIT): CC_set_autocommit
SetAutocommit ==
    /\ Quiet /\ conn.alive
    /\ conn' = [conn EXCEPT !.ignored = FALSE]
    /\ todo' = If(conn.inTrans, <<Call("commit")>>) \o <<Call("set_auto")>>
    /\ Calling("commit")
    /\ UNCHANGED <<srv, curs, discardp, ret>>

FlipAutocommit ==
    /\ Top("set_auto")
    /\ conn' = [conn EXCEPT !.auto = ~@]
    /\ Then(<< >>)
    /\ UNCHANGED <<srv, curs, discardp, ret, last>>

\* SQLCloseCursor, SQLFreeStmt (its DiscardStatementSvp finds CC_accessed_db clear)
CloseCursor(h) ==
    /\ Quiet /\ conn.alive /\ curs[h].open
    /\ conn.err /\ curs[h].hold => /\ Len(discardp) < MaxDiscard
                                   /\ curs[h].perm \/ "close_in_error" \in Risky
    /\ curs[h].doubt /\ (\E g \in Handles \ {h} : curs[g].open /\ curs[g].hold)
          => "stale_ignored" \in Risky
    /\ todo' = <<CallH("close", h)>>
    /\ Calling("close")
    /\ UNCHANGED <<conn, srv, curs, discardp, ret>>

\* SC_set_prepared(stmt, NOT_YET_PREPARED) of a named server-side statement
FreePrepared ==
    /\ Quiet /\ conn.alive
    /\ conn.err => Len(discardp) < MaxDiscard
    /\ discardp' = discardp \o If(conn.err, <<[type |-> "s", h |-> NoHandle]>>)
    /\ todo' = If(~conn.err, <<Send(<<Cmd("deallocate")>>,
                                   {"ignore_abort", "rollback_on_error"})>>)
    /\ Calling("free")
    /\ UNCHANGED <<conn, srv, curs, ret>>

\* SQLDisconnect (CC_cleanup) and SQLConnect on the same connection handle
Reconnect ==
    /\ Quiet /\ (conn.svp => "disconnect" \in Risky)
    /\ conn' = [conn EXCEPT !.alive = TRUE, !.auto = TRUE, !.inTrans = FALSE,
                            !.manual = FALSE, !.err = FALSE, !.ignored = FALSE]
    /\ srv' = NewServer
    /\ curs' = [h \in Handles |-> NoCursor] /\ discardp' = << >>
    /\ Calling("connect")
    /\ UNCHANGED <<todo, ret>>

Application ==
    \/ \E op \in DirectOps : ExecDirect(op)
    \/ \E op \in PreparedOps : ExecPrepared(op)
    \/ Catalog
    \/ \E h \in Handles, hold \in BOOLEAN : OpenCursor(h, hold)
    \/ \E op \in {"commit", "rollback"} : EndTran(op)
    \/ SetAutocommit \/ FreePrepared \/ Reconnect
    \/ \E h \in Handles : CloseCursor(h)

Driver ==
    \/ SendQuery \/ WireOk \/ WireError \/ WireLost \/ WireDone \/ QueryRollback
    \/ UpdateStatus \/ ReturnResult
    \/ ClearCursor \/ Moved \/ DiscardAll \/ DiscardOne \/ DiscardFree \/ OnCommitEnd
    \/ CloseResult \/ Closed \/ Begin \/ Commit \/ CloseEof \/ CommitSend \/ Abort
    \/ Opened \/ RequestStart \/ SvpSent \/ ExecExtOk \/ ExecExtError \/ ExecExtLost
    \/ FinishExec \/ EndStatement \/ StatementRollback \/ CleanStatement
    \/ EndTransact \/ FlipAutocommit

----------------------------------------------------------------------------
Next == Application \/ Driver
Spec == Init /\ [][Next]_vars
\* a call in progress goes on: libpq returns each result, or reports the loss
FairSpec == Spec /\ WF_vars(Driver)

----------------------------------------------------------------------------
(* Properties *)

\* The driver's own savepoint commands never destroy a SAVEPOINT of the
\* application ("Another is to invalitate manual SAVEPOINTs unexpectedly by
\* RELEASing the internal savepoint", connection.c:2797).
UserSavepointKept ==
    [][srv.st # "IDLE" /\ srv'.st # "IDLE" /\ UserSvps(srv') < UserSvps(srv) =>
          last.op \in {"release", "rollback_to"}]_vars

\* With RollbackOnError = 2 a statement that fails in a transaction that has
\* written undoes itself and nothing else: the transaction goes on with every
\* earlier write ("Statement(2): Rollback the statement.", docs/config.html:198).
StatementAtomic ==
    /\ Quiet /\ conn.alive /\ conn.mode = 2
    /\ last.failed /\ last.op \in {"write", "open"}
    /\ last.st = "INTRANS" /\ last.w > 0
    => srv.st = "INTRANS" /\ srv.w = last.w

\* With autocommit off no write of the application runs outside a transaction,
\* where a later rollback could not undo it (SC_execute, 1842-1849).
NextCmd == IF todo # << >> /\ Head(todo).t \in {"wire", "exec_ext"} /\ Head(todo).q # << >>
           THEN Head(Head(todo).q).op ELSE "none"
ManualMeansTrans ==
    NextCmd = "write" /\ conn.alive /\ ~conn.auto => srv.st # "IDLE"

\* A cursor the driver holds without doubt exists on the server, so fetching from
\* it or closing it cannot fail the transaction (CC_mark_cursors_doubtful,
\* CC_clear_cursors); and between transactions every cursor left on the server is
\* one that a statement still owns: none is forgotten until the session ends
\* (QR_close, 751-830, and the discard list).
CursorsAgree ==
    Quiet /\ conn.alive =>
       \A h \in Handles :
          /\ curs[h].open /\ ~curs[h].doubt => srv.port[h].st # "none"
          /\ srv.st = "IDLE" /\ srv.port[h].st # "none" => curs[h].open

\* Every call returns, however its queries nest.
CallsReturn == []<>Quiet
=============================================================================
