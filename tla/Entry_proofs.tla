----------------------------- MODULE Entry_proofs -----------------------------
(***************************************************************************)
(* The locks and the brackets of the entry points, for any number of       *)
(* threads, statements and calls.  What ODBC asks of an application is     *)
(* assumed: data is given by the thread that was asked for it, a statement *)
(* that asks for data is not shared, and a call is not cancelled while its *)
(* statement keeps the lock of the connection.                             *)
(***************************************************************************)
EXTENDS Entry, FiniteSetTheorems, TLAPS

Prudent ==
  /\ "other_thread" \notin Risky /\ "shared_stmt" \notin Risky
  /\ "cancel_data" \notin Risky /\ "lost_waiting" \notin Risky

--------------------
(* The inductive invariant.                                                *)

Pcs == {"idle", "enter", "table", "transact", "untable", "work", "simple", "extended", "query",
        "asked", "discard", "undone", "start", "leave"}
Calls == [pc : Pcs, shape : Shapes, s : Stmts \cup {None}, ret : {"SUCCESS", "ERROR", "NEED_DATA"},
          again : BOOLEAN, kind : Kinds]

Types ==
  /\ th \in [Threads -> Calls]
  /\ owner \in [Locks -> Threads \cup {None}] /\ depth \in Int
  /\ keeps \in [Stmts -> Threads \cup {None}] /\ awaits \in [Stmts -> Threads \cup {None}]
  /\ asked \in [Stmts -> BOOLEAN]

Inside(t) == th[t].pc \notin {"idle", "enter"}
Asks(t) == th[t].pc \in {"simple", "extended", "query", "asked"}
Closes(t) == th[t].pc \in {"discard", "undone"}
Early == {"enter", "work", "simple", "extended", "query", "asked"}

\* The statement of a call.
Subjects ==
  \A t \in Threads :
    /\ th[t].pc = "idle" => th[t].s = None
    /\ th[t].pc # "idle" /\ OfStmt(th[t].shape) => th[t].s \in Stmts
    /\ ~OfStmt(th[t].shape) => th[t].s = None
    /\ Asks(t) \/ Closes(t) \/ th[t].pc = "start" => Bracketed(t)
    /\ th[t].again => th[t].shape.rerun

\* A call that may ask for data, or cancels, has its statement to itself.
Alone(t) == th[t].shape.data \/ th[t].shape = Canceling
Apart ==
  \A t, u \in Threads : t # u /\ th[t].s = th[u].s /\ th[t].s # None => ~Alone(t)

\* A statement that awaits data is used by the thread that was asked.
Awaited ==
  /\ \A s \in Stmts, t \in Threads :
       awaits[s] # None /\ th[t].s = s => t = awaits[s] \/ th[t].shape = Canceling
  /\ \A t \in Threads : th[t].shape \in {Resuming, Putting} /\ th[t].pc \in Early =>
       awaits[th[t].s] = t
  /\ \A t \in Threads : Closes(t) /\ ~Starts(t) => awaits[th[t].s] = t

\* The locks of the environment, of the table of connections, and of the statements.
EnvLocks ==
  \A t \in Threads :
    /\ owner["env"] = t => Inside(t) /\ th[t].shape.on \in {"env", "add", "conns"}
    /\ owner["conns"] = t => th[t].pc \in {"transact", "untable"}
StmtLocks ==
  \A t \in Threads :
    /\ \A s \in Stmts : owner[s] = t => Inside(t) /\ OnStmt(t) /\ th[t].s = s
    /\ Inside(t) /\ OnStmt(t) => owner[th[t].s] = t

\* The lock of the connection: who holds it, and how often.
HoldsConn(t) == Inside(t) /\ th[t].shape.on \in {"drop", "conn"}
Holders == {t \in Threads : HoldsConn(t)}
Keepers == {s \in Stmts : keeps[s] # None}
ConnLock ==
  /\ \A t \in Holders : owner["conn"] = t
  /\ \A s \in Keepers : owner["conn"] = keeps[s]
  /\ depth = Cardinality(Holders) + Cardinality(Keepers)
  /\ owner["conn"] # None => depth > 0

\* A statement keeps the lock for the thread in its bracket, or for the one it waits for.
InBracket(t, s) == th[t].s = s /\ (Asks(t) \/ Closes(t))
Kept ==
  /\ \A s \in Stmts, t \in Threads : keeps[s] = t =>
       \/ awaits[s] = t
       \/ InBracket(t, s)
       \/ th[t].s = s /\ Bracketed(t) /\ th[t].pc = "work" /\ th[t].shape.rerun
  /\ \A s \in Stmts, t \in Threads : lost /\ keeps[s] = t =>
       th[t].s = s /\ (th[t].pc = "asked" \/ (Closes(t) /\ th[t].ret = "ERROR"))
  /\ \A t \in Threads : th[t].shape = Canceling /\ th[t].s # None =>
       awaits[th[t].s] = None \/ keeps[th[t].s] = None

IInv == Types /\ Subjects /\ Apart /\ Awaited /\ EnvLocks /\ StmtLocks /\ ConnLock /\ Kept

\* Of an application that shares no transaction among its calls: one call on a statement at
\* a time, and no call ends the transaction but one that waits for the statement's lock.
Single ==
  /\ inTrans => manual /\ ~lost
  /\ manual => \A t \in Threads : OnStmt(t) =>
       /\ \A u \in Threads : OnStmt(u) => u = t
       /\ \A r \in Stmts : awaits[r] # None => r = th[t].s
EndsTrans(u) == th[u].shape.on \in {"conn", "conns"}
Guarded ==
  /\ \A t \in Threads : th[t].pc = "transact" => th[t].shape.on = "conns"
  /\ manual => \A t, u \in Threads :
       OnStmt(t) /\ th[t].pc \notin {"start", "leave"} /\ EndsTrans(u) => keeps[th[t].s] = t

\* The database is accessed for the statement of the open bracket, which has sent an
\* ordinary statement or is about to.
AboutTo(t) == th[t].pc = "query" /\ th[t].kind = "ordinary" /\ ~inError /\ ~lost
Accounted ==
  /\ \A s \in Stmts : asked[s] =>
       inTrans /\ (keeps[s] # None \/ \E t \in Threads : th[t].s = s /\ th[t].pc = "start")
  /\ \A t \in Threads : th[t].pc = "start" => keeps[th[t].s] = None
Accessed ==
  /\ \A s \in Stmts : asked[s] => accessed
  /\ manual /\ accessed => (\E s \in Stmts : asked[s]) \/ \E t \in Threads : AboutTo(t)
  /\ manual => \A t \in Threads : AboutTo(t) => accessed /\ keeps[th[t].s] # None

EInv == IInv /\ Single /\ Guarded /\ Accounted /\ Accessed

--------------------
(* The shapes.                                                             *)

AllShapes == {Local, LocalLost, Asking, Changing, CatalogW, Catalog, RunningW, Running, Asked, Resuming, Putting,
          Closing, Dropping, OnConn, OnEnv, Adding, OnConns, Unlocked, Canceling, CatalogNone}

\* The entry points have no other shape.
LEMMA FewShapes == Shapes \subseteq AllShapes
<1> DEFINE Few(G) == \A e \in DOMAIN G : G[e] \in AllShapes
<1>1. Few(Columns) /\ Few(Connects) /\ Few(Executes) /\ Few(Infos)
  BY DEF Few, Columns, Connects, Executes, Infos, AllShapes
<1>2. Few(Prepares) /\ Few(Specials) /\ Few(Tables) /\ Few(Foreign)
  BY DEF Few, Prepares, Specials, Tables, Foreign, AllShapes
<1>3. Few(Primary) /\ Few(Procedures) /\ Few(Privileges) /\ Few(Allocs)
  BY DEF Few, Primary, Procedures, Privileges, Allocs, AllShapes
<1>4. Few(Transacts) /\ Few(Attrs) /\ Few(SetAttrs) /\ Few(ColumnsW)
  BY DEF Few, Transacts, Attrs, SetAttrs, ColumnsW, AllShapes
<1>5. Few(ConnectsW) /\ Few(ExecutesW) /\ Few(PreparesW) /\ Few(TablesW)
  BY DEF Few, ConnectsW, ExecutesW, PreparesW, TablesW, AllShapes
<1>6. Few(ForeignW) /\ Few(ProceduresW) /\ Few(PrivilegesW) /\ Few(AttrsW)
  BY DEF Few, ForeignW, ProceduresW, PrivilegesW, AttrsW, AllShapes
<1>7. Few(DescsW) /\ Few(ColAttributesW) BY DEF Few, DescsW, ColAttributesW, AllShapes
<1> HIDE DEF Few
<1>8. \A G \in Groups : Few(G) BY <1>1, <1>2, <1>3, <1>4, <1>5, <1>6, <1>7, Zenon DEF Groups
<1> SUFFICES ASSUME NEW sh \in Shapes  PROVE sh \in AllShapes OBVIOUS
<1>9. PICK G \in Groups : sh \in {G[e] : e \in DOMAIN G} BY DEF Shapes
<1> QED BY <1>8, <1>9 DEF Few

\* What a shape is made of, and what follows from a part of it.
ShapeFits(sh) ==
  /\ sh.on \in {"stmt", "drop", "conn", "env", "add", "conns", "none"}
  /\ sh.ends \in {"no", "discard", "errors"}
  /\ sh.data => sh.on = "stmt"
  /\ sh.ends = "errors" => sh = Putting
  /\ sh.check = "before" => ~sh.rerun
  /\ sh.rerun \in BOOLEAN

LEMMA ShapesFit == \A sh \in Shapes : ShapeFits(sh)
<1>1. ShapeFits(Local) /\ ShapeFits(LocalLost) /\ ShapeFits(Asking) /\ ShapeFits(Changing)
  BY DEF ShapeFits, Local, LocalLost, Asking, Changing, Shape
<1>2. ShapeFits(CatalogW) /\ ShapeFits(Catalog) /\ ShapeFits(RunningW) /\ ShapeFits(Running) /\ ShapeFits(Asked)
  BY DEF ShapeFits, Catalog, Running, Asked, RunningW, CatalogW, Asking, LocalLost, Local, Shape
<1>3. ShapeFits(Resuming) /\ ShapeFits(Putting)
  BY DEF ShapeFits, Putting, Resuming, Changing, Asking, LocalLost, Local, Shape
<1>4. ShapeFits(Closing) /\ ShapeFits(Dropping) /\ ShapeFits(OnConn) /\ ShapeFits(OnEnv) /\ ShapeFits(Adding)
  BY DEF ShapeFits, Dropping, OnConn, OnEnv, Adding, Closing, Local, Shape
<1>5. ShapeFits(OnConns) /\ ShapeFits(Unlocked) /\ ShapeFits(Canceling)
  BY DEF ShapeFits, OnConns, Canceling, Unlocked, Closing, Local, Shape
<1>6. ShapeFits(CatalogNone) BY DEF ShapeFits, CatalogNone, CatalogW, Asking, LocalLost, Local, Shape
<1>7. \A sh \in AllShapes : ShapeFits(sh) BY <1>1, <1>2, <1>3, <1>4, <1>5, <1>6, Zenon DEF AllShapes
<1> QED BY <1>7, FewShapes

\* The three shapes that belong to data being asked for.
LEMMA DataShapes ==
  /\ Resuming.on = "stmt" /\ Resuming.check = "awaited" /\ Resuming.ends = "discard"
  /\ Putting.on = "stmt" /\ Putting.check = "awaited" /\ Putting.ends = "errors"
  /\ Canceling.on = "none" /\ Unlocked.on = "none"
  /\ Unlocked \notin {Resuming, Putting} /\ Canceling \notin {Resuming, Putting} /\ Resuming # Putting
  /\ ~Unlocked.data /\ Unlocked # Canceling /\ ~Unlocked.rerun
  /\ Unlocked \in Shapes
<1>1. Resuming.on = "stmt" /\ Resuming.check = "awaited" /\ Resuming.ends = "discard"
  BY DEF Resuming, Changing, Asking, LocalLost, Local, Shape
<1>2. Putting.on = "stmt" /\ Putting.check = "awaited" /\ Putting.ends = "errors"
  BY DEF Putting, Resuming, Changing, Asking, LocalLost, Local, Shape
<1>3. Canceling.on = "none" /\ Unlocked.on = "none" /\ ~Unlocked.rerun
  BY DEF Canceling, Unlocked, Closing, Local, Shape
<1>4. ~Unlocked.data /\ ~Unlocked.lost /\ Canceling.lost BY DEF Canceling, Unlocked, Closing, Local, Shape
<1>5. Unlocked \in Shapes
  <2>1. Connects \in Groups BY Zenon DEF Groups
  <2>2. Unlocked \in {Connects[e] : e \in DOMAIN Connects} BY DEF Connects
  <2> QED BY <2>1, <2>2 DEF Shapes
<1> QED BY <1>1, <1>2, <1>3, <1>4, <1>5

--------------------
(* How the call of a thread moves on.                                      *)

Moves(t, pc, ret) ==
  /\ th' \in [Threads -> Calls]
  /\ th'[t].pc = pc /\ th'[t].ret = ret /\ th'[t].shape = th[t].shape /\ th'[t].s = th[t].s
  /\ th'[t].again => th[t].again
  /\ \A u \in Threads : u # t => th'[u] = th[u]

Rests(t) ==
  /\ th' \in [Threads -> Calls]
  /\ th'[t] = Idle
  /\ \A u \in Threads : u # t => th'[u] = th[u]

LEMMA IdleFields ==
  /\ Idle \in Calls /\ Idle.pc = "idle" /\ Idle.s = None /\ Idle.shape = Unlocked /\ ~Idle.again
BY DataShapes DEF Idle, Calls, Pcs, Kinds

LEMMA Going ==
  ASSUME Types, NEW t \in Threads, NEW pc \in Pcs, Goes(t, pc)
  PROVE  Moves(t, pc, th[t].ret)
BY DEF Types, Goes, Moves, Calls

LEMMA Ending ==
  ASSUME Types, NEW t \in Threads, NEW ret \in {"SUCCESS", "ERROR", "NEED_DATA"}, Ends(t, ret)
  PROVE  Moves(t, IF Bracketed(t) THEN "discard" ELSE "leave", ret)
<1>1. /\ "discard" \in Pcs /\ "leave" \in Pcs BY DEF Pcs
<1>2. /\ th \in [Threads -> Calls]
      /\ th' = [th EXCEPT ![t].ret = ret, ![t].pc = IF Bracketed(t) THEN "discard" ELSE "leave"]
  BY DEF Types, Ends
<1> DEFINE p == IF Bracketed(t) THEN "discard" ELSE "leave"
<1>3. p \in Pcs BY <1>1
<1> HIDE DEF p
<1>4. th' = [th EXCEPT ![t].ret = ret, ![t].pc = p] BY <1>2 DEF p
<1>5. /\ th'[t] = [th[t] EXCEPT !.ret = ret, !.pc = p]
      /\ \A u \in Threads : u # t => th'[u] = th[u]
      /\ DOMAIN th' = Threads /\ th[t] \in Calls
  BY <1>2, <1>4
<1>6. [th[t] EXCEPT !.ret = ret, !.pc = p] \in Calls BY <1>3, <1>5 DEF Calls
<1>7. th' \in [Threads -> Calls] BY <1>2, <1>4, <1>5, <1>6
<1>8. /\ th'[t].pc = p /\ th'[t].ret = ret /\ th'[t].shape = th[t].shape /\ th'[t].s = th[t].s
      /\ th'[t].again = th[t].again
  BY <1>5 DEF Calls
<1>9. Moves(t, p, ret) BY <1>5, <1>7, <1>8 DEF Moves
<1> QED BY <1>9 DEF p

LEMMA Resting ==
  ASSUME Types, NEW t \in Threads, th' = [th EXCEPT ![t] = Idle]
  PROVE  Rests(t)
BY IdleFields DEF Types, Rests

\* The steps that set the kind of the statement that is sent.
LEMMA Sending ==
  ASSUME Types, NEW t \in Threads, NEW pc \in Pcs, NEW kind \in Kinds,
         th' = [th EXCEPT ![t].kind = kind, ![t].pc = pc]
  PROVE  Moves(t, pc, th[t].ret) /\ th'[t].kind = kind
BY DEF Types, Moves, Calls

Rets == {"SUCCESS", "ERROR", "NEED_DATA"}

LEMMA Works == {"table", "transact", "untable", "work", "simple", "extended", "query", "asked", "discard", "undone", "start", "leave"}
                 \subseteq Pcs \ {"idle", "enter"} /\ "ordinary" \in Kinds
BY DEF Pcs, Kinds

LEMMA SendsMoves ==
  ASSUME Types, NEW t \in Threads
  PROVE  /\ Sends(t) => \E how \in {"simple", "extended"} : Moves(t, how, th[t].ret)
         /\ CC_send_query(t) => Moves(t, "asked", th[t].ret) /\ th'[t].kind = "ordinary"
BY Sending, Works DEF Sends, CC_send_query

\* Where a step takes the call of its thread.
LEMMA Steps ==
  ASSUME Types, NEW t \in Threads, Step(t)
  PROVE  Rests(t) \/ \E pc \in Pcs \ {"idle", "enter"}, ret \in Rets : Moves(t, pc, ret)
<1> DEFINE G == \E pc \in Pcs \ {"idle", "enter"}, ret \in Rets : Moves(t, pc, ret)
<1> SUFFICES Rests(t) \/ G OBVIOUS
<1>1. th[t].ret \in Rets BY DEF Types, Calls, Rets
<1>2. ASSUME NEW pc \in Pcs \ {"idle", "enter"}, Goes(t, pc)  PROVE G BY <1>1, <1>2, Going
<1>3. ASSUME NEW ret \in Rets, Ends(t, ret)  PROVE G
  <2>1. Moves(t, IF Bracketed(t) THEN "discard" ELSE "leave", ret) BY <1>3, Ending DEF Rets
  <2> QED BY <2>1, Works
<1>4. ASSUME NEW pc \in Pcs \ {"idle", "enter"}, NEW ret \in Rets,
             th' = [th EXCEPT ![t].ret = ret, ![t].pc = pc]
      PROVE  G
  <2>1. th \in [Threads -> Calls] BY DEF Types
  <2>2. /\ th'[t] = [th[t] EXCEPT !.ret = ret, !.pc = pc] /\ DOMAIN th' = Threads
        /\ \A u \in Threads : u # t => th'[u] = th[u]
    BY <1>4, <2>1
  <2>3. [th[t] EXCEPT !.ret = ret, !.pc = pc] \in Calls BY <1>4, <2>1 DEF Calls, Rets
  <2>4. th' \in [Threads -> Calls] BY <1>4, <2>1, <2>2, <2>3
  <2>5. /\ th'[t].pc = pc /\ th'[t].ret = ret /\ th'[t].shape = th[t].shape /\ th'[t].s = th[t].s
        /\ th'[t].again = th[t].again
    BY <2>1, <2>2 DEF Calls
  <2> QED BY <1>4, <2>2, <2>4, <2>5 DEF Moves
<1> HIDE DEF G
<1>5. CASE Refused(t) \/ Leave(t) BY <1>5, Resting DEF Refused, Leave
<1>6. CASE Enter(t)
  <2>1. /\ Goes(t, IF th[t].shape.on \in {"add", "conns"} THEN "table" ELSE "work")
        /\ (IF th[t].shape.on \in {"add", "conns"} THEN "table" ELSE "work") \in Pcs \ {"idle", "enter"}
    BY <1>6, Works DEF Enter
  <2> QED BY <1>2, <2>1
<1>7. CASE PGAPI_Cancel(t) \/ TransactNone(t) \/ Untable(t) \/ SetStatementSvp(t)
           \/ Undo(t) \/ CC_start_stmt(t)
  BY <1>2, <1>7, Works DEF PGAPI_Cancel, TransactNone, Untable, SetStatementSvp, Undo, CC_start_stmt
<1>8. CASE Opened(t) BY <1>4, <1>8, Works DEF Opened, Rets
<1>9. CASE \E ret \in Rets : WorkHere(t, ret) \/ Answered(t, ret) BY <1>3, <1>9 DEF WorkHere, Answered
<1>10. CASE EnterConns(t)
  <2> DEFINE p == IF th[t].shape.on = "conns" /\ manual /\ inTrans THEN "transact" ELSE "untable"
  <2>1. Goes(t, p) BY <1>10 DEF EnterConns
  <2>2. p \in Pcs \ {"idle", "enter"} BY Works
  <2> QED BY <1>2, <2>1, <2>2
<1>11. CASE Transact(t)
  <2> DEFINE p == IF th[t].pc = "transact" THEN "untable" ELSE "leave"
  <2>1. PICK ret \in {"SUCCESS", "ERROR"} : th' = [th EXCEPT ![t].ret = ret, ![t].pc = p]
    BY <1>11 DEF Transact, Types, Calls
  <2>2. p \in Pcs \ {"idle", "enter"} /\ ret \in Rets BY Works DEF Rets
  <2> HIDE DEF p
  <2> QED BY <1>4, <2>1, <2>2
<1>12. CASE Repeat(t)
  <2>1. th' = [th EXCEPT ![t].again = FALSE, ![t].pc = "work"] BY <1>12 DEF Repeat
  <2>2. th \in [Threads -> Calls] /\ "work" \in Pcs BY Works DEF Types
  <2>3. /\ th'[t] = [th[t] EXCEPT !.again = FALSE, !.pc = "work"] /\ DOMAIN th' = Threads
        /\ \A u \in Threads : u # t => th'[u] = th[u]
    BY <2>1, <2>2
  <2>4. [th[t] EXCEPT !.again = FALSE, !.pc = "work"] \in Calls BY <2>2 DEF Calls
  <2>5. th' \in [Threads -> Calls] BY <2>1, <2>2, <2>3, <2>4
  <2>6. /\ th'[t].pc = "work" /\ th'[t].ret = th[t].ret /\ th'[t].shape = th[t].shape /\ th'[t].s = th[t].s
        /\ th'[t].again = FALSE
    BY <2>2, <2>3 DEF Calls
  <2>7. Moves(t, "work", th[t].ret) BY <2>3, <2>5, <2>6 DEF Moves
  <2> QED BY <1>1, <2>7, Works DEF G
<1>13. CASE Discard(t) BY <1>2, <1>13, Works DEF Discard
<1>14. CASE Sends(t) \/ CC_send_query(t) BY <1>1, <1>14, SendsMoves, Works DEF G
<1> QED BY <1>5, <1>6, <1>7, <1>8, <1>9, <1>10, <1>11, <1>12, <1>13, <1>14 DEF Step, Rets

Opens == {"simple", "extended", "query", "asked", "discard", "undone", "start"}

\* A bracket is closed only where one was opened.
LEMMA Arriving ==
  ASSUME Types, NEW t \in Threads, Step(t), th'[t].pc \in Opens
  PROVE  Bracketed(t) \/ Asks(t) \/ Closes(t)
<1>1. ASSUME NEW pc \in Pcs, Goes(t, pc), pc \notin Opens  PROVE FALSE BY <1>1, Going DEF Moves
<1>3. CASE Refused(t) \/ Leave(t) BY <1>3, Resting, IdleFields DEF Refused, Leave, Rests, Opens
<1>4. CASE Enter(t)
  <2>1. Goes(t, "table") \/ Goes(t, "work") BY <1>4 DEF Enter
  <2> QED BY <1>1, <2>1, Works DEF Opens
<1>5. CASE PGAPI_Cancel(t) \/ TransactNone(t) \/ Untable(t)
  BY <1>1, <1>5, Works DEF PGAPI_Cancel, TransactNone, Untable, Opens
<1>6. CASE Sends(t) \/ SetStatementSvp(t) \/ CC_send_query(t) \/ Undo(t) \/ Discard(t)
  BY <1>6 DEF Sends, SetStatementSvp, CC_send_query, Undo, Discard, Asks, Closes
<1>7. CASE CC_start_stmt(t) BY <1>1, <1>7, Works DEF CC_start_stmt, Opens
<1>8. CASE Opened(t) BY <1>8 DEF Opened, Types, Calls, Opens
<1>9. CASE \E ret \in Rets : WorkHere(t, ret) \/ Answered(t, ret)
  <2>1. PICK ret \in Rets : Ends(t, ret) BY <1>9 DEF WorkHere, Answered
  <2>2. Moves(t, IF Bracketed(t) THEN "discard" ELSE "leave", ret) BY <2>1, Ending DEF Rets
  <2> QED BY <2>2 DEF Moves, Opens
<1>10. CASE EnterConns(t)
  <2>1. Goes(t, "transact") \/ Goes(t, "untable") BY <1>10 DEF EnterConns
  <2> QED BY <1>1, <2>1, Works DEF Opens
<1>11. CASE Transact(t) BY <1>11 DEF Transact, Types, Calls, Opens
<1>12. CASE Repeat(t) BY <1>12 DEF Sends, Repeat, Types, Calls
<1> QED BY <1>3, <1>4, <1>5, <1>6, <1>7, <1>8, <1>9, <1>10, <1>11, <1>12 DEF Step, Rets

LEMMA SubjectsStep ==
  ASSUME IInv, NEW t \in Threads, Step(t)
  PROVE  Subjects'
<1>1. Types /\ Subjects BY DEF IInv
<1>2. \A u \in Threads : u # t => th'[u] = th[u] BY <1>1, Steps DEF Rests, Moves
<1>3. th'[t] = Idle \/ (th'[t].shape = th[t].shape /\ th'[t].s = th[t].s /\ (th'[t].again => th[t].again))
  BY <1>1, Steps DEF Rests, Moves
<1>4. th[t].pc # "idle"
  BY DEF Step, Refused, Enter, PGAPI_Cancel, Opened, WorkHere, Answered, EnterConns, Transact, TransactNone,
    Untable, SetStatementSvp, CC_send_query, Sends, Repeat, Undo, Discard, CC_start_stmt, Leave
<1>5. th'[t].pc = "idle" => th'[t] = Idle BY <1>1, Steps DEF Rests, Moves
<1>6. th'[t].pc \in Opens => Bracketed(t) BY <1>1, Arriving DEF Subjects, Asks, Closes
<1>7. ASSUME NEW u \in Threads
      PROVE  /\ th'[u].pc = "idle" => th'[u].s = None
             /\ th'[u].pc # "idle" /\ OfStmt(th'[u].shape) => th'[u].s \in Stmts
             /\ ~OfStmt(th'[u].shape) => th'[u].s = None
             /\ th'[u].again => th'[u].shape.rerun
  BY <1>1, <1>2, <1>3, <1>4, <1>5, IdleFields DEF Subjects
<1>8. ASSUME NEW u \in Threads, th'[u].pc \in Opens
      PROVE  Bracketed(u)'
  BY <1>1, <1>2, <1>3, <1>6, <1>8, IdleFields DEF Subjects, Bracketed, OnStmt, Asks, Closes, Opens
<1> QED BY <1>7, <1>8 DEF Subjects, Asks, Closes, Opens

LEMMA ApartStep ==
  ASSUME IInv, NEW t \in Threads, Step(t)
  PROVE  Apart'
<1>1. Types /\ Apart BY DEF IInv
<1>2. \A u \in Threads : th'[u].s # None => th'[u].s = th[u].s /\ th'[u].shape = th[u].shape
  BY <1>1, Steps, IdleFields DEF Rests, Moves
<1> QED BY <1>1, <1>2 DEF Apart, Alone

\* A new call.
Begins(t, shape, s) ==
  /\ th' \in [Threads -> Calls]
  /\ th'[t].pc = "enter" /\ th'[t].shape = shape
  /\ th'[t].s = IF OfStmt(shape) THEN s ELSE None
  /\ th'[t].again => shape.rerun
  /\ \A u \in Threads : u # t => th'[u] = th[u]
  /\ th[t].pc = "idle" /\ th[t].s = None

LEMMA Beginning ==
  ASSUME Types, Subjects, NEW t \in Threads, NEW shape \in Shapes, NEW s \in Stmts, Call(t, shape, s)
  PROVE  Begins(t, shape, s)
<1> DEFINE of == IF OfStmt(shape) THEN s ELSE None
           new == [Idle EXCEPT !.pc = "enter", !.shape = shape, !.again = shape.rerun, !.s = of]
<1>1. th' = [th EXCEPT ![t] = new] /\ th \in [Threads -> Calls] /\ th[t].pc = "idle" /\ th[t].s = None
  BY DEF Call, Types, Subjects
<1>2. of \in Stmts \cup {None} /\ shape.rerun \in BOOLEAN /\ "enter" \in Pcs
  BY ShapesFit DEF ShapeFits, Pcs
<1> HIDE DEF of
<1>3. new.pc = "enter" /\ new.shape = shape /\ new.s = of /\ new.again = shape.rerun BY DEF Idle
<1>4. new \in Calls BY <1>2 DEF Idle, Calls, Kinds
<1> HIDE DEF new
<1>5. th' \in [Threads -> Calls] /\ th'[t] = new /\ \A u \in Threads : u # t => th'[u] = th[u]
  BY <1>1, <1>4
<1>6. th'[t].again => shape.rerun BY <1>3, <1>5
<1> QED BY <1>1, <1>3, <1>5, <1>6 DEF Begins, of

LEMMA SubjectsCall ==
  ASSUME IInv, NEW t \in Threads, NEW shape \in Shapes, NEW s \in Stmts, Call(t, shape, s)
  PROVE  Subjects'
<1>1. Subjects /\ Begins(t, shape, s) BY Beginning DEF IInv
<1>2. None \notin Stmts BY SetsAssumption
<1> QED BY <1>1, <1>2 DEF Subjects, Begins, Asks, Closes, Bracketed, OnStmt

LEMMA ApartCall ==
  ASSUME IInv, Prudent, NEW t \in Threads, NEW shape \in Shapes, NEW s \in Stmts, Call(t, shape, s)
  PROVE  Apart'
<1>1. Apart /\ Begins(t, shape, s) BY Beginning DEF IInv
<1>2. \A u \in Threads : th[u].s = s => ~shape.data /\ ~th[u].shape.data BY DEF Call, MayCall, Prudent
<1>3. \A u \in Threads : th[u].s = s => shape # Canceling /\ th[u].shape # Canceling
  BY DEF Call, MayCall, Prudent
<1>4. ASSUME NEW u \in Threads, u # t, th'[u].s = th'[t].s, th'[t].s # None
      PROVE  ~Alone(t)' /\ ~Alone(u)'
  <2>1. th[u].s = s /\ th'[u].shape = th[u].shape /\ th'[t].shape = shape BY <1>1, <1>4 DEF Begins
  <2> QED BY <1>2, <1>3, <2>1, <1>4 DEF Alone
<1>5. ASSUME NEW u \in Threads, NEW w \in Threads, u # w, th'[u].s = th'[w].s, th'[u].s # None, u # t, w # t
      PROVE  ~Alone(u)'
  BY <1>1, <1>5 DEF Apart, Begins, Alone
<1> QED BY <1>4, <1>5 DEF Apart

--------------------
(* Taking a lock and letting it go.                                        *)

LEMMA Acquiring ==
  ASSUME Types, NEW t \in Threads, NEW l \in Locks, Acquire(t, l)
  PROVE  /\ owner' \in [Locks -> Threads \cup {None}] /\ depth' \in Int
         /\ owner'[l] = t /\ \A k \in Locks : k # l => owner'[k] = owner[k]
         /\ depth' = IF l = "conn" THEN depth + 1 ELSE depth
BY DEF Types, Acquire

LEMMA Releasing ==
  ASSUME Types, NEW l \in Locks, Release(l)
  PROVE  /\ owner' \in [Locks -> Threads \cup {None}] /\ depth' \in Int
         /\ \A k \in Locks : k # l => owner'[k] = owner[k]
         /\ depth' = IF l = "conn" THEN depth - 1 ELSE depth
         /\ owner'[l] = IF l = "conn" /\ depth > 1 THEN owner[l] ELSE None
BY DEF Types, Release

LEMMA LockNames ==
  /\ "env" \in Locks /\ "conns" \in Locks /\ "conn" \in Locks /\ Stmts \subseteq Locks
  /\ "env" \notin Stmts /\ "conns" \notin Stmts /\ "conn" \notin Stmts
  /\ None \notin Stmts /\ None \notin Threads
BY SetsAssumption, LocksAssumption DEF Locks

LEMMA LockOfCall ==
  ASSUME Subjects, NEW t \in Threads, th[t].pc # "idle"
  PROVE  /\ LockOf(t) \in Locks
         /\ OnStmt(t) => LockOf(t) = th[t].s /\ th[t].s \in Stmts
         /\ th[t].shape.on \in {"drop", "conn"} => LockOf(t) = "conn"
         /\ th[t].shape.on \in {"env", "add", "conns"} => LockOf(t) = "env"
BY LockNames DEF Subjects, LockOf, OnStmt, OfStmt

\* Only these steps take or let go of a lock.
Locking(t) ==
  Enter(t) \/ EnterConns(t) \/ Untable(t) \/ SetStatementSvp(t) \/ Discard(t) \/ Leave(t)

LEMMA Unlocking ==
  ASSUME NEW t \in Threads, Step(t)
  PROVE  UNCHANGED <<owner, depth>> \/ Locking(t)
BY Zenon DEF Step, Locking, Refused, PGAPI_Cancel, Opened, WorkHere, Answered, Transact, TransactNone,
  CC_send_query, Sends, Repeat, Undo, CC_start_stmt

\* A call is inside from the first lock to the last.
LEMMA Staying ==
  ASSUME Types, NEW t \in Threads, Step(t), ~Enter(t), ~Leave(t)
  PROVE  \/ Inside(t) /\ Inside(t)' /\ th'[t].shape = th[t].shape /\ th'[t].s = th[t].s
         \/ th[t].pc = "enter" /\ th'[t] = Idle /\ Refused(t)
<1>1. CASE Refused(t) BY <1>1, Resting DEF Refused, Rests
<1>2. CASE ~Refused(t)
  <2>1. Inside(t)
    BY <1>2 DEF Step, Inside, PGAPI_Cancel, Opened, WorkHere, Answered, EnterConns, Transact, TransactNone,
      Untable, SetStatementSvp, CC_send_query, Sends, Repeat, Undo, Discard, CC_start_stmt
  <2>2. th'[t].pc # "idle"
    <3>1. CASE \E pc \in Pcs \ {"idle"} : Goes(t, pc) BY <3>1, Going, IdleFields DEF Moves, Rests, Types
    <3>2. CASE \E ret \in Rets : Ends(t, ret) BY <3>2, Ending, IdleFields DEF Moves, Rets, Types
    <3>3. CASE Opened(t) \/ Transact(t) \/ Repeat(t)
      BY <3>3, IdleFields DEF Opened, Transact, Repeat, Types, Calls
    <3>4. CASE Sends(t) \/ CC_send_query(t) BY <3>4, SendsMoves DEF Moves
    <3> QED
      BY <1>2, <3>4, <3>1, <3>2, <3>3, Works DEF Step, PGAPI_Cancel, WorkHere, Answered, EnterConns,
        TransactNone, Untable, SetStatementSvp, Undo, Discard, CC_start_stmt, Rets
  <2> QED BY <2>1, <2>2, Steps, IdleFields DEF Rests, Moves, Inside
<1> QED BY <1>1, <1>2

\* What each locking step does to the locks.
LEMMA LocksOfSteps ==
  ASSUME Types, Subjects, NEW t \in Threads
  PROVE  /\ Enter(t) => \/ UNCHANGED <<owner, depth>> /\ th[t].shape.on = "none"
                        \/ /\ th[t].shape.on # "none" /\ LockOf(t) \in Locks
                           /\ Free(t, LockOf(t)) /\ Acquire(t, LockOf(t))
         /\ EnterConns(t) => owner["conns"] = None /\ Acquire(t, "conns")
         /\ Untable(t) => Release("conns")
         /\ SetStatementSvp(t) => \/ UNCHANGED <<owner, depth, keeps>>
                                  \/ /\ keeps[th[t].s] = None /\ Free(t, "conn") /\ Acquire(t, "conn")
                                     /\ keeps' = [keeps EXCEPT ![th[t].s] = t]
         /\ Discard(t) => \/ UNCHANGED <<owner, depth, keeps>> /\ (Starts(t) => keeps[th[t].s] = None)
                          \/ /\ Starts(t) /\ keeps[th[t].s] # None /\ Release("conn")
                             /\ keeps' = [keeps EXCEPT ![th[t].s] = None]
         /\ Leave(t) => \/ UNCHANGED <<owner, depth>> /\ th[t].shape.on = "none"
                        \/ th[t].shape.on # "none" /\ LockOf(t) \in Locks /\ Release(LockOf(t))
<1>1. th[t].pc # "idle" => LockOf(t) \in Locks BY LockOfCall
<1>2. Enter(t) => \/ UNCHANGED <<owner, depth>> /\ th[t].shape.on = "none"
                  \/ th[t].shape.on # "none" /\ LockOf(t) \in Locks /\ Free(t, LockOf(t)) /\ Acquire(t, LockOf(t))
  BY <1>1 DEF Enter
<1>3. Leave(t) => \/ UNCHANGED <<owner, depth>> /\ th[t].shape.on = "none"
                  \/ th[t].shape.on # "none" /\ LockOf(t) \in Locks /\ Release(LockOf(t))
  BY <1>1 DEF Leave
<1>4. SetStatementSvp(t) => \/ UNCHANGED <<owner, depth, keeps>>
                            \/ /\ keeps[th[t].s] = None /\ Free(t, "conn") /\ Acquire(t, "conn")
                               /\ keeps' = [keeps EXCEPT ![th[t].s] = t]
  BY DEF SetStatementSvp
<1>5. Discard(t) => \/ UNCHANGED <<owner, depth, keeps>> /\ (Starts(t) => keeps[th[t].s] = None)
                    \/ /\ Starts(t) /\ keeps[th[t].s] # None /\ Release("conn")
                       /\ keeps' = [keeps EXCEPT ![th[t].s] = None]
  BY DEF Discard, LetGo
<1>6. /\ EnterConns(t) => owner["conns"] = None /\ Acquire(t, "conns")
      /\ Untable(t) => Release("conns")
  BY DEF EnterConns, Untable, LeaveConns
<1> QED BY <1>2, <1>3, <1>4, <1>5, <1>6

\* Only these steps touch the bracket of a statement.
LEMMA BracketsOfSteps ==
  ASSUME Types, NEW t \in Threads, Step(t)
  PROVE  /\ keeps' = keeps \/ SetStatementSvp(t) \/ Discard(t)
         /\ \/ awaits' = awaits
            \/ Refused(t)
            \/ PGAPI_Cancel(t)
            \/ \E ret \in Rets : WorkHere(t, ret) \/ Answered(t, ret)
         /\ \/ asked' = asked
            \/ CC_send_query(t) /\ asked' = [asked EXCEPT ![th[t].s] = TRUE]
            \/ CC_start_stmt(t) /\ asked' = [asked EXCEPT ![th[t].s] = FALSE]
            \/ (Transact(t) \/ CC_send_query(t) \/ Undo(t)) /\ asked' = [s \in Stmts |-> FALSE]
<1>1. keeps' = keeps \/ SetStatementSvp(t) \/ Discard(t)
  BY Zenon DEF Step, Refused, Enter, PGAPI_Cancel, Opened, WorkHere, Answered, EnterConns, Transact,
    TransactNone, Untable, CC_send_query, Sends, Repeat, Undo, CC_start_stmt, Leave, brackets
<1>2. \/ awaits' = awaits
      \/ Refused(t)
      \/ PGAPI_Cancel(t)
      \/ \E ret \in Rets : WorkHere(t, ret) \/ Answered(t, ret)
  BY Zenon DEF Step, Enter, Opened, EnterConns, Transact, TransactNone, Untable, SetStatementSvp,
    CC_send_query, Sends, Repeat, Undo, Discard, CC_start_stmt, Leave, brackets, Rets
<1>3. asked' = asked \/ CC_send_query(t) \/ CC_start_stmt(t) \/ Transact(t) \/ Undo(t)
  BY Zenon DEF Step, Refused, Enter, PGAPI_Cancel, Opened, WorkHere, Answered, EnterConns, TransactNone,
    Untable, Sends, SetStatementSvp, Repeat, Discard, Leave, brackets
<1>4. CC_send_query(t) => \/ asked' = asked
                          \/ asked' = [asked EXCEPT ![th[t].s] = TRUE]
                          \/ asked' = [s \in Stmts |-> FALSE]
  BY Zenon DEF CC_send_query, Loses, Served, TransEnds
<1>5. CC_start_stmt(t) => asked' = [asked EXCEPT ![th[t].s] = FALSE] BY Zenon DEF CC_start_stmt
<1>6. Transact(t) => asked' = [s \in Stmts |-> FALSE] BY Zenon DEF Transact, TransEnds
<1>7. Undo(t) => asked' = asked \/ asked' = [s \in Stmts |-> FALSE] BY Zenon DEF Undo, Loses, TransEnds
<1> QED BY <1>1, <1>2, <1>3, <1>4, <1>5, <1>6, <1>7, Zenon

LEMMA TypesStep ==
  ASSUME Types, Subjects, NEW t \in Threads, Step(t)
  PROVE  Types'
<1>1. th' \in [Threads -> Calls] BY Steps DEF Rests, Moves
<1>2. owner' \in [Locks -> Threads \cup {None}] /\ depth' \in Int
  BY Unlocking, LocksOfSteps, Acquiring, Releasing, LockNames DEF Locking, Types
<1>3. keeps' \in [Stmts -> Threads \cup {None}]
  <2>1. SetStatementSvp(t) => keeps' = keeps \/ keeps' = [keeps EXCEPT ![th[t].s] = t] BY LocksOfSteps
  <2>2. Discard(t) => keeps' = keeps \/ keeps' = [keeps EXCEPT ![th[t].s] = None] BY LocksOfSteps
  <2> QED BY <2>1, <2>2, BracketsOfSteps DEF Types
<1>4. awaits' \in [Stmts -> Threads \cup {None}]
  <2>1. ASSUME NEW ret \in Rets, Ends(t, ret)  PROVE awaits' \in [Stmts -> Threads \cup {None}]
    <3>1. awaits' = awaits \/ (Bracketed(t) /\ awaits' = [awaits EXCEPT ![th[t].s] = Waits(t, ret)])
      BY <2>1 DEF Ends
    <3>2. Bracketed(t) /\ th[t].pc # "idle" => th[t].s \in Stmts
      BY DEF Subjects, Bracketed, OnStmt, OfStmt
    <3>3. th[t].s \in Stmts => Waits(t, ret) \in Threads \cup {None} BY DEF Waits, Types
    <3> QED BY <3>1, <3>2, <3>3 DEF Types
  <2>2. Refused(t) => awaits' \in [Stmts -> Threads \cup {None}]
    <3>1. Refused(t) => awaits' = awaits \/ awaits' = [awaits EXCEPT ![th[t].s] = None]
      BY DEF Refused, Types
    <3> QED BY <3>1 DEF Types
  <2>3. PGAPI_Cancel(t) => awaits' \in [Stmts -> Threads \cup {None}] BY DEF PGAPI_Cancel, Types
  <2> QED BY <2>1, <2>2, <2>3, BracketsOfSteps DEF Types, WorkHere, Answered
<1>5. asked' \in [Stmts -> BOOLEAN]
  <2>1. asked \in [Stmts -> BOOLEAN] /\ TRUE \in BOOLEAN /\ FALSE \in BOOLEAN BY Zenon DEF Types
  <2> HIDE DEF Types
  <2>2. ASSUME NEW x, NEW b \in BOOLEAN  PROVE [asked EXCEPT ![x] = b] \in [Stmts -> BOOLEAN] BY <2>1
  <2>3. [s \in Stmts |-> FALSE] \in [Stmts -> BOOLEAN] OBVIOUS
  <2> QED BY <2>1, <2>2, <2>3, BracketsOfSteps, Zenon
<1> QED BY <1>1, <1>2, <1>3, <1>4, <1>5, Zenon DEF Types

--------------------
(* The locks of the environment, the table and the statements.             *)

\* A step of another thread, or one that leaves these locks alone.
LEMMA EnvLocksStep ==
  ASSUME IInv, NEW t \in Threads, Step(t)
  PROVE  EnvLocks'
<1>1. Types /\ Subjects /\ EnvLocks BY DEF IInv
<1>2. \A u \in Threads : u # t => th'[u] = th[u] BY <1>1, Steps DEF Rests, Moves
<1> DEFINE Env(u) == owner'["env"] = u => Inside(u)' /\ th'[u].shape.on \in {"env", "add", "conns"}
           Table(u) == owner'["conns"] = u => th'[u].pc \in {"transact", "untable"}
<1> SUFFICES \A u \in Threads : Env(u) /\ Table(u) BY DEF EnvLocks
<1>3. ASSUME owner'["env"] = owner["env"] \/ owner'["env"] = None, ~Enter(t), ~Leave(t)
      PROVE  \A u \in Threads : Env(u)
  BY <1>1, <1>2, <1>3, Staying, LockNames DEF EnvLocks, Inside
<1>4. ASSUME owner'["conns"] = owner["conns"] \/ owner'["conns"] = None, th[t].pc \notin {"transact", "untable"}
      PROVE  \A u \in Threads : Table(u)
  BY <1>1, <1>2, <1>4, LockNames DEF EnvLocks
<1> HIDE DEF Env, Table
<1>5. CASE Enter(t)
  <2>1. Moves(t, "table", th[t].ret) \/ Moves(t, "work", th[t].ret) BY <1>1, <1>5, Going, Works DEF Enter
  <2>2. Inside(t)' /\ th'[t].shape = th[t].shape BY <2>1 DEF Moves, Inside
  <2>3. th[t].pc = "enter" BY <1>5 DEF Enter
  <2>4. owner'["conns"] = owner["conns"]
    BY <1>1, <1>5, <2>3, LocksOfSteps, LockOfCall, Acquiring, LockNames DEF Types, LockOf, Subjects, OnStmt,
      OfStmt
  <2>5. owner'["env"] = owner["env"] \/ (owner'["env"] = t /\ LockOf(t) = "env" /\ th[t].shape.on # "none")
    BY <1>1, <1>5, LocksOfSteps, Acquiring, LockNames
  <2>6. LockOf(t) = "env" /\ th[t].shape.on # "none" => th[t].shape.on \in {"env", "add", "conns"}
    <3>1. th[t].shape.on \in {"stmt", "drop", "conn", "env", "add", "conns", "none"}
      BY <1>1, ShapesFit DEF Types, Calls, ShapeFits
    <3> QED BY <1>1, <2>3, <3>1, LockOfCall, LockNames DEF OnStmt
  <2>7. \A u \in Threads : Env(u)
    BY <1>1, <1>2, <2>2, <2>3, <2>5, <2>6, LockNames DEF EnvLocks, Env, Inside
  <2> QED BY <1>4, <2>3, <2>4, <2>7
<1>6. CASE EnterConns(t)
  <2>1. Moves(t, "transact", th[t].ret) \/ Moves(t, "untable", th[t].ret)
    BY <1>1, <1>6, Going, Works DEF EnterConns
  <2>2. owner'["conns"] = t /\ owner'["env"] = owner["env"]
    BY <1>1, <1>6, LocksOfSteps, Acquiring, LockNames
  <2>3. ~Enter(t) /\ ~Leave(t) BY <1>6 DEF EnterConns, Enter, Leave
  <2>4. \A u \in Threads : Table(u) BY <2>1, <2>2 DEF Table, Moves
  <2> QED BY <1>3, <2>2, <2>3, <2>4
<1>7. CASE Untable(t)
  <2>1. owner'["conns"] = None /\ owner'["env"] = owner["env"]
    BY <1>1, <1>7, LocksOfSteps, Releasing, LockNames
  <2>2. ~Enter(t) /\ ~Leave(t) BY <1>7 DEF Untable, Enter, Leave
  <2>3. \A u \in Threads : Table(u) BY <2>1, LockNames DEF Table
  <2> QED BY <1>3, <2>1, <2>2, <2>3
<1>8. CASE SetStatementSvp(t) \/ Discard(t)
  <2>1. owner'["conns"] = owner["conns"] /\ owner'["env"] = owner["env"]
    BY <1>1, <1>8, LocksOfSteps, Acquiring, Releasing, LockNames
  <2>2. ~Enter(t) /\ ~Leave(t) /\ th[t].pc \notin {"transact", "untable"}
    BY <1>8 DEF SetStatementSvp, Discard, Enter, Leave
  <2> QED BY <1>3, <1>4, <2>1, <2>2
<1>9. CASE Leave(t)
  <2>1. th[t].pc = "leave" /\ th'[t] = Idle BY <1>1, <1>9, Resting DEF Leave, Rests
  <2>2. owner'["conns"] = owner["conns"] \/ owner'["conns"] = None
    BY <1>1, <1>9, LocksOfSteps, Releasing, LockNames
  <2>3. owner'["env"] = owner["env"] \/ owner'["env"] = None
    BY <1>1, <1>9, LocksOfSteps, Releasing, LockNames
  <2>4. owner'["env"] # t
    <3>1. CASE owner["env"] = t
      <4>1. th[t].shape.on \in {"env", "add", "conns"} BY <1>1, <3>1 DEF EnvLocks
      <4>2. LockOf(t) = "env" /\ th[t].shape.on # "none" BY <1>1, <2>1, <4>1, LockOfCall
      <4> QED BY <1>1, <1>9, <4>2, LocksOfSteps, Releasing, LockNames
    <3>2. CASE owner["env"] # t BY <2>3, <3>2, LockNames
    <3> QED BY <3>1, <3>2
  <2>5. \A u \in Threads : Env(u) BY <1>1, <1>2, <2>3, <2>4, LockNames DEF EnvLocks, Env, Inside
  <2> QED BY <1>4, <2>1, <2>2, <2>5
<1>10. CASE UNCHANGED owner /\ ~Locking(t)
  <2>1. ~Enter(t) /\ ~Leave(t) BY <1>10 DEF Locking
  <2>2. ASSUME th[t].pc \in {"transact", "untable"}  PROVE th'[t].pc \in {"transact", "untable"}
    <3>1. Transact(t) \/ TransactNone(t)
      BY <1>10, <2>2 DEF Step, Locking, Refused, PGAPI_Cancel, Opened, WorkHere, Answered, CC_send_query,
        Sends, Repeat, Undo, CC_start_stmt
    <3>2. TransactNone(t) => th'[t].pc = "untable" BY <1>1, Going, Works DEF TransactNone, Moves
    <3>3. Transact(t) /\ th[t].pc = "transact" => th'[t].pc = "untable" BY <1>1 DEF Transact, Types, Calls
    <3>4. th[t].pc # "untable" BY <3>1 DEF Transact, TransactNone
    <3> QED BY <2>2, <3>1, <3>2, <3>3, <3>4
  <2>3. \A u \in Threads : Table(u) BY <1>1, <1>2, <1>10, <2>2 DEF EnvLocks, Table
  <2> QED BY <1>3, <1>10, <2>1, <2>3
<1> QED BY <1>5, <1>6, <1>7, <1>8, <1>9, <1>10, Unlocking DEF Locking

\* A thread is inside a call on a statement just when it owns the lock of the statement.
LEMMA StmtLocksStep ==
  ASSUME IInv, NEW t \in Threads, Step(t)
  PROVE  StmtLocks'
<1>1. Types /\ Subjects /\ StmtLocks BY DEF IInv
<1>2. \A u \in Threads : u # t => th'[u] = th[u] BY <1>1, Steps DEF Rests, Moves
<1> DEFINE Owns(u) == \A s \in Stmts : owner'[s] = u => Inside(u)' /\ OnStmt(u)' /\ th'[u].s = s
           Owned(u) == Inside(u)' /\ OnStmt(u)' => owner'[th'[u].s] = u
<1> SUFFICES \A u \in Threads : Owns(u) /\ Owned(u) BY DEF StmtLocks
<1>3. \A u \in Threads : Inside(u) /\ OnStmt(u) => th[u].s \in Stmts
  BY <1>1 DEF Subjects, Inside, OnStmt, OfStmt
<1>4. ASSUME \A s \in Stmts : owner'[s] = owner[s], ~Enter(t), ~Leave(t)
      PROVE  \A u \in Threads : Owns(u) /\ Owned(u)
  <2>1. \A u \in Threads : u # t => Owns(u) /\ Owned(u)
    BY <1>1, <1>2, <1>3, <1>4 DEF StmtLocks, Inside, OnStmt
  <2>2. \/ Inside(t) /\ Inside(t)' /\ th'[t].shape = th[t].shape /\ th'[t].s = th[t].s
        \/ th[t].pc = "enter" /\ th'[t] = Idle
    BY <1>1, <1>4, Staying
  <2>3. Owns(t) /\ Owned(t) BY <1>1, <1>3, <1>4, <2>2, IdleFields DEF StmtLocks, Inside, OnStmt
  <2> QED BY <2>1, <2>3
<1>5. CASE EnterConns(t) \/ Untable(t) \/ SetStatementSvp(t) \/ Discard(t)
  <2>1. \A s \in Stmts : owner'[s] = owner[s] BY <1>1, <1>5, LocksOfSteps, Acquiring, Releasing, LockNames
  <2>2. ~Enter(t) /\ ~Leave(t) BY <1>5 DEF EnterConns, Untable, SetStatementSvp, Discard, Enter, Leave
  <2> QED BY <1>4, <2>1, <2>2
<1>6. CASE UNCHANGED owner /\ ~Locking(t) BY <1>4, <1>6 DEF Locking
<1>7. CASE Enter(t)
  <2>1. Moves(t, "table", th[t].ret) \/ Moves(t, "work", th[t].ret) BY <1>1, <1>7, Going, Works DEF Enter
  <2>2. Inside(t)' /\ th'[t].shape = th[t].shape /\ th'[t].s = th[t].s /\ th[t].pc = "enter"
    BY <1>7, <2>1 DEF Moves, Inside, Enter
  <2>3. CASE OnStmt(t)
    <3>1. LockOf(t) = th[t].s /\ th[t].s \in Stmts /\ th[t].s # "conn"
      BY <1>1, <2>2, <2>3, LockOfCall, LockNames
    <3>2. owner[th[t].s] = None /\ owner'[th[t].s] = t /\ \A s \in Stmts : s # th[t].s => owner'[s] = owner[s]
      BY <1>1, <1>7, <2>3, <3>1, LocksOfSteps, Acquiring, LockNames DEF Free, OnStmt
    <3>3. \A u \in Threads : u # t => Owns(u) /\ Owned(u)
      BY <1>1, <1>2, <1>3, <3>1, <3>2, LockNames DEF StmtLocks, Inside, OnStmt
    <3>4. Owns(t) /\ Owned(t) BY <1>1, <2>2, <2>3, <3>1, <3>2 DEF StmtLocks, Inside, OnStmt
    <3> QED BY <3>3, <3>4
  <2>4. CASE ~OnStmt(t)
    <3>1. UNCHANGED owner \/ LockOf(t) \in {"env", "conn"} BY <2>4, <1>1, <1>7, LocksOfSteps DEF LockOf
    <3>2. \A s \in Stmts : owner'[s] = owner[s] BY <1>1, <1>7, <3>1, LocksOfSteps, Acquiring, LockNames
    <3>3. \A u \in Threads : u # t => Owns(u) /\ Owned(u)
      BY <1>1, <1>2, <1>3, <3>2 DEF StmtLocks, Inside, OnStmt
    <3>4. Owns(t) /\ Owned(t) BY <1>1, <2>2, <2>4, <3>2 DEF StmtLocks, Inside, OnStmt
    <3> QED BY <3>3, <3>4
  <2> QED BY <2>3, <2>4
<1>8. CASE Leave(t)
  <2>1. th[t].pc = "leave" /\ th'[t] = Idle /\ Inside(t) BY <1>1, <1>8, Resting DEF Leave, Rests, Inside
  <2>2. CASE OnStmt(t)
    <3>1. LockOf(t) = th[t].s /\ th[t].s \in Stmts /\ th[t].s # "conn"
      BY <1>1, <2>1, <2>2, LockOfCall, LockNames
    <3>2. owner'[th[t].s] = None /\ \A s \in Stmts : s # th[t].s => owner'[s] = owner[s]
      BY <1>1, <1>8, <2>2, <3>1, LocksOfSteps, Releasing, LockNames DEF OnStmt
    <3>3. owner[th[t].s] = t BY <1>1, <2>1, <2>2 DEF StmtLocks
    <3>4. \A u \in Threads : u # t => Owns(u) /\ Owned(u)
      BY <1>1, <1>2, <1>3, <3>1, <3>2, <3>3, LockNames DEF StmtLocks, Inside, OnStmt
    <3>5. Owns(t) /\ Owned(t)
      BY <1>1, <2>1, <2>2, <3>1, <3>2, IdleFields, LockNames DEF StmtLocks, Inside, OnStmt
    <3> QED BY <3>4, <3>5
  <2>3. CASE ~OnStmt(t)
    <3>1. UNCHANGED owner \/ LockOf(t) \in {"env", "conn"} BY <2>3, <1>1, <1>8, LocksOfSteps DEF LockOf
    <3>2. \A s \in Stmts : owner'[s] = owner[s] BY <1>1, <1>8, <3>1, LocksOfSteps, Releasing, LockNames
    <3>3. \A u \in Threads : u # t => Owns(u) /\ Owned(u)
      BY <1>1, <1>2, <1>3, <3>2 DEF StmtLocks, Inside, OnStmt
    <3>4. Owns(t) /\ Owned(t) BY <1>1, <2>1, <2>3, <3>2, IdleFields DEF StmtLocks, Inside, OnStmt
    <3> QED BY <3>3, <3>4
  <2> QED BY <2>2, <2>3
<1> QED BY <1>5, <1>6, <1>7, <1>8, Unlocking DEF Locking

--------------------
(* The lock of the connection.                                             *)

LEMMA Counts ==
  ASSUME NEW H \in SUBSET Threads, NEW K \in SUBSET Stmts
  PROVE  /\ IsFiniteSet(H) /\ IsFiniteSet(K)
         /\ Cardinality(H) \in Nat /\ Cardinality(K) \in Nat
         /\ Cardinality(H) = 0 <=> H = {}
         /\ Cardinality(K) = 0 <=> K = {}
BY SetsAssumption, FS_Subset, FS_CardinalityType, FS_EmptySet

\* The lock is taken once more, for the call of t or for a statement.
LEMMA ConnTaken ==
  ASSUME Types, ConnLock, NEW t \in Threads, Free(t, "conn"), Acquire(t, "conn"), NEW s,
         \/ t \notin Holders /\ Holders' = Holders \cup {t} /\ keeps' = keeps
         \/ Holders' = Holders /\ s \in Stmts /\ keeps[s] = None /\ keeps' = [keeps EXCEPT ![s] = t]
  PROVE  ConnLock'
<1>1. owner'["conn"] = t /\ depth' = depth + 1 /\ (owner["conn"] = None \/ owner["conn"] = t)
  BY Acquiring, LockNames DEF Free
<1>2. IsFiniteSet(Holders) /\ IsFiniteSet(Keepers) /\ Cardinality(Holders) \in Nat /\ Cardinality(Keepers) \in Nat
  BY Counts DEF Holders, Keepers
<1>3. /\ \A u \in Holders : u = t
      /\ \A r \in Keepers : keeps[r] = t
  BY <1>1, LockNames DEF ConnLock, Holders, Keepers
<1>4. CASE t \notin Holders /\ Holders' = Holders \cup {t} /\ keeps' = keeps
  <2>1. Cardinality(Holders') = Cardinality(Holders) + 1 BY <1>2, <1>4, FS_AddElement
  <2>2. Keepers' = Keepers BY <1>4 DEF Keepers
  <2> QED BY <1>1, <1>2, <1>3, <1>4, <2>1, <2>2 DEF ConnLock
<1>5. CASE Holders' = Holders /\ s \in Stmts /\ keeps[s] = None /\ keeps' = [keeps EXCEPT ![s] = t]
  <2>1. Keepers' = Keepers \cup {s} /\ s \notin Keepers BY <1>5, LockNames DEF Keepers, Types
  <2>2. Cardinality(Keepers') = Cardinality(Keepers) + 1 BY <1>2, <2>1, FS_AddElement
  <2>3. \A r \in Keepers' : keeps'[r] = t BY <1>3, <1>5, <2>1 DEF Types, Keepers
  <2> QED BY <1>1, <1>2, <1>3, <1>5, <2>2, <2>3 DEF ConnLock
<1> QED BY <1>4, <1>5

\* The lock is let go once, for the call of t or for a statement.
LEMMA ConnReleased ==
  ASSUME Types, ConnLock, Release("conn"), NEW t \in Threads, NEW s,
         \/ t \in Holders /\ Holders' = Holders \ {t} /\ keeps' = keeps
         \/ Holders' = Holders /\ s \in Stmts /\ keeps[s] # None /\ keeps' = [keeps EXCEPT ![s] = None]
  PROVE  ConnLock'
<1>1. depth' = depth - 1 /\ owner'["conn"] = IF depth > 1 THEN owner["conn"] ELSE None
  BY Releasing, LockNames
<1>2. IsFiniteSet(Holders) /\ IsFiniteSet(Keepers) /\ Cardinality(Holders) \in Nat /\ Cardinality(Keepers) \in Nat
  BY Counts DEF Holders, Keepers
<1>3. /\ Holders' \in SUBSET Threads /\ Keepers' \in SUBSET Stmts BY DEF Holders, Keepers
<1>4. /\ Cardinality(Holders') \in Nat /\ Cardinality(Keepers') \in Nat
      /\ Cardinality(Holders') = 0 <=> Holders' = {}
      /\ Cardinality(Keepers') = 0 <=> Keepers' = {}
  BY <1>3, Counts
<1>5. /\ Cardinality(Holders') + Cardinality(Keepers') = depth - 1
      /\ Holders' \subseteq Holders
      /\ \A r \in Keepers' : r \in Keepers /\ keeps'[r] = keeps[r]
  <2>1. CASE t \in Holders /\ Holders' = Holders \ {t} /\ keeps' = keeps
    <3>1. Cardinality(Holders') = Cardinality(Holders) - 1 BY <1>2, <2>1, FS_RemoveElement
    <3>2. Keepers' = Keepers BY <2>1 DEF Keepers
    <3> QED BY <1>2, <2>1, <3>1, <3>2 DEF ConnLock
  <2>2. CASE Holders' = Holders /\ s \in Stmts /\ keeps[s] # None /\ keeps' = [keeps EXCEPT ![s] = None]
    <3>1. Keepers' = Keepers \ {s} /\ s \in Keepers BY <2>2 DEF Keepers, Types
    <3>2. Cardinality(Keepers') = Cardinality(Keepers) - 1 BY <1>2, <3>1, FS_RemoveElement
    <3>3. \A r \in Keepers' : r \in Keepers /\ keeps'[r] = keeps[r] BY <2>2, <3>1 DEF Types, Keepers
    <3> QED BY <1>2, <2>2, <3>2, <3>3 DEF ConnLock
  <2> QED BY <2>1, <2>2
<1>6. CASE depth > 1 BY <1>1, <1>4, <1>5, <1>6 DEF ConnLock, Types
<1>7. CASE ~(depth > 1)
  <2>1. Cardinality(Holders') = 0 /\ Cardinality(Keepers') = 0 BY <1>4, <1>5, <1>7 DEF Types
  <2> QED BY <1>1, <1>4, <1>5, <1>7, <2>1 DEF ConnLock
<1> QED BY <1>6, <1>7

\* Where the lock of the connection is left alone.
LEMMA ConnStays ==
  ASSUME ConnLock, owner'["conn"] = owner["conn"], depth' = depth, keeps' = keeps, Holders' = Holders
  PROVE  ConnLock'
<1>1. Keepers' = Keepers BY DEF Keepers
<1> QED BY <1>1 DEF ConnLock

LEMMA ConnLockStep ==
  ASSUME IInv, NEW t \in Threads, Step(t)
  PROVE  ConnLock'
<1>1. Types /\ Subjects /\ ConnLock BY DEF IInv
<1>2. \A u \in Threads : u # t => th'[u] = th[u] BY <1>1, Steps DEF Rests, Moves
<1>3. ASSUME HoldsConn(t)' <=> HoldsConn(t)
      PROVE  Holders' = Holders
  <2>1. \A u \in Threads : HoldsConn(u)' <=> HoldsConn(u) BY <1>2, <1>3 DEF HoldsConn, Inside
  <2> QED BY <2>1 DEF Holders
<1>4. ASSUME ~Enter(t), ~Leave(t)  PROVE Holders' = Holders
  <2>1. HoldsConn(t)' <=> HoldsConn(t) BY <1>1, <1>4, Staying, IdleFields DEF HoldsConn, Inside
  <2> QED BY <1>3, <2>1
<1>5. CASE Enter(t)
  <2>1. Moves(t, "table", th[t].ret) \/ Moves(t, "work", th[t].ret) BY <1>1, <1>5, Going, Works DEF Enter
  <2>2. Inside(t)' /\ th'[t].shape = th[t].shape /\ th[t].pc = "enter" /\ ~Inside(t) /\ keeps' = keeps
    BY <1>5, <2>1 DEF Moves, Inside, Enter, brackets
  <2>3. CASE th[t].shape.on \in {"drop", "conn"}
    <3>1. Free(t, "conn") /\ Acquire(t, "conn") BY <1>1, <1>5, <2>2, <2>3, LockOfCall, LocksOfSteps
    <3>2. Holders' = Holders \cup {t} /\ t \notin Holders
      BY <1>2, <2>2, <2>3 DEF Holders, HoldsConn, Inside
    <3> QED BY <1>1, <2>2, <3>1, <3>2, ConnTaken
  <2>4. CASE th[t].shape.on \notin {"drop", "conn"}
    <3>1. Holders' = Holders BY <1>3, <2>2, <2>4 DEF HoldsConn
    <3>2. owner'["conn"] = owner["conn"] /\ depth' = depth
      BY <1>1, <1>5, <2>2, <2>4, LocksOfSteps, LockOfCall, Acquiring, LockNames DEF LockOf
    <3> QED BY <1>1, <2>2, <3>1, <3>2, ConnStays
  <2> QED BY <2>3, <2>4
<1>6. CASE EnterConns(t) \/ Untable(t)
  <2>1. owner'["conn"] = owner["conn"] /\ depth' = depth
    BY <1>1, <1>6, LocksOfSteps, Acquiring, Releasing, LockNames
  <2>2. keeps' = keeps /\ ~Enter(t) /\ ~Leave(t) BY <1>6 DEF EnterConns, Untable, brackets, Enter, Leave
  <2> QED BY <1>1, <1>4, <2>1, <2>2, ConnStays
<1>7. CASE SetStatementSvp(t)
  <2>1. ~Enter(t) /\ ~Leave(t) /\ th[t].s \in Stmts
    BY <1>1, <1>7 DEF SetStatementSvp, Enter, Leave, Subjects, Bracketed, OnStmt, OfStmt, Asks
  <2>2. Holders' = Holders BY <1>4, <2>1
  <2>3. CASE UNCHANGED <<owner, depth, keeps>> BY <1>1, <2>2, <2>3, ConnStays
  <2>4. CASE ~UNCHANGED <<owner, depth, keeps>> BY <1>1, <1>7, <2>1, <2>2, <2>4, LocksOfSteps, ConnTaken
  <2> QED BY <2>3, <2>4
<1>8. CASE Discard(t)
  <2>1. ~Enter(t) /\ ~Leave(t) /\ th[t].s \in Stmts
    BY <1>1, <1>8 DEF Discard, Enter, Leave, Subjects, Bracketed, OnStmt, OfStmt, Closes
  <2>2. Holders' = Holders BY <1>4, <2>1
  <2>3. CASE UNCHANGED <<owner, depth, keeps>> BY <1>1, <2>2, <2>3, ConnStays
  <2>4. CASE keeps[th[t].s] # None /\ Release("conn") /\ keeps' = [keeps EXCEPT ![th[t].s] = None]
    BY <1>1, <2>1, <2>2, <2>4, ConnReleased
  <2> QED BY <1>1, <1>8, <2>3, <2>4, LocksOfSteps
<1>9. CASE Leave(t)
  <2>1. th[t].pc = "leave" /\ th'[t] = Idle /\ Inside(t) /\ keeps' = keeps /\ ~Inside(t)'
    BY <1>1, <1>9, Resting, IdleFields DEF Leave, Rests, Inside, brackets
  <2>2. CASE th[t].shape.on \in {"drop", "conn"}
    <3>1. Release("conn") BY <1>1, <1>9, <2>1, <2>2, LockOfCall, LocksOfSteps
    <3>2. Holders' = Holders \ {t} /\ t \in Holders BY <1>2, <2>1, <2>2 DEF Holders, HoldsConn, Inside
    <3> QED BY <1>1, <2>1, <3>1, <3>2, ConnReleased
  <2>3. CASE th[t].shape.on \notin {"drop", "conn"}
    <3>1. Holders' = Holders BY <1>3, <2>1, <2>3 DEF HoldsConn
    <3>2. owner'["conn"] = owner["conn"] /\ depth' = depth
      BY <1>1, <1>9, <2>1, <2>3, LocksOfSteps, LockOfCall, Releasing, LockNames DEF LockOf
    <3> QED BY <1>1, <2>1, <3>1, <3>2, ConnStays
  <2> QED BY <2>2, <2>3
<1>10. CASE UNCHANGED <<owner, depth>> /\ ~Locking(t)
  <2>1. ~Enter(t) /\ ~Leave(t) /\ keeps' = keeps BY <1>1, <1>10, BracketsOfSteps DEF Locking
  <2> QED BY <1>1, <1>4, <1>10, <2>1, ConnStays
<1> QED BY <1>5, <1>6, <1>7, <1>8, <1>9, <1>10, Unlocking DEF Locking

--------------------
(* Who waits for data.                                                     *)

LEMMA NotCanceling ==
  ASSUME NEW t \in Threads, OnStmt(t)
  PROVE  th[t].shape # Canceling
BY DataShapes DEF OnStmt

\* A bracket is begun and closed on the way forward.
LEMMA Forward ==
  ASSUME Types, NEW t \in Threads, Step(t), ~\E ret \in Rets : WorkHere(t, ret) \/ Answered(t, ret)
  PROVE  /\ th'[t].pc \in Early => th[t].pc \in Early
         /\ Closes(t)' => Closes(t) /\ th'[t].ret = th[t].ret
<1> DEFINE Goal == /\ th'[t].pc \in Early => th[t].pc \in Early
                   /\ Closes(t)' => Closes(t) /\ th'[t].ret = th[t].ret
<1> SUFFICES Goal OBVIOUS
<1>1. ASSUME NEW pc \in Pcs \ {"discard", "undone"}, Goes(t, pc), pc \in Early => th[t].pc \in Early  PROVE Goal
  BY <1>1, Going DEF Moves, Closes
<1> HIDE DEF Goal
<1>2. CASE Refused(t) \/ Leave(t)
  BY <1>2, Resting, IdleFields DEF Refused, Leave, Rests, Goal, Early, Closes
<1>3. CASE Enter(t)
  <2>1. Goes(t, "table") \/ Goes(t, "work") BY <1>3 DEF Enter
  <2>2. th[t].pc \in Early BY <1>3 DEF Enter, Early
  <2> QED BY <1>1, <2>1, <2>2, Works
<1>4. CASE PGAPI_Cancel(t) \/ TransactNone(t) \/ Untable(t) \/ CC_start_stmt(t)
  BY <1>1, <1>4, Works DEF PGAPI_Cancel, TransactNone, Untable, CC_start_stmt, Early
<1>5. CASE SetStatementSvp(t) \/ Sends(t) \/ CC_send_query(t)
  BY <1>1, <1>5, Going, SendsMoves, Works DEF SetStatementSvp, Sends, CC_send_query, Early, Moves, Closes, Goal
<1>6. CASE Discard(t)
  <2>1. Goes(t, "start") \/ Goes(t, "leave") BY <1>6 DEF Discard
  <2> QED BY <1>1, <2>1, Works DEF Early
<1>7. CASE Undo(t) BY <1>7, Going, Works DEF Undo, Moves, Closes, Goal, Early
<1>8. CASE EnterConns(t)
  <2>1. Goes(t, "transact") \/ Goes(t, "untable") BY <1>8 DEF EnterConns
  <2> QED BY <1>1, <2>1, Works DEF Early
<1>9. CASE Opened(t) \/ Transact(t) \/ Repeat(t)
  BY <1>9 DEF Opened, Transact, Sends, Repeat, Types, Calls, Goal, Early, Closes
<1> QED BY <1>2, <1>3, <1>4, <1>5, <1>6, <1>7, <1>8, <1>9 DEF Step, Rets

\* The end of a call: data is waited for by the thread that is asked.
LEMMA AwaitedEnds ==
  ASSUME IInv, NEW t \in Threads, NEW ret \in Rets, Ends(t, ret), th[t].pc \in {"work", "asked"}
  PROVE  Awaited'
<1>1. Types /\ Subjects /\ Apart /\ Awaited BY DEF IInv
<1>2. Moves(t, IF Bracketed(t) THEN "discard" ELSE "leave", ret) BY <1>1, Ending DEF Rets
<1>3. CASE ~Bracketed(t)
  <2>1. awaits' = awaits BY <1>3 DEF Ends
  <2>2. Moves(t, "leave", ret) BY <1>2, <1>3
  <2> QED BY <1>1, <2>1, <2>2 DEF Awaited, Moves, Closes, Starts, Early
<1>4. CASE Bracketed(t)
  <2> DEFINE s == th[t].s
  <2>1. OnStmt(t) /\ s \in Stmts /\ th[t].shape.ends \in {"discard", "errors"}
    BY <1>1, <1>4, ShapesFit DEF Bracketed, Subjects, OnStmt, OfStmt, Types, Calls, ShapeFits
  <2>2. Moves(t, "discard", ret) BY <1>2, <1>4
  <2>3. awaits' = [awaits EXCEPT ![s] = Waits(t, ret)] BY <1>4 DEF Ends
  <2>4. th[t].shape # Canceling BY <2>1, NotCanceling
  <2>5. \A u \in Threads : u # t /\ th[u].s = s /\ awaits[s] = u => FALSE
    BY <1>1, <2>1, <2>4, LockNames DEF Awaited
  <2>6. ret = "NEED_DATA" => \A u \in Threads : u # t => th[u].s # s
    <3>1. ret = "NEED_DATA" => th[t].shape.data BY DEF Ends, Outcome
    <3> QED BY <1>1, <2>1, <3>1, LockNames DEF Apart, Alone
  <2>7. ret = "SUCCESS" /\ th[t].shape.ends # "discard" => Waits(t, ret) = t
    <3>1. th[t].shape.ends = "errors" => th[t].shape = Putting
      BY <1>1, ShapesFit DEF Types, Calls, ShapeFits
    <3>2. th[t].shape = Putting => awaits[s] = t BY <1>1 DEF Awaited, Early
    <3> QED BY <2>1, <3>1, <3>2 DEF Waits
  <2>8. ret = "NEED_DATA" => Waits(t, ret) = t BY DEF Waits
  <2>9. \/ Waits(t, ret) = t /\ ret = "NEED_DATA"
        \/ Waits(t, ret) = awaits[s]
        \/ Waits(t, ret) = None
    BY DEF Waits
  <2> HIDE DEF s
  <2>10. \A r \in Stmts : r # s => awaits'[r] = awaits[r] BY <1>1, <2>3 DEF Types
  <2>11. awaits'[s] = Waits(t, ret) BY <1>1, <2>1, <2>3 DEF Types
  <2>12. ASSUME NEW r \in Stmts, NEW u \in Threads, awaits'[r] # None, th'[u].s = r
         PROVE  u = awaits'[r] \/ th'[u].shape = Canceling
    BY <1>1, <2>2, <2>6, <2>9, <2>10, <2>11, <2>12 DEF Awaited, Moves, s
  <2>13. ASSUME NEW u \in Threads, th'[u].shape \in {Resuming, Putting}, th'[u].pc \in Early
         PROVE  awaits'[th'[u].s] = u
    <3>1. u # t /\ th'[u] = th[u] BY <2>2, <2>13 DEF Moves, Early
    <3>2. awaits[th[u].s] = u /\ th[u].s # s BY <1>1, <2>5, <2>13, <3>1 DEF Awaited, Early
    <3>3. th[u].s \in Stmts BY <1>1, <2>13, <3>1, DataShapes DEF Subjects, OfStmt, Early
    <3> QED BY <2>10, <3>1, <3>2, <3>3
  <2>14. ASSUME NEW u \in Threads, Closes(u)', ~Starts(u)'
         PROVE  awaits'[th'[u].s] = u
    <3>1. CASE u = t BY <2>2, <2>7, <2>8, <2>11, <2>14, <3>1 DEF Moves, Starts, Rets, s
    <3>2. CASE u # t
      <4>1. th'[u] = th[u] /\ Closes(u) /\ ~Starts(u) BY <2>2, <2>14, <3>2 DEF Moves, Closes, Starts
      <4>2. awaits[th[u].s] = u /\ th[u].s # s /\ th[u].s \in Stmts
        BY <1>1, <2>5, <3>2, <4>1 DEF Awaited, Subjects, Bracketed, OnStmt, OfStmt, Closes
      <4> QED BY <2>10, <4>1, <4>2
    <3> QED BY <3>1, <3>2
  <2> QED BY <2>12, <2>13, <2>14 DEF Awaited, Early
<1> QED BY <1>3, <1>4

LEMMA AwaitedStep ==
  ASSUME IInv, NEW t \in Threads, Step(t)
  PROVE  Awaited'
<1>1. Types /\ Subjects /\ Apart /\ Awaited BY DEF IInv
<1>2. \A u \in Threads : u # t => th'[u] = th[u] BY <1>1, Steps DEF Rests, Moves
<1>3. th'[t] = Idle \/ (th'[t].s = th[t].s /\ th'[t].shape = th[t].shape) BY <1>1, Steps DEF Rests, Moves
<1>4. CASE \E ret \in Rets : Ends(t, ret) /\ th[t].pc \in {"work", "asked"} BY <1>4, AwaitedEnds
<1>5. CASE Refused(t) /\ awaits' # awaits
  <2> DEFINE s == th[t].s
  <2>1. th'[t] = Idle /\ th[t].pc = "enter" /\ th[t].shape \in {Resuming, Putting} /\ s \in Stmts
    <3>1. th[t].shape \notin {Resuming, Putting} => awaits' = awaits BY <1>1, <1>5 DEF Refused, Types
    <3>2. th'[t] = Idle /\ th[t].pc = "enter" BY <1>1, <1>5, Resting DEF Refused, Rests
    <3> QED BY <1>1, <1>5, <3>1, <3>2, DataShapes DEF Subjects, OfStmt
  <2>2. awaits[s] = t BY <1>1, <2>1 DEF Awaited, Early
  <2>3. awaits' = [awaits EXCEPT ![s] = None] BY <1>5, <2>1 DEF Refused
  <2>4. \A u \in Threads : u # t /\ th[u].s = s => th[u].shape = Canceling
    BY <1>1, <2>1, <2>2, LockNames DEF Awaited
  <2>5. awaits'[s] = None /\ \A r \in Stmts : r # s => awaits'[r] = awaits[r]
    BY <1>1, <2>1, <2>3 DEF Types
  <2>6. ASSUME NEW r \in Stmts, NEW u \in Threads, awaits'[r] # None, th'[u].s = r
        PROVE  u = awaits'[r] \/ th'[u].shape = Canceling
    BY <1>1, <1>2, <2>1, <2>5, <2>6, IdleFields, LockNames DEF Awaited
  <2>7. ASSUME NEW u \in Threads, th'[u].shape \in {Resuming, Putting}, th'[u].pc \in Early
        PROVE  awaits'[th'[u].s] = u
    <3>1. u # t /\ th'[u] = th[u] BY <1>2, <2>1, <2>7, IdleFields DEF Early
    <3>2. th[u].s # s /\ th[u].s \in Stmts
      BY <1>1, <2>4, <2>7, <3>1, DataShapes DEF Subjects, OfStmt, Early
    <3> QED BY <1>1, <2>5, <2>7, <3>1, <3>2 DEF Awaited, Early
  <2>8. ASSUME NEW u \in Threads, Closes(u)', ~Starts(u)'
        PROVE  awaits'[th'[u].s] = u
    <3>1. u # t /\ th'[u] = th[u] /\ Closes(u) /\ ~Starts(u)
      BY <1>2, <2>1, <2>8, IdleFields DEF Closes, Starts
    <3>2. OnStmt(u) /\ th[u].s \in Stmts BY <1>1, <3>1 DEF Subjects, Bracketed, OnStmt, OfStmt, Closes
    <3>3. th[u].s # s BY <2>4, <3>1, <3>2, NotCanceling
    <3> QED BY <1>1, <2>5, <3>1, <3>2, <3>3 DEF Awaited
  <2> QED BY <2>6, <2>7, <2>8 DEF Awaited, Early
<1>6. CASE PGAPI_Cancel(t)
  <2> DEFINE s == th[t].s
  <2>1. th[t].pc = "work" /\ th[t].shape = Canceling /\ s \in Stmts /\ awaits' = [awaits EXCEPT ![s] = None]
    BY <1>1, <1>6 DEF PGAPI_Cancel, Subjects, OfStmt
  <2>2. Moves(t, "leave", th[t].ret) BY <1>1, <1>6, Going, Works DEF PGAPI_Cancel
  <2>3. \A u \in Threads : u # t => th[u].s # s BY <1>1, <2>1, LockNames DEF Apart, Alone
  <2>4. awaits'[s] = None /\ \A r \in Stmts : r # s => awaits'[r] = awaits[r] BY <1>1, <2>1 DEF Types
  <2>5. ASSUME NEW r \in Stmts, NEW u \in Threads, awaits'[r] # None, th'[u].s = r
        PROVE  u = awaits'[r] \/ th'[u].shape = Canceling
    BY <1>1, <2>2, <2>4, <2>5 DEF Awaited, Moves
  <2>6. ASSUME NEW u \in Threads, th'[u].shape \in {Resuming, Putting}, th'[u].pc \in Early
        PROVE  awaits'[th'[u].s] = u
    <3>1. u # t /\ th'[u] = th[u] BY <2>2, <2>6 DEF Moves, Early
    <3>2. th[u].s # s /\ th[u].s \in Stmts
      BY <1>1, <2>3, <2>6, <3>1, DataShapes DEF Subjects, OfStmt, Early
    <3> QED BY <1>1, <2>4, <2>6, <3>1, <3>2 DEF Awaited, Early
  <2>7. ASSUME NEW u \in Threads, Closes(u)', ~Starts(u)'
        PROVE  awaits'[th'[u].s] = u
    <3>1. u # t /\ th'[u] = th[u] /\ Closes(u) /\ ~Starts(u) BY <2>2, <2>7 DEF Moves, Closes, Starts
    <3>2. th[u].s \in Stmts /\ th[u].s # s
      BY <1>1, <2>3, <3>1 DEF Subjects, Bracketed, OnStmt, OfStmt, Closes
    <3> QED BY <1>1, <2>4, <3>1, <3>2 DEF Awaited
  <2> QED BY <2>5, <2>6, <2>7 DEF Awaited, Early
<1>7. CASE awaits' = awaits /\ ~\E ret \in Rets : WorkHere(t, ret) \/ Answered(t, ret)
  <2>1. /\ th'[t].pc \in Early => th[t].pc \in Early
        /\ Closes(t)' => Closes(t) /\ th'[t].ret = th[t].ret
    BY <1>1, <1>7, Forward
  <2>2. ASSUME NEW r \in Stmts, NEW u \in Threads, awaits'[r] # None, th'[u].s = r
        PROVE  u = awaits'[r] \/ th'[u].shape = Canceling
    BY <1>1, <1>2, <1>3, <1>7, <2>2, IdleFields, LockNames DEF Awaited
  <2>3. ASSUME NEW u \in Threads, th'[u].shape \in {Resuming, Putting}, th'[u].pc \in Early
        PROVE  awaits'[th'[u].s] = u
    BY <1>1, <1>2, <1>3, <1>7, <2>1, <2>3, IdleFields, DataShapes DEF Awaited, Early
  <2>4. ASSUME NEW u \in Threads, Closes(u)', ~Starts(u)'
        PROVE  awaits'[th'[u].s] = u
    BY <1>1, <1>2, <1>3, <1>7, <2>1, <2>4, IdleFields DEF Awaited, Closes, Starts
  <2> QED BY <2>2, <2>3, <2>4 DEF Awaited, Early
<1>8. (\E ret \in Rets : WorkHere(t, ret) \/ Answered(t, ret))
        => \E ret \in Rets : Ends(t, ret) /\ th[t].pc \in {"work", "asked"}
  BY DEF WorkHere, Answered
<1> QED BY <1>1, <1>4, <1>5, <1>6, <1>7, <1>8, BracketsOfSteps

LEMMA AwaitedCall ==
  ASSUME IInv, Prudent, NEW t \in Threads, NEW shape \in Shapes, NEW s \in Stmts, Call(t, shape, s)
  PROVE  Awaited'
<1>1. Types /\ Awaited /\ Begins(t, shape, s) BY Beginning DEF IInv
<1>2. awaits' = awaits BY DEF Call
<1>3. /\ awaits[s] # None /\ shape.on = "stmt" => shape \in {Resuming, Putting}
      /\ shape \in {Resuming, Putting} => awaits[s] = t
      /\ shape.on = "drop" => awaits[s] = None
  BY DEF Call, MayCall, Prudent
<1>4. th'[t].s # None => th'[t].s = s /\ (shape.on \in {"stmt", "drop"} \/ shape = Canceling)
  BY <1>1 DEF Begins, OfStmt
<1>5. shape \in {Resuming, Putting} => th'[t].s = s BY <1>1, DataShapes DEF Begins, OfStmt
<1>6. ASSUME NEW r \in Stmts, NEW u \in Threads, awaits'[r] # None, th'[u].s = r
      PROVE  u = awaits'[r] \/ th'[u].shape = Canceling
  BY <1>1, <1>2, <1>3, <1>4, <1>6, LockNames DEF Awaited, Begins
<1>7. ASSUME NEW u \in Threads, th'[u].shape \in {Resuming, Putting}, th'[u].pc \in Early
      PROVE  awaits'[th'[u].s] = u
  BY <1>1, <1>2, <1>3, <1>5, <1>7 DEF Awaited, Begins, Early
<1>8. ASSUME NEW u \in Threads, Closes(u)', ~Starts(u)'
      PROVE  awaits'[th'[u].s] = u
  BY <1>1, <1>2, <1>8 DEF Awaited, Begins, Closes, Starts
<1> QED BY <1>6, <1>7, <1>8 DEF Awaited, Early

--------------------
(* The lock of the connection that a statement keeps.                      *)

\* Two threads are never inside calls on one statement.
LEMMA OneInside ==
  ASSUME StmtLocks, NEW t \in Threads, NEW u \in Threads, Inside(t), OnStmt(t), Inside(u), OnStmt(u), th[t].s = th[u].s
  PROVE  t = u
BY DEF StmtLocks

LEMMA BracketsInside ==
  ASSUME Subjects, NEW t \in Threads, Asks(t) \/ Closes(t) \/ th[t].pc = "start"
  PROVE  Inside(t) /\ OnStmt(t) /\ Bracketed(t) /\ th[t].s \in Stmts
BY DEF Subjects, Asks, Closes, Inside, Bracketed, OnStmt, OfStmt

\* A statement's lock of the connection belongs to the thread that is inside.
LEMMA KeepsOwn ==
  ASSUME IInv, NEW t \in Threads, Inside(t), OnStmt(t), th[t].s \in Stmts, keeps[th[t].s] # None
  PROVE  keeps[th[t].s] = t
<1> DEFINE s == th[t].s
<1>1. PICK u \in Threads : keeps[s] = u BY DEF IInv, Types
<1>2. CASE awaits[s] = u BY <1>1, <1>2, NotCanceling, LockNames DEF IInv, Awaited
<1>3. CASE InBracket(u, s)
  <2>1. Inside(u) /\ OnStmt(u) /\ th[u].s = s BY <1>3, BracketsInside DEF InBracket, IInv
  <2> QED BY <1>1, <2>1, OneInside DEF IInv
<1>4. CASE th[u].s = s /\ Bracketed(u) /\ th[u].pc = "work"
  <2>1. Inside(u) /\ OnStmt(u) /\ th[u].s = s BY <1>4 DEF Bracketed, Inside
  <2> QED BY <1>1, <2>1, OneInside DEF IInv
<1> QED BY <1>1, <1>2, <1>3, <1>4 DEF IInv, Kept

\* The parts of Kept, one by one.
Keeping(s, t) ==
  keeps[s] = t =>
    \/ awaits[s] = t
    \/ InBracket(t, s)
    \/ th[t].s = s /\ Bracketed(t) /\ th[t].pc = "work" /\ th[t].shape.rerun
Losing(s, t) ==
  lost /\ keeps[s] = t => th[t].s = s /\ (th[t].pc = "asked" \/ (Closes(t) /\ th[t].ret = "ERROR"))
CancelingAlone(t) ==
  th[t].shape = Canceling /\ th[t].s # None => awaits[th[t].s] = None \/ keeps[th[t].s] = None

LEMMA KeptParts ==
  Kept <=> /\ \A s \in Stmts, t \in Threads : Keeping(s, t) /\ Losing(s, t)
           /\ \A t \in Threads : CancelingAlone(t)
BY DEF Kept, Keeping, Losing, CancelingAlone

LEMMA KeptNext ==
  Kept' <=> /\ \A s \in Stmts, t \in Threads : (Keeping(s, t) /\ Losing(s, t))'
            /\ \A t \in Threads : CancelingAlone(t)'
BY DEF Kept, Keeping, Losing, CancelingAlone

\* A call that is not in a bracket leaves the kept locks alone.
Outside(t) ==
  ~Asks(t) /\ ~Closes(t) /\ ~(th[t].pc = "work" /\ Bracketed(t) /\ th[t].shape.rerun)

LEMMA OutsideKept ==
  ASSUME Types, Kept, NEW t \in Threads, \A u \in Threads : u # t => th'[u] = th[u],
         th'[t] = Idle \/ (th'[t].s = th[t].s /\ th'[t].shape = th[t].shape),
         Outside(t), keeps' = keeps, awaits' = awaits, lost' = lost
  PROVE  Kept'
<1>1. ASSUME NEW s \in Stmts, NEW u \in Threads
      PROVE  (Keeping(s, u) /\ Losing(s, u))'
  <2>1. Keeping(s, u) /\ Losing(s, u) BY KeptParts
  <2>2. CASE u # t BY <2>1, <2>2 DEF Keeping, Losing, InBracket, Asks, Closes, Bracketed, OnStmt
  <2>3. CASE u = t BY <2>1, <2>3 DEF Keeping, Losing, InBracket, Outside, Asks, Closes
  <2> QED BY <2>2, <2>3
<1>2. ASSUME NEW u \in Threads
      PROVE  CancelingAlone(u)'
  <2>1. CancelingAlone(u) BY KeptParts
  <2> QED BY <2>1, IdleFields DEF CancelingAlone
<1> QED BY <1>1, <1>2, KeptNext

\* The steps of a call that is not in a bracket, and of one that is.
LEMMA KeptOutside ==
  ASSUME IInv, NEW t \in Threads, Step(t), Outside(t), awaits' = awaits, ~SetStatementSvp(t)
  PROVE  Kept'
<1>1. Types /\ Subjects /\ Kept BY DEF IInv
<1>2. \A u \in Threads : u # t => th'[u] = th[u] BY <1>1, Steps DEF Rests, Moves
<1>3. th'[t] = Idle \/ (th'[t].s = th[t].s /\ th'[t].shape = th[t].shape) BY <1>1, Steps DEF Rests, Moves
<1>4. ~CC_send_query(t) /\ ~Discard(t) /\ ~Repeat(t) /\ ~Undo(t)
  BY DEF Outside, CC_send_query, Discard, Repeat, Undo, Asks, Closes
<1>5. keeps' = keeps BY <1>1, <1>4, BracketsOfSteps
<1>6. lost' = lost
  BY <1>4, Zenon DEF Step, Refused, Enter, PGAPI_Cancel, Opened, WorkHere, Answered, EnterConns, Transact,
    TransactNone, Untable, Sends, SetStatementSvp, CC_start_stmt, Leave, conns
<1> QED BY <1>1, <1>2, <1>3, <1>5, <1>6, OutsideKept

\* SetStatementSvp: the lock of the connection is kept for the thread inside.
LEMMA KeptSavepoint ==
  ASSUME IInv, NEW t \in Threads, SetStatementSvp(t)
  PROVE  Kept'
<1> DEFINE s == th[t].s
<1>1. Types /\ Subjects /\ Kept /\ Apart /\ StmtLocks BY DEF IInv
<1>2. Moves(t, "query", th[t].ret) BY <1>1, Going, Works DEF SetStatementSvp
<1>3. Inside(t) /\ OnStmt(t) /\ Bracketed(t) /\ s \in Stmts /\ awaits' = awaits /\ lost' = lost
  BY <1>1, BracketsInside DEF SetStatementSvp, Asks, conns
<1>4. /\ \A r \in Stmts : r # s => keeps'[r] = keeps[r]
      /\ keeps'[s] = keeps[s] \/ (keeps'[s] = t /\ ~lost)
  <2>1. CASE keeps' = keeps BY <2>1
  <2>2. CASE keeps' # keeps
    <3>1. keeps' = [keeps EXCEPT ![s] = t] /\ ~lost BY <2>2 DEF SetStatementSvp
    <3> QED BY <1>1, <1>3, <3>1 DEF Types
  <2> QED BY <2>1, <2>2
<1>5a. \A u \in Threads : keeps[s] = u => u = t /\ ~lost
  <2>1. \A u \in Threads : keeps[s] = u => u = t BY <1>3, KeepsOwn, LockNames
  <2>2. keeps[s] = t => ~lost BY <1>1, <1>3, KeptParts DEF Losing, SetStatementSvp, Closes
  <2> QED BY <2>1, <2>2
<1>5. ASSUME NEW r \in Stmts, NEW u \in Threads
      PROVE  (Keeping(r, u) /\ Losing(r, u))'
  <2>1. Keeping(r, u) /\ Losing(r, u) BY <1>1, KeptParts
  <2>2. CASE r = s BY <1>2, <1>3, <1>4, <1>5a, <2>2, LockNames DEF Keeping, Losing, InBracket, Asks, Moves
  <2>3. CASE r # s /\ u = t BY <1>2, <1>3, <1>4, <2>1, <2>3 DEF Keeping, Losing, InBracket
  <2>4. CASE r # s /\ u # t
    BY <1>2, <1>3, <1>4, <2>1, <2>4 DEF Keeping, Losing, InBracket, Asks, Closes, Bracketed, OnStmt, Moves
  <2> QED BY <2>2, <2>3, <2>4
<1>6. ASSUME NEW u \in Threads
      PROVE  CancelingAlone(u)'
  <2>1. CancelingAlone(u) BY <1>1, KeptParts
  <2>2. CASE u = t BY <1>2, <1>3, <1>4, <2>2, NotCanceling DEF CancelingAlone, Moves
  <2>3. CASE u # t
    <3>1. th'[u] = th[u] BY <1>2, <2>3 DEF Moves
    <3>2. th[u].shape = Canceling /\ th[u].s # None => th[u].s # s /\ th[u].s \in Stmts
      BY <1>1, <1>3, <2>3, LockNames DEF Apart, Alone, Types, Calls
    <3> QED BY <1>3, <1>4, <2>1, <3>1, <3>2 DEF CancelingAlone
  <2> QED BY <2>2, <2>3
<1> QED BY <1>5, <1>6, KeptNext

\* The end of a call in a bracket.
LEMMA KeptEnds ==
  ASSUME IInv, NEW t \in Threads, NEW ret \in Rets, WorkHere(t, ret) \/ Answered(t, ret), Bracketed(t)
  PROVE  Kept'
<1> DEFINE s == th[t].s
<1>1. Types /\ Subjects /\ Kept /\ Apart /\ Awaited BY DEF IInv
<1>2. Moves(t, "discard", ret) BY <1>1, Ending DEF WorkHere, Answered, Rets
<1>3. /\ keeps' = keeps /\ lost' = lost /\ th[t].pc \in {"work", "asked"}
      /\ awaits' = [awaits EXCEPT ![s] = Waits(t, ret)]
      /\ th[t].pc = "asked" /\ lost => ret = "ERROR"
  BY DEF WorkHere, Answered, Ends, conns
<1>4. OnStmt(t) /\ s \in Stmts /\ th[t].shape # Canceling /\ Inside(t)
  BY <1>1, <1>3, NotCanceling DEF Bracketed, Subjects, OnStmt, OfStmt, Inside
<1>5. \A r \in Stmts : r # s => awaits'[r] = awaits[r] BY <1>1, <1>3 DEF Types
<1>6. ASSUME NEW r \in Stmts, NEW u \in Threads
      PROVE  (Keeping(r, u) /\ Losing(r, u))'
  <2>1. Keeping(r, u) /\ Losing(r, u) BY <1>1, KeptParts
  <2>2. CASE u # t /\ r # s
    BY <1>2, <1>3, <1>5, <2>1, <2>2 DEF Keeping, Losing, InBracket, Asks, Closes, Bracketed, OnStmt, Moves
  <2>3. CASE u # t /\ r = s
    <3>1. keeps[s] # u BY <1>4, <2>3, KeepsOwn, LockNames
    <3> QED BY <1>3, <2>3, <3>1 DEF Keeping, Losing
  <2>4. CASE u = t /\ r = s
    <3>1. InBracket(t, s)' BY <1>2 DEF InBracket, Closes, Moves
    <3>2. lost /\ keeps[s] = t => ret = "ERROR" BY <1>3, <2>1, <2>4 DEF Losing, InBracket, Asks, Closes
    <3> QED BY <1>2, <1>3, <2>4, <3>1, <3>2 DEF Keeping, Losing, Moves, Closes
  <2>5. CASE u = t /\ r # s BY <1>2, <1>3, <1>5, <2>1, <2>5 DEF Keeping, Losing, InBracket
  <2> QED BY <2>2, <2>3, <2>4, <2>5
<1>7. ASSUME NEW u \in Threads
      PROVE  CancelingAlone(u)'
  <2>1. CancelingAlone(u) BY <1>1, KeptParts
  <2>2. CASE u = t BY <1>2, <1>4, <2>2 DEF CancelingAlone, Moves
  <2>3. CASE u # t
    <3>1. th'[u] = th[u] BY <1>2, <2>3 DEF Moves
    <3>2. th[u].shape = Canceling /\ th[u].s # None => th[u].s # s /\ th[u].s \in Stmts
      BY <1>1, <1>4, <2>3, LockNames DEF Apart, Alone, Types, Calls
    <3> QED BY <1>3, <1>5, <2>1, <3>1, <3>2 DEF CancelingAlone
  <2> QED BY <2>2, <2>3
<1> QED BY <1>6, <1>7, KeptNext

\* CC_send_query: a connection is lost only by the statement that keeps its lock.
LEMMA KeptQuery ==
  ASSUME IInv, Prudent, NEW t \in Threads, CC_send_query(t)
  PROVE  Kept'
<1> DEFINE s == th[t].s
<1>1. Types /\ Subjects /\ Kept BY DEF IInv
<1>2. Moves(t, "asked", th[t].ret) BY <1>1, SendsMoves
<1>3. keeps' = keeps /\ awaits' = awaits /\ th[t].pc = "query" /\ Asks(t) /\ Inside(t) /\ OnStmt(t) /\ s \in Stmts
  BY <1>1, BracketsInside DEF CC_send_query, Asks
<1>4. lost' => lost \/ \A r \in Stmts : r # s => keeps[r] = None
  BY DEF CC_send_query, Loses, Served, Prudent
<1>5. \A u \in Threads : keeps[s] = u => u = t BY <1>3, KeepsOwn, LockNames
<1>6. ASSUME NEW r \in Stmts, NEW u \in Threads
      PROVE  (Keeping(r, u) /\ Losing(r, u))'
  <2>1. Keeping(r, u) /\ Losing(r, u) BY <1>1, KeptParts
  <2>2. CASE u = t /\ r = s BY <1>2, <2>2 DEF Keeping, Losing, InBracket, Asks, Closes, Moves
  <2>3. CASE u = t /\ r # s
    BY <1>2, <1>3, <1>4, <2>1, <2>3, LockNames DEF Keeping, Losing, InBracket, Moves
  <2>4. CASE u # t
    BY <1>2, <1>3, <1>4, <1>5, <2>1, <2>4, LockNames DEF Keeping, Losing, InBracket, Asks, Closes,
      Bracketed, OnStmt, Moves
  <2> QED BY <2>2, <2>3, <2>4
<1>7. ASSUME NEW u \in Threads
      PROVE  CancelingAlone(u)'
  <2>1. CancelingAlone(u) BY <1>1, KeptParts
  <2> QED BY <1>2, <1>3, <2>1 DEF CancelingAlone, Moves
<1> QED BY <1>6, <1>7, KeptNext

\* A catalog call that is repeated, the statement of a call that has one, and the rollback,
\* stay in the bracket.
LEMMA KeptInside ==
  ASSUME IInv, Prudent, NEW t \in Threads, Sends(t) \/ Repeat(t) \/ Undo(t)
  PROVE  Kept'
<1> DEFINE s == th[t].s
<1>1. Types /\ Subjects /\ Kept BY DEF IInv
<1>2. /\ keeps' = keeps /\ awaits' = awaits
      /\ lost' => lost \/ (Undo(t) /\ \A r \in Stmts : r # s => keeps[r] = None)
  <2>1. Sends(t) \/ Repeat(t) => keeps' = keeps /\ awaits' = awaits /\ lost' = lost
    BY DEF Sends, Repeat, brackets, conns
  <2>2. Undo(t) => keeps' = keeps /\ awaits' = awaits BY DEF Undo
  <2>3. Undo(t) => (lost' => lost \/ \A r \in Stmts : r # s => keeps[r] = None)
    BY DEF Undo, Loses, Prudent
  <2> QED BY <2>1, <2>2, <2>3
<1>3. Inside(t) /\ OnStmt(t) /\ s \in Stmts
  BY <1>1, BracketsInside DEF Sends, Repeat, Undo, Asks, Closes, Inside, Bracketed, Subjects, OnStmt, OfStmt
<1>4. \/ Moves(t, "undone", th[t].ret) /\ th[t].pc = "discard" /\ Undo(t) /\ th[t].ret = "ERROR"
      \/ Moves(t, "work", th[t].ret) /\ th[t].pc = "asked" /\ ~lost /\ th[t].shape.rerun /\ Bracketed(t) /\ ~Undo(t)
      \/ /\ \E how \in {"simple", "extended"} : Moves(t, how, th[t].ret)
         /\ th[t].pc = "work" /\ ~lost /\ ~Undo(t)
  <2>1. Undo(t) => Moves(t, "undone", th[t].ret) /\ th[t].pc = "discard" /\ th[t].ret = "ERROR"
    BY <1>1, Going, Works DEF Undo, MustUndo
  <2>2. Repeat(t) => th[t].pc = "asked" /\ ~lost /\ th[t].shape.rerun /\ Bracketed(t) /\ ~Undo(t)
    BY <1>1 DEF Repeat, Subjects, Asks, Undo
  <2>3. Repeat(t) => th'[t].pc = "work" BY <1>1 DEF Repeat, Types, Calls
  <2>4. Repeat(t) => Step(t) BY DEF Step
  <2>5. Repeat(t) => th'[t].ret = th[t].ret BY <1>1 DEF Repeat, Types, Calls
  <2>6. Repeat(t) => Moves(t, "work", th[t].ret)
    BY <1>1, <2>3, <2>4, <2>5, Steps, IdleFields DEF Rests, Moves
  <2>7. Sends(t) => /\ \E how \in {"simple", "extended"} : Moves(t, how, th[t].ret)
                    /\ th[t].pc = "work" /\ ~lost /\ ~Undo(t)
    BY <1>1, SendsMoves DEF Sends, Undo
  <2> QED BY <2>1, <2>2, <2>6, <2>7
<1>5. \A u \in Threads : keeps[s] = u => u = t BY <1>3, KeepsOwn, LockNames
<1>6. ASSUME NEW r \in Stmts, NEW u \in Threads
      PROVE  (Keeping(r, u) /\ Losing(r, u))'
  <2>1. Keeping(r, u) /\ Losing(r, u) BY <1>1, KeptParts
  <2>2. Keeping(r, u)'
    <3>1. CASE u = t
      BY <1>2, <1>4, <2>1, <3>1 DEF Keeping, InBracket, Asks, Closes, Bracketed, OnStmt, Moves
    <3>2. CASE u # t
      BY <1>2, <1>4, <2>1, <3>2 DEF Keeping, InBracket, Asks, Closes, Bracketed, OnStmt, Moves
    <3> QED BY <3>1, <3>2
  <2>3. Losing(r, u)'
    <3>1. CASE u = t BY <1>2, <1>4, <2>1, <3>1, LockNames DEF Losing, Closes, Moves
    <3>2. CASE u # t BY <1>2, <1>4, <1>5, <2>1, <3>2, LockNames DEF Losing, Closes, Moves
    <3> QED BY <3>1, <3>2
  <2> QED BY <2>2, <2>3
<1>7. ASSUME NEW u \in Threads
      PROVE  CancelingAlone(u)'
  <2>1. CancelingAlone(u) BY <1>1, KeptParts
  <2> QED BY <1>2, <1>4, <2>1 DEF CancelingAlone, Moves
<1> QED BY <1>6, <1>7, KeptNext

\* The end of DiscardStatementSvp.
LEMMA KeptDiscard ==
  ASSUME IInv, NEW t \in Threads, Discard(t)
  PROVE  Kept'
<1> DEFINE s == th[t].s
<1>1. Types /\ Subjects /\ Kept /\ Awaited /\ StmtLocks /\ Apart BY DEF IInv
<1>2. awaits' = awaits /\ lost' = lost /\ Closes(t) BY DEF Discard, conns, Closes
<1>3. Inside(t) /\ OnStmt(t) /\ s \in Stmts BY <1>1, <1>2, BracketsInside
<1>4. \/ Moves(t, "start", th[t].ret) /\ Starts(t)
      \/ Moves(t, "leave", th[t].ret) /\ ~Starts(t)
  BY <1>1, Going, Works DEF Discard
<1>5. /\ \A r \in Stmts : r # s => keeps'[r] = keeps[r]
      /\ keeps'[s] = IF Starts(t) THEN None ELSE keeps[s]
  BY <1>1, <1>3, LocksOfSteps DEF Types
<1>6. ASSUME NEW r \in Stmts, NEW u \in Threads
      PROVE  (Keeping(r, u) /\ Losing(r, u))'
  <2>1. Keeping(r, u) /\ Losing(r, u) BY <1>1, KeptParts
  <2>2. CASE r = s /\ Starts(t) BY <1>5, <2>2, LockNames DEF Keeping, Losing
  <2>3. CASE r = s /\ ~Starts(t) /\ u = t
    <3>1. awaits[s] = t BY <1>1, <1>2, <2>3 DEF Awaited
    <3>2. ~(lost /\ keeps[s] = t) BY <1>2, <2>1, <2>3 DEF Losing, Starts, Closes
    <3> QED BY <1>2, <1>5, <2>3, <3>1, <3>2 DEF Keeping, Losing
  <2>4. CASE r = s /\ ~Starts(t) /\ u # t
    <3>1. keeps[s] # u BY <1>3, <2>4, KeepsOwn, LockNames
    <3> QED BY <1>5, <2>4, <3>1 DEF Keeping, Losing
  <2>5. CASE r # s /\ u = t BY <1>2, <1>4, <1>5, <2>1, <2>5 DEF Keeping, Losing, InBracket
  <2>6. CASE r # s /\ u # t
    BY <1>2, <1>4, <1>5, <2>1, <2>6 DEF Keeping, Losing, InBracket, Asks, Closes, Bracketed, OnStmt, Moves
  <2> QED BY <2>2, <2>3, <2>4, <2>5, <2>6
<1>7. ASSUME NEW u \in Threads
      PROVE  CancelingAlone(u)'
  <2>1. CancelingAlone(u) BY <1>1, KeptParts
  <2>2. CASE u = t BY <1>3, <1>4, <2>2, NotCanceling DEF CancelingAlone, Moves
  <2>3. CASE u # t
    <3>1. th'[u] = th[u] BY <1>4, <2>3 DEF Moves
    <3>2. th[u].shape = Canceling /\ th[u].s # None => th[u].s # s /\ th[u].s \in Stmts
      BY <1>1, <1>3, <2>3, LockNames DEF Apart, Alone, Types, Calls
    <3> QED BY <1>2, <1>5, <2>1, <3>1, <3>2 DEF CancelingAlone
  <2> QED BY <2>2, <2>3
<1> QED BY <1>6, <1>7, KeptNext

\* SC_connection_lost_check and PGAPI_Cancel: the statement is waited for no more.
LEMMA KeptForgotten ==
  ASSUME IInv, NEW t \in Threads, Step(t), Refused(t) \/ PGAPI_Cancel(t)
  PROVE  Kept'
<1> DEFINE s == th[t].s
<1>1. Types /\ Subjects /\ Kept BY DEF IInv
<1>2. keeps' = keeps /\ lost' = lost /\ th[t].pc \in {"enter", "work"} /\ (th[t].pc = "work" => ~OnStmt(t))
  BY NotCanceling DEF Refused, PGAPI_Cancel, conns
<1>3. \A u \in Threads : u # t => th'[u] = th[u] BY <1>1, Steps DEF Rests, Moves
<1>4. th'[t] = Idle \/ (th'[t].s = th[t].s /\ th'[t].shape = th[t].shape) BY <1>1, Steps DEF Rests, Moves
<1>5. th'[t].pc \in {"idle", "leave"}
  BY <1>1, Resting, Going, IdleFields, Works DEF Refused, PGAPI_Cancel, Rests, Moves
<1>6. \A r \in Stmts : awaits'[r] = awaits[r] \/ (r = s /\ awaits'[r] = None)
  BY <1>1 DEF Refused, PGAPI_Cancel, Types
<1>7. \A r \in Stmts : awaits'[r] # awaits[r] /\ keeps[r] # None => lost
  <2>1. Refused(t) => lost BY DEF Refused
  <2>2. PGAPI_Cancel(t) => keeps[s] = None \/ s \notin Stmts
    BY <1>1, LockNames, KeptParts DEF PGAPI_Cancel, CancelingAlone
  <2> QED BY <1>6, <2>1, <2>2
<1>8. ASSUME NEW r \in Stmts, NEW u \in Threads
      PROVE  (Keeping(r, u) /\ Losing(r, u))'
  <2>1. Keeping(r, u) /\ Losing(r, u) BY <1>1, KeptParts
  <2>2. CASE u = t
    <3>1. ~InBracket(t, r) /\ ~(th[t].pc = "work" /\ Bracketed(t))
      BY <1>2 DEF InBracket, Asks, Closes, Bracketed
    <3> QED BY <1>2, <1>7, <2>1, <2>2, <3>1, LockNames DEF Keeping, Losing, Closes
  <2>3. CASE u # t
    BY <1>2, <1>3, <1>7, <2>1, <2>3, LockNames DEF Keeping, Losing, InBracket, Asks, Closes, Bracketed,
      OnStmt
  <2> QED BY <2>2, <2>3
<1>9. ASSUME NEW u \in Threads
      PROVE  CancelingAlone(u)'
  <2>1. CancelingAlone(u) BY <1>1, KeptParts
  <2>2. th[u].shape = Canceling /\ th[u].s # None => th[u].s \in Stmts BY <1>1 DEF Types, Calls
  <2> QED BY <1>2, <1>3, <1>4, <1>5, <1>6, <2>1, <2>2, IdleFields DEF CancelingAlone
<1> QED BY <1>8, <1>9, KeptNext

LEMMA KeptStep ==
  ASSUME IInv, Prudent, NEW t \in Threads, Step(t)
  PROVE  Kept'
<1>1. Types /\ Subjects BY DEF IInv
<1>2. CASE Refused(t) \/ PGAPI_Cancel(t) BY <1>2, KeptForgotten
<1>3. CASE SetStatementSvp(t) \/ CC_send_query(t) \/ Sends(t) \/ Repeat(t) \/ Undo(t) \/ Discard(t)
  BY <1>3, KeptSavepoint, KeptQuery, KeptInside, KeptDiscard
<1>4. CASE \E ret \in Rets : WorkHere(t, ret) \/ Answered(t, ret)
  <2>1. CASE Bracketed(t) BY <1>4, <2>1, KeptEnds
  <2>2. CASE ~Bracketed(t)
    <3>1. th[t].pc \in {"work", "asked"} /\ awaits' = awaits BY <1>4, <2>2 DEF WorkHere, Answered, Ends
    <3>2. Outside(t) /\ ~SetStatementSvp(t)
      BY <1>1, <2>2, <3>1 DEF Subjects, Outside, Asks, Closes, SetStatementSvp
    <3> QED BY <3>1, <3>2, KeptOutside
  <2> QED BY <2>1, <2>2
<1>5. CASE Enter(t) \/ EnterConns(t) \/ TransactNone(t) \/ Untable(t) \/ CC_start_stmt(t) \/ Leave(t)
  <2>1. Outside(t) /\ ~SetStatementSvp(t) /\ awaits' = awaits
    BY <1>5 DEF Enter, EnterConns, TransactNone, Untable, CC_start_stmt, Leave, Outside, Asks, Closes,
      SetStatementSvp, brackets
  <2> QED BY <2>1, KeptOutside
<1>6. CASE Opened(t)
  <2>1. ~th[t].shape.rerun BY <1>1, <1>6, ShapesFit DEF Opened, ShapeFits, Types, Calls
  <2>2. Outside(t) /\ awaits' = awaits BY <1>6, <2>1 DEF Opened, Outside, Asks, Closes, brackets
  <2>3. ~SetStatementSvp(t) BY <1>6 DEF Opened, SetStatementSvp
  <2> QED BY <2>2, <2>3, KeptOutside
<1>7. CASE Transact(t)
  <2>1. Outside(t) /\ ~SetStatementSvp(t) /\ awaits' = awaits
    BY <1>7 DEF Transact, Outside, Asks, Closes, Bracketed, OnStmt, SetStatementSvp, brackets
  <2> QED BY <2>1, KeptOutside
<1> QED BY <1>2, <1>3, <1>4, <1>5, <1>6, <1>7 DEF Step, Rets

LEMMA KeptCall ==
  ASSUME IInv, Prudent, NEW t \in Threads, NEW shape \in Shapes, NEW s \in Stmts, Call(t, shape, s)
  PROVE  Kept'
<1>1. Types /\ Kept /\ Begins(t, shape, s) BY Beginning DEF IInv
<1>2. keeps' = keeps /\ awaits' = awaits /\ lost' = lost BY DEF Call, conns
<1>3. shape = Canceling => awaits[s] = None \/ keeps[s] = None BY DEF Call, MayCall, Prudent
<1>4. ASSUME NEW r \in Stmts, NEW u \in Threads
      PROVE  (Keeping(r, u) /\ Losing(r, u))'
  <2>1. Keeping(r, u) /\ Losing(r, u) BY <1>1, KeptParts
  <2>2. CASE u = t BY <1>1, <1>2, <2>1, <2>2 DEF Keeping, Losing, InBracket, Asks, Closes, Begins
  <2>3. CASE u # t
    BY <1>1, <1>2, <2>1, <2>3 DEF Keeping, Losing, InBracket, Asks, Closes, Bracketed, OnStmt, Begins
  <2> QED BY <2>2, <2>3
<1>5. ASSUME NEW u \in Threads
      PROVE  CancelingAlone(u)'
  <2>1. CancelingAlone(u) BY <1>1, KeptParts
  <2> QED BY <1>1, <1>2, <1>3, <2>1 DEF CancelingAlone, Begins
<1> QED BY <1>4, <1>5, KeptNext

--------------------
(* The invariant holds, and with it NoLockLeft.                            *)

LEMMA LocksCall ==
  ASSUME IInv, NEW t \in Threads, NEW shape \in Shapes, NEW s \in Stmts, Call(t, shape, s)
  PROVE  EnvLocks' /\ StmtLocks' /\ ConnLock'
<1>1. Types /\ EnvLocks /\ StmtLocks /\ ConnLock /\ Begins(t, shape, s) BY Beginning DEF IInv
<1>2. owner' = owner /\ depth' = depth /\ keeps' = keeps BY DEF Call
<1>3. EnvLocks' BY <1>1, <1>2 DEF EnvLocks, Inside, Begins
<1>4. StmtLocks' BY <1>1, <1>2 DEF StmtLocks, Inside, OnStmt, Begins
<1>5. Holders' = Holders
  <2>1. \A u \in Threads : HoldsConn(u)' <=> HoldsConn(u) BY <1>1 DEF HoldsConn, Inside, Begins
  <2> QED BY <2>1 DEF Holders
<1> QED BY <1>1, <1>2, <1>3, <1>4, <1>5, ConnStays

LEMMA TypesCall ==
  ASSUME IInv, NEW t \in Threads, NEW shape \in Shapes, NEW s \in Stmts, Call(t, shape, s)
  PROVE  Types'
<1>1. Types /\ Begins(t, shape, s) BY Beginning DEF IInv
<1>2. owner' = owner /\ depth' = depth /\ keeps' = keeps /\ awaits' = awaits /\ asked' = asked BY DEF Call
<1>3. th' \in [Threads -> Calls] BY <1>1 DEF Begins
<1> QED BY <1>1, <1>2, <1>3, Zenon DEF Types

LEMMA Begin == Init => IInv
<1> SUFFICES ASSUME Init  PROVE IInv OBVIOUS
<1>1. /\ th = [t \in Threads |-> Idle] /\ owner = [l \in Locks |-> None] /\ depth = 0
      /\ keeps = [s \in Stmts |-> None] /\ awaits = [s \in Stmts |-> None] /\ asked = [s \in Stmts |-> FALSE]
  BY DEF Init
<1>2. \A t \in Threads : th[t] = Idle BY <1>1
<1>3. Types
  <2>1. th \in [Threads -> Calls] /\ owner \in [Locks -> Threads \cup {None}] /\ depth \in Int
    BY <1>1, IdleFields
  <2>2. keeps \in [Stmts -> Threads \cup {None}] /\ awaits \in [Stmts -> Threads \cup {None}] BY <1>1
  <2>3. asked \in [Stmts -> BOOLEAN]
    <3>1. \A s \in Stmts : FALSE \in BOOLEAN OBVIOUS
    <3> QED BY <1>1, <3>1
  <2> QED BY <2>1, <2>2, <2>3, Zenon DEF Types
<1>4. Subjects /\ Apart /\ Awaited
  BY <1>1, <1>2, IdleFields, DataShapes DEF Subjects, Apart, Awaited, OfStmt, Asks, Closes
<1>5. EnvLocks /\ StmtLocks BY <1>1, <1>2, IdleFields, LockNames DEF EnvLocks, StmtLocks, Inside
<1>6. ConnLock
  <2>1. Holders = {} /\ Keepers = {} /\ owner["conn"] = None
    BY <1>1, <1>2, IdleFields, LockNames DEF Holders, Keepers, HoldsConn, Inside
  <2>2. Cardinality(Holders) = 0 /\ Cardinality(Keepers) = 0 BY <2>1, FS_EmptySet
  <2> QED BY <1>1, <2>1, <2>2 DEF ConnLock
<1>7. Kept BY <1>1, <1>2, IdleFields, LockNames, DataShapes DEF Kept, Asks
<1> QED BY <1>3, <1>4, <1>5, <1>6, <1>7 DEF IInv

LEMMA Invariant ==
  ASSUME Prudent
  PROVE  Spec => []IInv
<1>1. ASSUME IInv, [Next]_vars  PROVE IInv'
  <2>1. ASSUME NEW t \in Threads, Step(t)  PROVE IInv'
    <3>1. Types' /\ Subjects' BY <1>1, <2>1, TypesStep, SubjectsStep DEF IInv
    <3>2. Apart' /\ Awaited' /\ EnvLocks' /\ StmtLocks' /\ ConnLock' /\ Kept'
      BY <1>1, <2>1, ApartStep, AwaitedStep, EnvLocksStep, StmtLocksStep, ConnLockStep, KeptStep
    <3> QED BY <3>1, <3>2 DEF IInv
  <2>2. ASSUME NEW t \in Threads, NEW s \in Stmts, NEW shape \in Shapes, Call(t, shape, s)  PROVE IInv'
    <3>1. Types' /\ Subjects' /\ Apart' /\ Awaited'
      BY <1>1, <2>2, TypesCall, SubjectsCall, ApartCall, AwaitedCall
    <3>2. EnvLocks' /\ StmtLocks' /\ ConnLock' /\ Kept' BY <1>1, <2>2, LocksCall, KeptCall
    <3> QED BY <3>1, <3>2 DEF IInv
  <2>3. CASE UNCHANGED vars
    BY <1>1, <2>3 DEF vars, brackets, conns, IInv, Types, Subjects, Apart, Awaited, EnvLocks, StmtLocks,
      ConnLock, Kept, Asks, Closes, Bracketed, OnStmt, Alone, Starts, Inside, Holders, HoldsConn, Keepers,
      InBracket
  <2> QED BY <1>1, <2>1, <2>2, <2>3 DEF Next
<1> QED BY <1>1, Begin, PTL DEF Spec

LEMMA LocksLeft ==
  ASSUME IInv
  PROVE  NoLockLeft
<1> SUFFICES ASSUME NEW t \in Threads, th[t].pc = "idle", NEW l \in Locks, owner[l] = t
             PROVE  l = "conn" /\ \E s \in Stmts : awaits[s] = t
  BY DEF NoLockLeft
<1>1. ~Inside(t) /\ ~Asks(t) /\ ~Closes(t) BY DEF Inside, Asks, Closes
<1>2. l = "conn" BY <1>1 DEF IInv, EnvLocks, StmtLocks, Locks
<1>3. Cardinality(Holders) + Cardinality(Keepers) > 0 BY <1>2, LockNames DEF IInv, ConnLock
<1>4. Holders # {} \/ Keepers # {} BY <1>3, FS_EmptySet
<1>5. Holders = {} BY <1>1, <1>2 DEF IInv, ConnLock, Holders, HoldsConn
<1>6. PICK s \in Stmts : keeps[s] = t BY <1>2, <1>4, <1>5 DEF IInv, ConnLock, Keepers
<1>7. awaits[s] = t BY <1>1, <1>6 DEF IInv, Kept, InBracket
<1> QED BY <1>2, <1>7

(* A thread that is in no call holds no lock, but the connection's when it *)
(* has been asked for data: whatever the calls of the other threads, and   *)
(* however the calls end.  (LEAVE_..._CS of every entry point, and         *)
(* lock_CC_for_rb, which DiscardStatementSvp of a later call lets go.)     *)
THEOREM LocksAreLeft ==
  ASSUME Prudent
  PROVE  Spec => []NoLockLeft
BY Invariant, LocksLeft, PTL

--------------------
(* What is rolled back.                                                    *)

\* The transaction of a manual connection is used by one call on a statement at a time.
PrudentTrans == Prudent /\ "shared_trans" \notin Risky

\* Only these steps touch the transaction.
Ruling(t) == CC_send_query(t) \/ Undo(t) \/ Transact(t)

\* The transaction, or the connection, is gone, and what was sent in it.
Gone == accessed' = FALSE /\ inTrans' = FALSE /\ asked' = [r \in Stmts |-> FALSE]

LEMMA TransOfSteps ==
  ASSUME NEW t \in Threads, Step(t)
  PROVE  /\ manual' = manual
         /\ UNCHANGED conns \/ Ruling(t)
         /\ CC_send_query(t) => \/ Gone
                                \/ lost /\ UNCHANGED <<lost, accessed, inTrans, inError, asked>>
                                \/ ~lost /\ Served(t)
         /\ Undo(t) => Gone \/ UNCHANGED <<inTrans, accessed, asked, lost>>
         /\ Transact(t) => Gone /\ lost' = lost
         /\ accessed' = accessed \/ Ruling(t) \/ SetStatementSvp(t) \/ CC_start_stmt(t)
<1>1. UNCHANGED conns \/ Ruling(t)
  BY Zenon DEF Step, Ruling, Refused, Enter, PGAPI_Cancel, Opened, WorkHere, Answered, EnterConns,
    TransactNone, Untable, Sends, SetStatementSvp, Repeat, Discard, CC_start_stmt, Leave
<1>2. manual' = manual BY <1>1, Zenon DEF Ruling, CC_send_query, Undo, Transact, conns
<1>3. CC_send_query(t) => \/ Gone
                          \/ lost /\ UNCHANGED <<lost, accessed, inTrans, inError, asked>>
                          \/ ~lost /\ Served(t)
  BY Zenon DEF CC_send_query, Loses, TransEnds, Gone
<1>4. /\ Undo(t) => Gone \/ UNCHANGED <<inTrans, accessed, asked, lost>>
      /\ Transact(t) => Gone /\ lost' = lost
  BY Zenon DEF Undo, Transact, Loses, TransEnds, Gone
<1>5. accessed' = accessed \/ Ruling(t) \/ SetStatementSvp(t) \/ CC_start_stmt(t)
  BY Zenon DEF Step, Ruling, Refused, Enter, PGAPI_Cancel, Opened, WorkHere, Answered, EnterConns,
    TransactNone, Untable, Sends, Repeat, Discard, Leave, brackets
<1> QED BY <1>1, <1>2, <1>3, <1>4, <1>5

LEMMA SingleStep ==
  ASSUME EInv, NEW t \in Threads, Step(t)
  PROVE  Single'
<1>1. Types /\ Subjects /\ Single BY DEF EInv, IInv
<1>2. manual' = manual BY TransOfSteps
<1>3. inTrans' => manual /\ ~lost'
  <2>1. CC_send_query(t) => (inTrans' => manual /\ ~lost') BY <1>1, TransOfSteps DEF Gone, Served, Single
  <2>2. Undo(t) \/ Transact(t) => (inTrans' => manual /\ ~lost') BY <1>1, TransOfSteps DEF Gone, Single
  <2>3. UNCHANGED conns => (inTrans' => manual /\ ~lost') BY <1>1 DEF Single, conns
  <2> QED BY <2>1, <2>2, <2>3, TransOfSteps DEF Ruling
<1>4. \A u \in Threads : OnStmt(u)' => OnStmt(u) /\ th'[u].s = th[u].s
  <2>1. ~(Unlocked.on = "stmt") BY DataShapes
  <2> QED BY <1>1, <2>1, Steps, IdleFields DEF Rests, Moves, OnStmt
<1>5. \A r \in Stmts : awaits'[r] # None => awaits[r] # None \/ (OnStmt(t) /\ r = th[t].s)
  <2>1. ASSUME NEW ret \in Rets, Ends(t, ret)
        PROVE  awaits' = awaits \/ (OnStmt(t) /\ \A r \in Stmts : r # th[t].s => awaits'[r] = awaits[r])
    BY <1>1, <2>1 DEF Ends, Bracketed, Types
  <2>2. Refused(t) \/ PGAPI_Cancel(t) => \A r \in Stmts : awaits'[r] = awaits[r] \/ awaits'[r] = None
    BY <1>1 DEF Refused, PGAPI_Cancel, Types
  <2> QED BY <1>1, <2>1, <2>2, BracketsOfSteps DEF WorkHere, Answered
<1>6. ASSUME manual, NEW u \in Threads, OnStmt(u)'
      PROVE  /\ \A w \in Threads : OnStmt(w)' => w = u
             /\ \A r \in Stmts : awaits'[r] # None => r = th'[u].s
  <2>1. /\ \A w \in Threads : OnStmt(w) => w = u
        /\ \A r \in Stmts : awaits[r] # None => r = th[u].s
    BY <1>1, <1>4, <1>6 DEF Single
  <2> QED BY <1>4, <1>5, <1>6, <2>1
<1> QED BY <1>2, <1>3, <1>6 DEF Single

LEMMA SingleCall ==
  ASSUME EInv, PrudentTrans, NEW t \in Threads, NEW shape \in Shapes, NEW s \in Stmts, Call(t, shape, s)
  PROVE  Single'
<1>1. Types /\ Subjects /\ Single /\ Begins(t, shape, s) BY Beginning DEF EInv, IInv
<1>2. manual' = manual /\ inTrans' = inTrans /\ awaits' = awaits /\ lost' = lost BY DEF Call, conns
<1>3. shape.on = "stmt" /\ manual =>
        /\ \A u \in Threads : th[u].shape.on # "stmt"
        /\ \A r \in Stmts \ {s} : awaits[r] = None
  BY DEF Call, MayCall, PrudentTrans
<1>4. ASSUME manual, NEW u \in Threads, OnStmt(u)'
      PROVE  /\ \A w \in Threads : OnStmt(w)' => w = u
             /\ \A r \in Stmts : awaits'[r] # None => r = th'[u].s
  <2>1. CASE shape.on = "stmt"
    <3>1. u = t /\ th'[t].s = s BY <1>1, <1>3, <1>4, <2>1 DEF Begins, OnStmt, OfStmt
    <3> QED BY <1>1, <1>2, <1>3, <1>4, <2>1, <3>1 DEF Begins, OnStmt
  <2>2. CASE shape.on # "stmt"
    <3>1. \A w \in Threads : OnStmt(w)' => OnStmt(w) /\ th'[w] = th[w] BY <1>1, <2>2 DEF Begins, OnStmt
    <3> QED BY <1>1, <1>2, <1>4, <3>1 DEF Single
  <2> QED BY <2>1, <2>2
<1> QED BY <1>1, <1>2, <1>4 DEF Single

\* Where the steps take a call, to the three places that matter here.
LEMMA Whither ==
  ASSUME Types, NEW t \in Threads, Step(t)
  PROVE  /\ th'[t].pc = "start" => Discard(t)
         /\ th'[t].pc = "query" => SetStatementSvp(t)
         /\ th'[t].pc = "transact" => EnterConns(t) /\ th[t].shape.on = "conns"
<1> DEFINE P == {"start", "query", "transact"}
<1>1. CASE \E ret \in Rets : WorkHere(t, ret) \/ Answered(t, ret)
  BY <1>1, Ending DEF WorkHere, Answered, Moves, Rets
<1>2. CASE Refused(t) \/ Leave(t) BY <1>2, Resting, IdleFields DEF Refused, Leave, Rests
<1>3. CASE Opened(t) \/ Transact(t) \/ Repeat(t) BY <1>3 DEF Opened, Transact, Repeat, Types, Calls
<1>4. CASE Sends(t) \/ CC_send_query(t) BY <1>4, SendsMoves DEF Moves
<1>5. ASSUME NEW pc \in Pcs \ P, Goes(t, pc)  PROVE th'[t].pc \notin P BY <1>5, Going DEF Moves
<1>6. CASE Enter(t)
  <2>1. Goes(t, "table") \/ Goes(t, "work") BY <1>6 DEF Enter
  <2> QED BY <1>5, <2>1, Works
<1>7. CASE PGAPI_Cancel(t) \/ TransactNone(t) \/ Untable(t) \/ Undo(t) \/ CC_start_stmt(t)
  BY <1>5, <1>7, Works DEF PGAPI_Cancel, TransactNone, Untable, Undo, CC_start_stmt
<1>8. CASE SetStatementSvp(t)
  <2>1. th'[t].pc = "query" BY <1>8, Going, Works DEF SetStatementSvp, Moves
  <2> QED BY <1>8, <2>1
<1>9. CASE Discard(t)
  <2>1. th'[t].pc \in {"start", "leave"} BY <1>9, Going, Works DEF Discard, Moves
  <2> QED BY <1>9, <2>1
<1>10. CASE EnterConns(t)
  <2>1. (Goes(t, "transact") /\ th[t].shape.on = "conns") \/ Goes(t, "untable") BY <1>10 DEF EnterConns
  <2>2. (th'[t].pc = "transact" /\ th[t].shape.on = "conns") \/ th'[t].pc = "untable"
    BY <2>1, Going, Works DEF Moves
  <2> QED BY <1>10, <2>2
<1> QED BY <1>1, <1>2, <1>3, <1>4, <1>6, <1>7, <1>8, <1>9, <1>10 DEF Step, Rets

LEMMA GuardedStep ==
  ASSUME EInv, NEW t \in Threads, Step(t)
  PROVE  Guarded'
<1>1. Types /\ Subjects /\ Single /\ Guarded BY DEF EInv, IInv
<1>2. \A u \in Threads : u # t => th'[u] = th[u] BY <1>1, Steps DEF Rests, Moves
<1>3. th'[t] = Idle \/ (th'[t].s = th[t].s /\ th'[t].shape = th[t].shape) BY <1>1, Steps DEF Rests, Moves
<1>4. manual' = manual BY TransOfSteps
<1>5. ASSUME NEW u \in Threads, th'[u].pc = "transact"
      PROVE  th'[u].shape.on = "conns"
  <2>1. CASE u # t BY <1>1, <1>2, <1>5, <2>1 DEF Guarded
  <2>2. CASE u = t BY <1>1, <1>3, <1>5, <2>2, Whither, IdleFields
  <2> QED BY <2>1, <2>2
<1>6. ASSUME manual, NEW w \in Threads, NEW u \in Threads,
             OnStmt(w)', th'[w].pc \notin {"start", "leave"}, EndsTrans(u)'
      PROVE  keeps'[th'[w].s] = w
  <2>1. OnStmt(w) /\ th'[w].s = th[w].s /\ EndsTrans(u)
    BY <1>2, <1>3, <1>6, IdleFields, DataShapes DEF OnStmt, EndsTrans
  <2>2. CASE w # t
    <3>1. keeps[th[w].s] = w BY <1>1, <1>2, <1>6, <2>1, <2>2 DEF Guarded
    <3>2. ~OnStmt(t) BY <1>1, <1>6, <2>1, <2>2 DEF Single
    <3>3. keeps' = keeps
      BY <1>1, <3>2, BracketsOfSteps, BracketsInside DEF SetStatementSvp, Discard, Asks, Closes
    <3> QED BY <2>1, <3>1, <3>3
  <2>3. CASE w = t
    <3>1. ~CC_start_stmt(t) /\ ~Leave(t)
      BY <1>1, <1>6, <2>3, Going, Resting, IdleFields, DataShapes, Works DEF CC_start_stmt, Leave, Moves,
        Rests, OnStmt
    <3>2. th[t].pc \notin {"start", "leave"}
      BY <3>1 DEF Step, Refused, Enter, PGAPI_Cancel, Opened, WorkHere, Answered, EnterConns, Transact,
        TransactNone, Untable, Sends, SetStatementSvp, CC_send_query, Repeat, Undo, Discard
    <3>3. keeps[th[t].s] = t BY <1>1, <1>6, <2>1, <2>3, <3>2 DEF Guarded
    <3>4. keeps[th[t].s] # None BY <3>3, LockNames
    <3>5. SetStatementSvp(t) => keeps' = keeps BY <1>1, <3>4, LocksOfSteps
    <3>6. Discard(t) => keeps' = keeps
      <4>1. Discard(t) => ~Starts(t) BY <1>1, <1>6, <2>3, Going, Works DEF Discard, Moves
      <4> QED BY <4>1 DEF Discard
    <3> QED BY <1>1, <2>1, <2>3, <3>3, <3>5, <3>6, BracketsOfSteps
  <2> QED BY <2>2, <2>3
<1> QED BY <1>4, <1>5, <1>6 DEF Guarded

LEMMA GuardedCall ==
  ASSUME EInv, PrudentTrans, NEW t \in Threads, NEW shape \in Shapes, NEW s \in Stmts, Call(t, shape, s)
  PROVE  Guarded'
<1>1. Types /\ Subjects /\ Single /\ Guarded /\ Begins(t, shape, s) BY Beginning DEF EInv, IInv
<1>2. manual' = manual /\ keeps' = keeps BY DEF Call, conns
<1>3. shape.on = "stmt" /\ manual =>
        keeps[s] = t \/ \A u \in Threads : th[u].shape.on \notin {"conn", "conns"}
  BY DEF Call, MayCall, PrudentTrans
<1>4. shape.on \in {"conn", "conns"} /\ manual =>
        \A u \in Threads : th[u].shape.on = "stmt" => keeps[th[u].s] = u
  BY DEF Call, MayCall, PrudentTrans
<1>5. ASSUME manual, NEW w \in Threads, NEW u \in Threads,
             OnStmt(w)', th'[w].pc \notin {"start", "leave"}, EndsTrans(u)'
      PROVE  keeps'[th'[w].s] = w
  <2>1. CASE w # t /\ u # t BY <1>1, <1>2, <1>5, <2>1 DEF Guarded, Begins, OnStmt, EndsTrans
  <2>2. CASE w = t
    <3>1. shape.on = "stmt" /\ th'[t].s = s /\ u # t
      BY <1>1, <1>5, <2>2 DEF Begins, OnStmt, OfStmt, EndsTrans
    <3> QED BY <1>1, <1>2, <1>3, <1>5, <2>2, <3>1 DEF Begins, EndsTrans
  <2>3. CASE w # t /\ u = t BY <1>1, <1>2, <1>4, <1>5, <2>3 DEF Begins, OnStmt, EndsTrans
  <2> QED BY <2>1, <2>2, <2>3
<1>6. \A u \in Threads : th'[u].pc = "transact" => th'[u].shape.on = "conns" BY <1>1 DEF Guarded, Begins
<1> QED BY <1>2, <1>5, <1>6 DEF Guarded

\* No call ends the transaction while one on a statement is between its beginning and the
\* end of its bracket.
LEMMA TransactWaits ==
  ASSUME EInv, manual, NEW t \in Threads, OnStmt(t), th[t].pc \notin {"start", "leave", "idle"},
         NEW u \in Threads, Transact(u)
  PROVE  FALSE
<1>1. Types /\ Subjects /\ ConnLock /\ Guarded BY DEF EInv, IInv
<1>2. EndsTrans(u) /\ u # t BY <1>1 DEF Transact, Guarded, EndsTrans, OnStmt
<1>3. keeps[th[t].s] = t BY <1>1, <1>2 DEF Guarded
<1>4. th[t].s \in Stmts BY <1>1 DEF Subjects, OnStmt, OfStmt
<1>5. owner["conn"] = t BY <1>1, <1>3, <1>4, LockNames DEF ConnLock, Keepers
<1> QED BY <1>2, <1>5, LockNames DEF Transact, Free

\* While a call on a statement runs on a manual connection, no other bracket is open.
LEMMA OneBracket ==
  ASSUME EInv, manual, NEW t \in Threads, OnStmt(t), NEW r \in Stmts, asked[r]
  PROVE  r = th[t].s
<1>1. Subjects /\ Kept /\ Types /\ Single /\ Accounted BY DEF EInv, IInv
<1>2. CASE \E u \in Threads : th[u].s = r /\ th[u].pc = "start" BY <1>1, <1>2, BracketsInside DEF Single
<1>3. CASE keeps[r] # None
  <2>1. PICK u \in Threads : keeps[r] = u BY <1>1, <1>3 DEF Types
  <2>2. CASE awaits[r] = u BY <1>1, <2>2, LockNames DEF Single
  <2>3. CASE th[u].s = r /\ OnStmt(u) BY <1>1, <2>3 DEF Single
  <2>4. InBracket(u, r) => th[u].s = r /\ OnStmt(u) BY <1>1, BracketsInside DEF InBracket
  <2> QED BY <1>1, <2>1, <2>2, <2>3, <2>4 DEF Kept, Bracketed
<1> QED BY <1>1, <1>2, <1>3 DEF Accounted

\* What a statement that is about to be sent finds.
LEMMA Ready ==
  ASSUME EInv, NEW t \in Threads, CC_send_query(t), ~lost, Served(t)
  PROVE  /\ asked' = asked \/ (/\ asked' = [asked EXCEPT ![th[t].s] = TRUE] /\ inTrans'
                               /\ accessed /\ keeps[th[t].s] # None)
         /\ AboutTo(t) /\ manual => asked' = [asked EXCEPT ![th[t].s] = TRUE]
         /\ inTrans => inTrans'
         /\ accessed' = accessed /\ lost' = lost
<1>1. Single /\ Accessed /\ th[t].pc = "query" BY DEF EInv, CC_send_query
<1> DEFINE Sent == th[t].kind = "ordinary" /\ inTrans' /\ ~inError
<1>2. /\ inTrans' <=> (inTrans \/ (manual /\ th[t].kind # "special"))
      /\ accessed' = accessed /\ lost' = lost
  BY DEF Served
<1>3. /\ Sent => asked' = [asked EXCEPT ![th[t].s] = TRUE]
      /\ ~Sent => asked' = asked
  BY Zenon DEF Served
<1>4. Sent => AboutTo(t) /\ manual BY <1>1, <1>2 DEF AboutTo, Single
<1>5. AboutTo(t) /\ manual => Sent BY <1>2 DEF AboutTo
<1>6. Sent => accessed /\ keeps[th[t].s] # None /\ inTrans' BY <1>1, <1>4 DEF Accessed
<1> HIDE DEF Sent
<1>7. inTrans => inTrans' BY <1>2
<1> QED BY <1>2, <1>3, <1>5, <1>6, <1>7, Zenon

LEMMA AccountedStep ==
  ASSUME EInv, NEW t \in Threads, Step(t)
  PROVE  Accounted'
<1> DEFINE s == th[t].s
<1>1. Types /\ Subjects /\ StmtLocks /\ Accounted BY DEF EInv, IInv
<1>2. \A u \in Threads : u # t => th'[u] = th[u] BY <1>1, Steps DEF Rests, Moves
<1>3. CASE SetStatementSvp(t)
  <2>1. Moves(t, "query", th[t].ret) /\ th[t].pc # "start" BY <1>1, <1>3, Going, Works DEF SetStatementSvp
  <2>2. Inside(t) /\ OnStmt(t) /\ s \in Stmts BY <1>1, <1>3, BracketsInside DEF SetStatementSvp, Asks
  <2>3. asked' = asked /\ inTrans' = inTrans BY <1>3 DEF SetStatementSvp, conns
  <2>4. \A r \in Stmts : keeps'[r] = keeps[r] \/ (r = s /\ keeps'[r] # None)
    BY <1>1, <1>3, <2>2, LocksOfSteps, LockNames DEF Types
  <2>5. \A u \in Threads : th[u].pc = "start" => th[u].s # s /\ th[u].s \in Stmts
    BY <1>1, <2>1, <2>2, OneInside, BracketsInside
  <2> QED BY <1>1, <1>2, <2>1, <2>3, <2>4, <2>5 DEF Accounted, Moves
<1>4. CASE CC_start_stmt(t)
  <2>1. Moves(t, "leave", th[t].ret) /\ th[t].pc = "start" BY <1>1, <1>4, Going, Works DEF CC_start_stmt
  <2>2. s \in Stmts /\ Inside(t) /\ OnStmt(t) /\ keeps[s] = None /\ keeps' = keeps /\ inTrans' = inTrans
    BY <1>1, <1>4, <2>1, BracketsInside DEF Accounted, CC_start_stmt, conns
  <2>3. asked'[s] = FALSE /\ \A r \in Stmts : r # s => asked'[r] = asked[r]
    BY <1>1, <1>4, <2>2, Zenon DEF CC_start_stmt, Types
  <2> QED BY <1>1, <1>2, <2>1, <2>2, <2>3 DEF Accounted, Moves
<1>5. CASE Discard(t)
  <2>1. \/ Moves(t, "start", th[t].ret) /\ Starts(t)
        \/ Moves(t, "leave", th[t].ret) /\ ~Starts(t)
    BY <1>1, <1>5, Going, Works DEF Discard
  <2>2. s \in Stmts /\ Inside(t) /\ OnStmt(t) /\ th[t].pc # "start" /\ asked' = asked /\ inTrans' = inTrans
    BY <1>1, <1>5, BracketsInside DEF Discard, Closes, conns
  <2>3. /\ \A r \in Stmts : r # s => keeps'[r] = keeps[r]
        /\ keeps'[s] = IF Starts(t) THEN None ELSE keeps[s]
    BY <1>1, <1>5, <2>2, LocksOfSteps DEF Types
  <2>4. \A u \in Threads : th[u].pc = "start" => th[u].s # s /\ th[u].s \in Stmts
    BY <1>1, <2>2, OneInside, BracketsInside
  <2> QED BY <1>1, <1>2, <2>1, <2>2, <2>3, <2>4 DEF Accounted, Moves
<1>6. CASE ~SetStatementSvp(t) /\ ~CC_start_stmt(t) /\ ~Discard(t)
  <2>1. keeps' = keeps /\ th'[t].pc # "start" BY <1>1, <1>6, BracketsOfSteps, Whither
  <2>2. th[t].pc # "start"
    BY <1>6 DEF Step, Refused, Enter, PGAPI_Cancel, Opened, WorkHere, Answered, EnterConns, Transact,
      TransactNone, Untable, CC_send_query, Sends, Repeat, Undo, Leave
  <2>3. \A r \in Stmts : asked'[r] => inTrans' /\ (asked[r] \/ keeps[r] # None)
    <3>1. CASE Gone BY <3>1, Zenon DEF Gone
    <3>2. CASE asked' = asked /\ inTrans' = inTrans BY <1>1, <3>2 DEF Accounted
    <3>3. CASE CC_send_query(t) /\ ~lost /\ Served(t)
      <4>1. CASE asked' = asked BY <1>1, <3>3, <4>1, Ready DEF Accounted
      <4>2. CASE asked' = [asked EXCEPT ![s] = TRUE] /\ inTrans' /\ keeps[s] # None
        <5>1. \A r \in Stmts : r # s => asked'[r] = asked[r] BY <1>1, <4>2, Zenon DEF Types
        <5> QED BY <4>2, <5>1
      <4> QED BY <3>3, <4>1, <4>2, Ready
    <3>4. UNCHANGED conns => asked' = asked \/ Gone \/ CC_send_query(t)
      BY <1>1, <1>6, BracketsOfSteps, TransOfSteps
    <3> QED BY <1>1, <1>6, <3>1, <3>2, <3>3, <3>4, BracketsOfSteps, TransOfSteps DEF Ruling, conns
  <2> QED BY <1>1, <1>2, <2>1, <2>2, <2>3 DEF Accounted
<1> QED BY <1>3, <1>4, <1>5, <1>6

LEMMA AccessedStep ==
  ASSUME EInv, NEW t \in Threads, Step(t)
  PROVE  Accessed'
<1> DEFINE s == th[t].s
<1>1. Types /\ Subjects /\ Single /\ Accounted /\ Accessed BY DEF EInv, IInv
<1>2. \A u \in Threads : u # t => th'[u] = th[u] BY <1>1, Steps DEF Rests, Moves
<1>3. manual' = manual BY TransOfSteps
<1>4. ASSUME manual, OnStmt(t), NEW u \in Threads, th[u].pc = "query"  PROVE u = t
  BY <1>1, <1>4, BracketsInside DEF Single, Asks
<1>5. \A r \in Stmts : asked[r] => manual BY <1>1 DEF Accounted, Single
<1>6. CASE SetStatementSvp(t)
  <2>1. th[t].pc \in {"simple", "extended"} /\ OnStmt(t) /\ s \in Stmts
    BY <1>1, <1>6, BracketsInside DEF SetStatementSvp, Asks
  <2>2. th'[t].pc = "query" /\ th'[t].kind = th[t].kind /\ th'[t].s = s
    BY <1>1, <1>6 DEF SetStatementSvp, Goes, Types, Calls
  <2>3. asked' = asked /\ inError' = inError /\ lost' = lost BY <1>6 DEF SetStatementSvp, conns
  <2>4. accessed' <=> accessed \/ (/\ th[t].pc = "extended" \/ consider_rollback(th[t].kind)
                                   /\ ~inError /\ ~lost /\ th[t].kind = "ordinary")
    BY <1>6 DEF SetStatementSvp, Accessing
  <2>5. ASSUME manual, AboutTo(t)'  PROVE accessed' /\ keeps'[s] # None
    <3>1. th[t].kind = "ordinary" /\ ~inError /\ ~lost BY <2>2, <2>3, <2>5 DEF AboutTo
    <3>2. consider_rollback(th[t].kind) BY <2>5, <3>1 DEF consider_rollback
    <3>3. keeps[s] # None \/ keeps' = [keeps EXCEPT ![s] = t] BY <1>6, <3>1, <3>2 DEF SetStatementSvp
    <3>4. keeps[s] # None => keeps' = keeps BY <1>1, <1>6, LocksOfSteps
    <3> QED BY <1>1, <2>1, <2>4, <3>1, <3>2, <3>3, <3>4, LockNames DEF Types
  <2>6. ASSUME manual, accessed'  PROVE (\E r \in Stmts : asked'[r]) \/ AboutTo(t)'
    <3>1. CASE accessed
      <4>1. ~\E u \in Threads : AboutTo(u) BY <1>4, <2>1, <2>6 DEF AboutTo
      <4> QED BY <1>1, <2>3, <2>6, <3>1, <4>1 DEF Accessed
    <3>2. CASE ~accessed BY <2>2, <2>3, <2>4, <2>6, <3>2 DEF AboutTo
    <3> QED BY <3>1, <3>2
  <2>7. ASSUME manual, NEW u \in Threads, AboutTo(u)'  PROVE u = t BY <1>2, <1>4, <2>1, <2>7 DEF AboutTo
  <2>8. \A r \in Stmts : asked'[r] => accessed' BY <1>1, <2>3, <2>4 DEF Accessed
  <2> QED BY <1>3, <2>2, <2>5, <2>6, <2>7, <2>8 DEF Accessed
<1>7. CASE ~SetStatementSvp(t)
  <2>1. th'[t].pc # "query" BY <1>1, <1>7, Whither
  <2>2. ASSUME NEW u \in Threads, AboutTo(u)'  PROVE u # t /\ th[u].pc = "query" /\ th[u].kind = "ordinary" /\ th'[u] = th[u]
    BY <1>2, <2>1, <2>2 DEF AboutTo
  <2>3. CASE OnStmt(t)
    <3>1. \A u \in Threads : manual => ~AboutTo(u)' BY <1>4, <2>2, <2>3
    <3>2. \A r \in Stmts : asked'[r] => accessed'
      <4>1. CASE Gone BY <4>1, Zenon DEF Gone
      <4>2. CASE asked' = asked /\ accessed' = accessed BY <1>1, <4>2 DEF Accessed
      <4>3. CASE CC_send_query(t) /\ ~lost /\ Served(t)
        <5>1. CASE asked' = asked BY <1>1, <4>3, <5>1, Ready DEF Accessed
        <5>2. CASE accessed BY <4>3, <5>2, Ready
        <5> QED BY <4>3, <5>1, <5>2, Ready
      <4>4. CASE CC_start_stmt(t)
        <5>1. s \in Stmts BY <1>1, <4>4, BracketsInside DEF CC_start_stmt
        <5>2. asked'[s] = FALSE /\ \A r \in Stmts : r # s => asked'[r] = asked[r]
          BY <1>1, <4>4, <5>1, Zenon DEF CC_start_stmt, Types
        <5>3. \A r \in Stmts : asked[r] => r = s BY <1>5, <2>3, OneBracket
        <5> QED BY <5>2, <5>3
      <4>5. (asked' = asked /\ accessed' = accessed) \/ Ruling(t) \/ CC_start_stmt(t)
        BY <1>1, <1>7, BracketsOfSteps, TransOfSteps DEF Ruling
      <4> QED BY <4>1, <4>2, <4>3, <4>4, <4>5, TransOfSteps DEF Ruling
    <3>3. ASSUME manual, accessed'  PROVE \E r \in Stmts : asked'[r]
      <4>1. CASE Gone BY <3>3, <4>1, Zenon DEF Gone
      <4>2. CASE CC_start_stmt(t) BY <3>3, <4>2 DEF CC_start_stmt, Started
      <4>3. CASE asked' = asked /\ accessed' = accessed /\ ~(CC_send_query(t) /\ ~lost)
        <5>1. \A u \in Threads : AboutTo(u) => u = t /\ CC_send_query(t)
          <6>1. th[t].pc = "query" => CC_send_query(t)
            BY DEF Step, Refused, Enter, PGAPI_Cancel, Opened, WorkHere, Answered, EnterConns, Transact,
              TransactNone, Untable, Sends, SetStatementSvp, Repeat, Undo, Discard, CC_start_stmt, Leave
          <6> QED BY <1>4, <2>3, <3>3, <6>1 DEF AboutTo
        <5>2. \A u \in Threads : ~AboutTo(u) BY <4>3, <5>1 DEF AboutTo
        <5> QED BY <1>1, <3>3, <4>3, <5>2 DEF Accessed
      <4>4. CASE CC_send_query(t) /\ ~lost /\ Served(t)
        <5>1. s \in Stmts BY <1>1, <4>4, BracketsInside DEF CC_send_query, Asks
        <5>2. CASE asked' = [asked EXCEPT ![s] = TRUE]
          <6>1. asked'[s] = TRUE BY <1>1, <5>1, <5>2, Zenon DEF Types
          <6> QED BY <5>1, <6>1
        <5>3. CASE asked' # [asked EXCEPT ![s] = TRUE]
          <6>1. asked' = asked /\ accessed /\ ~AboutTo(t) BY <3>3, <4>4, <5>3, Ready
          <6>2. \A u \in Threads : ~AboutTo(u) BY <1>4, <2>3, <3>3, <6>1 DEF AboutTo
          <6> QED BY <1>1, <3>3, <6>1, <6>2 DEF Accessed
        <5> QED BY <5>2, <5>3
      <4>5. (asked' = asked /\ accessed' = accessed) \/ Ruling(t) \/ CC_start_stmt(t)
        BY <1>1, <1>7, BracketsOfSteps, TransOfSteps DEF Ruling
      <4>6. Undo(t) \/ Transact(t) => ~CC_send_query(t) BY DEF Undo, Transact, CC_send_query
      <4>7. CC_send_query(t) => Gone \/ (lost /\ asked' = asked /\ accessed' = accessed) \/ (~lost /\ Served(t))
        BY TransOfSteps
      <4>8. Undo(t) => Gone \/ (asked' = asked /\ accessed' = accessed) BY TransOfSteps
      <4>9. Transact(t) => Gone BY TransOfSteps
      <4> QED BY <4>1, <4>2, <4>3, <4>4, <4>5, <4>6, <4>7, <4>8, <4>9, Zenon DEF Ruling
    <3> QED BY <1>3, <3>1, <3>2, <3>3 DEF Accessed
  <2>4. CASE ~OnStmt(t)
    <3>1. ~CC_send_query(t) /\ ~Undo(t) /\ ~CC_start_stmt(t) /\ ~Discard(t)
      BY <1>1, <2>4, BracketsInside DEF CC_send_query, Undo, CC_start_stmt, Discard, Asks, Closes
    <3>2. CASE Transact(t)
      <4>1. Gone BY <3>2, TransOfSteps
      <4>2. ASSUME manual, NEW u \in Threads, AboutTo(u)'  PROVE FALSE
        <5>1. th[u].pc = "query" /\ OnStmt(u) BY <1>1, <2>2, <4>2, BracketsInside DEF Asks
        <5> QED BY <3>2, <4>2, <5>1, TransactWaits
      <4>3. \A r \in Stmts : ~asked'[r] BY <4>1, Zenon DEF Gone
      <4> QED BY <1>3, <4>1, <4>2, <4>3 DEF Gone, Accessed
    <3>3. CASE ~Transact(t)
      <4>1. UNCHANGED <<asked, accessed, keeps, lost, inError>>
        BY <1>1, <1>7, <3>1, <3>3, BracketsOfSteps, TransOfSteps DEF Ruling, conns
      <4>2. \A u \in Threads : AboutTo(u) => u # t BY <1>1, <2>4, BracketsInside DEF AboutTo, Asks
      <4>3. \A u \in Threads : AboutTo(u)' <=> AboutTo(u) BY <1>2, <2>2, <4>1, <4>2 DEF AboutTo
      <4>4. \A u \in Threads : AboutTo(u)' => th'[u].s = th[u].s BY <2>2
      <4> QED BY <1>1, <1>3, <4>1, <4>3, <4>4 DEF Accessed
    <3> QED BY <3>2, <3>3
  <2> QED BY <2>3, <2>4
<1> QED BY <1>6, <1>7

LEMMA AccessedCall ==
  ASSUME EInv, NEW t \in Threads, NEW shape \in Shapes, NEW s \in Stmts, Call(t, shape, s)
  PROVE  Accounted' /\ Accessed'
<1>1. Accounted /\ Accessed /\ Begins(t, shape, s) BY Beginning DEF EInv, IInv
<1>2. UNCHANGED <<keeps, asked, accessed, manual, inTrans, inError, lost>> BY DEF Call, conns
<1>3. \A u \in Threads : th'[u].pc = "start" <=> th[u].pc = "start" BY <1>1 DEF Begins
<1>4. \A u \in Threads : th[u].pc \in {"start", "query"} => th'[u].s = th[u].s BY <1>1 DEF Begins
<1>5. \A u \in Threads : AboutTo(u)' <=> AboutTo(u) BY <1>1, <1>2 DEF Begins, AboutTo
<1>6. \A u \in Threads : AboutTo(u) => th'[u].s = th[u].s BY <1>4 DEF AboutTo
<1>7. Accounted' BY <1>1, <1>2, <1>3, <1>4 DEF Accounted
<1>8. Accessed' BY <1>1, <1>2, <1>5, <1>6 DEF Accessed
<1> QED BY <1>7, <1>8

LEMMA BracketInvariant ==
  ASSUME PrudentTrans
  PROVE  Spec => []EInv
<1>1. Prudent BY DEF PrudentTrans
<1>2. Init => EInv
  <2>1. Init => IInv BY Begin
  <2>2. Init => Single /\ Guarded BY IdleFields, DataShapes DEF Init, Single, Guarded, OnStmt
  <2>3. Init => Accounted /\ Accessed
    <3> SUFFICES ASSUME Init  PROVE Accounted /\ Accessed OBVIOUS
    <3>1. \A s \in Stmts : keeps[s] = None /\ asked[s] = FALSE BY DEF Init
    <3>2. \A t \in Threads : th[t].pc = "idle" BY IdleFields DEF Init
    <3>3. accessed = FALSE BY DEF Init
    <3> QED BY <3>1, <3>2, <3>3 DEF Accounted, Accessed, AboutTo
  <2> QED BY <2>1, <2>2, <2>3 DEF EInv
<1>3. ASSUME EInv, IInv', [Next]_vars  PROVE EInv'
  <2>1. ASSUME NEW t \in Threads, Step(t)  PROVE EInv'
    BY <1>3, <2>1, SingleStep, GuardedStep, AccountedStep, AccessedStep DEF EInv
  <2>2. ASSUME NEW t \in Threads, NEW s \in Stmts, NEW shape \in Shapes, Call(t, shape, s)  PROVE EInv'
    BY <1>3, <2>2, SingleCall, GuardedCall, AccessedCall DEF EInv
  <2>3. CASE UNCHANGED vars
    <3>1. Single' /\ Guarded'
      BY <1>3, <2>3 DEF vars, brackets, conns, EInv, Single, Guarded, OnStmt, EndsTrans
    <3>2. Accounted' /\ Accessed'
      BY <1>3, <2>3 DEF vars, brackets, conns, EInv, Accounted, Accessed, AboutTo
    <3> QED BY <1>3, <3>1, <3>2 DEF EInv
  <2> QED BY <1>3, <2>1, <2>2, <2>3 DEF Next
<1> QED BY <1>1, <1>2, <1>3, Invariant, PTL DEF Spec

(* The rollback of a failed call undoes what this call, and no other, has  *)
(* sent, and undoes it whenever there is something to undo, whichever      *)
(* kinds of statements the transaction has seen: DiscardStatementSvp asks  *)
(* the connection whether it was accessed, which on a manual connection is *)
(* the same as asking the statement.                                       *)
THEOREM RolledBack ==
  ASSUME PrudentTrans
  PROVE  Spec => ErrorUndone
<1> DEFINE Undone == \A t \in Threads :
             (th[t].pc = "discard" /\ th[t].ret = "ERROR" /\ asked[th[t].s] /\ inTrans) => MustUndo(t)
           Own == \A t \in Threads : Undo(t) => asked[th[t].s]
<1>1. EInv => Undone
  <2> SUFFICES ASSUME EInv, NEW t \in Threads,
                      th[t].pc = "discard", th[t].ret = "ERROR", asked[th[t].s], inTrans
               PROVE  MustUndo(t)
    OBVIOUS
  <2>1. th[t].s \in Stmts BY BracketsInside DEF EInv, IInv, Closes
  <2> QED BY <2>1 DEF EInv, Accessed, MustUndo
<1>2. EInv => Own
  <2> SUFFICES ASSUME EInv, NEW t \in Threads, Undo(t)
               PROVE  asked[th[t].s]
    OBVIOUS
  <2>1. OnStmt(t) /\ accessed /\ manual /\ th[t].pc = "discard"
    BY BracketsInside DEF EInv, IInv, Closes, Undo, MustUndo, Single
  <2>2. ~\E u \in Threads : AboutTo(u) BY <2>1, BracketsInside DEF EInv, IInv, Single, AboutTo, Asks
  <2>3. PICK r \in Stmts : asked[r] BY <2>1, <2>2 DEF EInv, Accessed
  <2> QED BY <2>1, <2>3, OneBracket
<1> HIDE DEF Undone, Own
<1>3. Spec => []Undone /\ [][Own]_vars BY <1>1, <1>2, BracketInvariant, PTL
<1> QED BY <1>3 DEF ErrorUndone, Undone, Own
=============================================================================
