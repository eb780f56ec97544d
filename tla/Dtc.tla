--------------------------------- MODULE Dtc ---------------------------------
(***************************************************************************)
(* Distributed transactions (msdtc_enlist.cpp and the PgDtc_ functions of  *)
(* connection.c): an application enlists its connection in a transaction   *)
(* of the transaction manager, an IAsyncPG object stands between the two,  *)
(* and the manager's requests run in threads of their own: prepare, then   *)
(* commit or abort.  Meanwhile the application may go on with the          *)
(* connection, so the object may have to move to a connection of its own   *)
(* (isolated), and it may disconnect.  After a crash XaLib settles what    *)
(* the server still holds.                                                 *)
(*                                                                         *)
(* One transaction, one object, the application's connection "c1" and the  *)
(* one the object may move to, "c2".  ELOCK and the locks of the           *)
(* connections are variables; a section under SLOCK or LIFELOCK is one     *)
(* step, except in isolateXAConn, which waits for a connection's lock      *)
(* while it has them (short).  The transaction manager, the server's       *)
(* answers and the crash are external.                                     *)
(***************************************************************************)
EXTENDS XaLib

CONSTANTS
  MaxCalls,       \* a bound on the calls of the application in the transaction
  None

ASSUME CallsAssumption == MaxCalls \in Nat
ASSUME RiskyAssumption ==
  Risky \subseteq {"connect_fails", "busy_request", "abort_preparing", "early_request", "late_closer",
                   "quick_commit", "no_work", "forgotten_error", "prepared_left"}

Exec    == {"prepare", "commit", "abort"}            \* the three kinds of request threads
Closers == {"close_prepare", "close_commit", "close_abort"}
Actors  == {"app", "tm"} \cup Exec \cup Closers
Closer(e) == CASE e = "prepare" -> "close_prepare" [] e = "commit" -> "close_commit" [] OTHER -> "close_abort"
ExecOf(k) == CASE k = "close_prepare" -> "prepare" [] k = "close_commit" -> "commit" [] OTHER -> "abort"
Conns   == {"c1", "c2"}
Methods == {"link_only", "before_link", "rm_connection"}
Sessions == 1 .. 2

VARIABLES
  conn,           \* per ConnectionClass: pqconn, status, asdum, gTranInfo, in transaction, error
  sess,           \* the server's sessions: "closed", "idle", "global", "failed", "local"
  work,           \* the transaction's work on the server
  obj,            \* the IAsyncPG object
  thr,            \* its threads: eThread, eFin and whether the thread has ended
  res,            \* res of each request thread
  elock, short,   \* ELOCK; SLOCK and LIFELOCK while isolateXAConn keeps them
  cs,             \* CONN_CS of the connections
  pc, back,       \* where each thread is; where it goes after separateXAConn or Release
  tm,             \* the transaction manager: phase, vote, decision, answer
  link,           \* what an enlistment has found out about the link to the manager
  calls, lost     \* calls made; why a failure is no surprise (ghost)

dtcVars == <<conn, sess, work, obj, thr, res, elock, short, cs, pc, back, tm, link, calls, lost>>
vars == <<gids, faults, xaVars, dtcVars>>

NoConn == [pq |-> 0, status |-> "absent", asdum |-> FALSE, gtran |-> {}, inTrans |-> FALSE, err |-> FALSE]
\* CC_initialize: nothing is known of the server.
CC_initialize == [NoConn EXCEPT !.status = "not_connected"]
NoLink == [method |-> "link_only", regkey |-> FALSE, confirming |-> FALSE]
\* The constructor: one reference, nothing requested.
NewObj == [alive |-> TRUE, refcnt |-> 1, dtcconn |-> None, isolated |-> FALSE, prepared |-> FALSE,
           done |-> FALSE, accepted |-> FALSE, result |-> "none"]

Init ==
  /\ XaInit
  /\ conn = [c1 |-> [CC_initialize EXCEPT !.pq = 1, !.status = "connected"], c2 |-> NoConn]
  /\ sess = <<"idle", "closed">>
  /\ work = "none"
  /\ obj = [NewObj EXCEPT !.alive = FALSE, !.refcnt = 0]
  /\ thr = [e \in Exec |-> [handle |-> FALSE, fin |-> FALSE, ended |-> FALSE]]
  /\ res = [e \in Exec |-> "ok"]
  /\ elock = None /\ short = None
  /\ cs = [c \in Conns |-> None]
  /\ pc = [a \in Actors |-> IF a \in {"app", "tm"} THEN "idle" ELSE "off"]
  /\ back = [a \in Actors |-> "idle"]
  /\ tm = [phase |-> "none", vote |-> "none", decision |-> "none", answer |-> "none"]
  /\ link = NoLink
  /\ calls = 0 /\ lost = {}

-----------------------------------------------------------------------------
(* Small steps shared by the threads.                                      *)

Go(a, l) == pc' = [pc EXCEPT ![a] = l]
GoVia(a, l, b) == Go(a, l) /\ back' = [back EXCEPT ![a] = b]
Return(a) == Go(a, back[a])
Stays(v) == UNCHANGED v

\* The sessions as a connection leaves them when it is finished (PQfinish):
\* the server rolls back what was open on it.
Finish(c) == IF conn[c].pq = 0 THEN sess ELSE [sess EXCEPT ![conn[c].pq] = "closed"]
WorkAfterFinish(c) ==
  IF conn[c].pq # 0 /\ sess[conn[c].pq] \in {"global", "failed"} THEN "rolledback" ELSE work

\* CC_is_idle_in_global_transaction: the application has left the transaction
\* and no request is being executed.  (DTC_PREPARE_REQUESTED is never set.)
Idle(c) == conn[c].gtran = {"progress"}

\* PgDtc_connect: only a connection that was never made can be connected.
Connected(c, cn) ==
  IF cn[c].status = "not_connected" THEN [cn EXCEPT ![c] = [@ EXCEPT !.pq = 2, !.status = "connected"]] ELSE cn

-----------------------------------------------------------------------------
(* References.                                                             *)

\* AddRef, as part of the step that takes it.
AddRef(o) == [o EXCEPT !.refcnt = @ + 1]

\* Release: the last reference deletes the object, under all its locks.
Release(a) ==
  /\ pc[a] = "release" /\ short = None
  /\ obj' = [obj EXCEPT !.refcnt = @ - 1]
  /\ IF obj'.refcnt <= 0 THEN Go(a, "delete") ELSE Return(a)
  /\ Stays(<<link, conn, sess, work, thr, res, elock, short, cs, back, tm, calls, lost, gids, faults, xaVars>>)

\* Whether a thread still has to touch the object.
Inside(a) ==
  \/ a = "app" /\ pc[a] \in {"separate", "generate", "isolate", "cleanup", "reconnect", "release", "delete",
                             "set_conn", "set_async", "dc_wait", "dc_once", "dc_isolate", "dispose"}
  \/ a = "tm" /\ pc[a] \notin {"idle", "dead"}
  \/ a \in Exec \cup Closers /\ pc[a] \notin {"off", "ended", "dead"}

\* The second half of Release and the destructor: an isolated connection is
\* freed, the application's one is told that the object is gone.  Nobody
\* waits for the threads that close the handles ("late_closer").
Destroy(a) ==
  /\ pc[a] = "delete" /\ elock = None /\ short = None
  /\ "late_closer" \in Risky \/ \A k \in Closers \ {a} : pc[k] \notin {"start", "wait"}
  /\ IF obj.refcnt > 0
     THEN UNCHANGED <<obj, conn, sess, work>>
     ELSE /\ obj' = [obj EXCEPT !.alive = FALSE, !.dtcconn = None]
          /\ IF obj.dtcconn = None
             THEN UNCHANGED <<conn, sess, work>>
             ELSE /\ sess' = IF obj.isolated THEN Finish(obj.dtcconn) ELSE sess
                  /\ work' = IF obj.isolated THEN WorkAfterFinish(obj.dtcconn) ELSE work
                  /\ conn' = [conn EXCEPT ![obj.dtcconn] = IF obj.isolated THEN NoConn ELSE [@ EXCEPT !.asdum = FALSE]]
  /\ Return(a)
  /\ Stays(<<link, thr, res, elock, short, cs, back, tm, calls, lost, gids, faults, xaVars>>)

-----------------------------------------------------------------------------
(* separateXAConn: the object leaves the application's connection.  Once   *)
(* the work is prepared it takes any other connection (generateXAConn);    *)
(* before, the session itself moves over and the application gets a new    *)
(* one (isolateXAConn).  A request thread has ELOCK already.               *)

Separate(a) ==
  /\ pc[a] = "separate" /\ short = None
  /\ IF obj.isolated \/ obj.done \/ (~obj.prepared /\ obj.dtcconn = None)
     THEN Return(a)
     ELSE Go(a, IF obj.prepared THEN "generate" ELSE "isolate")
  /\ Stays(<<link, conn, sess, work, obj, thr, res, elock, short, cs, back, tm, calls, lost, gids, faults, xaVars>>)

\* PgDtc_isolate with useAnotherRoom: a new, unconnected ConnectionClass takes
\* the object; the application's connection keeps its session.
Generate(a) ==
  /\ pc[a] = "generate" /\ elock \in {None, a} /\ short = None
  /\ IF obj.dtcconn # None /\ ~obj.isolated /\ ~obj.done /\ obj.prepared
     THEN /\ conn' = [c1 |-> [conn["c1"] EXCEPT !.asdum = FALSE, !.gtran = {}],
                      c2 |-> [CC_initialize EXCEPT !.asdum = conn["c1"].asdum,
                                                   !.gtran = conn["c1"].gtran \cup {"isolated"}]]
          /\ obj' = [obj EXCEPT !.dtcconn = "c2", !.isolated = TRUE]
     ELSE UNCHANGED <<conn, obj>>
  /\ Return(a)
  /\ Stays(<<link, sess, work, thr, res, elock, short, cs, back, tm, calls, lost, gids, faults, xaVars>>)

\* isolateXAConn looks again under ELOCK, LIFELOCK and SLOCK and keeps them.
IsolateLock(a) ==
  /\ pc[a] \in {"isolate", "dc_isolate"} /\ elock \in {None, a} /\ short = None
  /\ IF obj.isolated \/ obj.done \/ obj.dtcconn = None
     THEN Return(a) /\ UNCHANGED <<elock, short>>
     ELSE Go(a, IF pc[a] = "isolate" THEN "cleanup" ELSE "dispose") /\ elock' = a /\ short' = a
  /\ Stays(<<link, conn, sess, work, obj, thr, res, cs, back, tm, calls, lost, gids, faults, xaVars>>)

\* PgDtc_isolate: CC_cleanup of the application's connection, then its copy
\* becomes the object's and it starts afresh.  CC_cleanup waits for the lock
\* of the connection and finishes the session, whatever keepCommunication
\* says: the work is lost.  Only a connection in the middle of a statement is
\* left alone, and then the session does move.  disposing: the application
\* disconnects and wants no new session.
Isolate(a) ==
  /\ pc[a] \in {"cleanup", "dispose"}
  /\ LET busy == conn["c1"].status = "executing"
         old  == IF busy THEN conn["c1"] ELSE [conn["c1"] EXCEPT !.pq = 0]
     IN /\ busy \/ cs["c1"] \in {None, a}
        /\ conn' = [c1 |-> CC_initialize, c2 |-> old]
        /\ sess' = IF busy THEN sess ELSE Finish("c1")
        /\ work' = IF busy THEN work ELSE WorkAfterFinish("c1")
        /\ lost' = IF work' = "rolledback" THEN lost \cup {"isolated"} ELSE lost
  /\ obj' = [obj EXCEPT !.dtcconn = "c2", !.isolated = TRUE]
  /\ short' = None
  /\ IF pc[a] = "cleanup" THEN Go(a, "reconnect") /\ UNCHANGED elock
     ELSE Return(a) /\ elock' = None
  /\ Stays(<<link, thr, res, cs, back, tm, calls, gids, faults, xaVars>>)

\* The application's connection gets its new session; ELOCK stays with a
\* request thread and is let go by the application.
Reconnect(a) ==
  /\ pc[a] = "reconnect"
  /\ \/ NoFault /\ conn' = Connected("c1", conn) /\ sess' = [sess EXCEPT ![2] = "idle"]
     \/ Fault /\ UNCHANGED <<conn, sess>>
  /\ elock' = IF a = "app" THEN None ELSE elock
  /\ Return(a)
  /\ Stays(<<link, work, obj, thr, res, short, cs, back, tm, calls, lost, gids, xaVars>>)

-----------------------------------------------------------------------------
(* The request threads (RequestExec).                                      *)

\* ELOCK, then for commit and abort the end of the prepare thread is awaited.
\* A prepare that finds the object done ends without an answer.
ExecEnter(e) ==
  /\ pc[e] = "enter" /\ elock = None
  /\ elock' = e
  /\ Go(e, IF e = "prepare" THEN (IF obj.done \/ obj.dtcconn = None THEN "leave" ELSE "get") ELSE "wait")
  /\ Stays(<<link, conn, sess, work, obj, thr, res, short, cs, back, tm, calls, lost, gids, faults, xaVars>>)

\* Wait_pThread, with ELOCK kept.
Wait_pThread(e) ==
  /\ pc[e] = "wait" /\ short = None
  /\ ~thr["prepare"].handle \/ thr["prepare"].fin \/ thr["prepare"].ended
  /\ thr' = IF thr["prepare"].handle THEN [thr EXCEPT !["prepare"].fin = TRUE] ELSE thr
  /\ Go(e, IF e = "abort" /\ (~obj.prepared \/ obj.done) THEN "done" ELSE "get")
  /\ Stays(<<link, conn, sess, work, obj, res, elock, short, cs, back, tm, calls, lost, gids, faults, xaVars>>)

\* getLockedXAConn: the connection's own lock is only tried; when it is taken,
\* or the application is in a transaction where COMMIT PREPARED is not
\* allowed, the object moves to a connection of its own.
getLockedXAConn(e) ==
  /\ pc[e] = "get" /\ short = None
  /\ IF obj.done \/ obj.isolated \/ obj.dtcconn = None
     THEN Go(e, "connect") /\ UNCHANGED <<back, cs>>
     ELSE IF (~obj.prepared \/ ~conn[obj.dtcconn].inTrans) /\ cs[obj.dtcconn] = None
     THEN cs' = [cs EXCEPT ![obj.dtcconn] = e] /\ Go(e, "begin") /\ UNCHANGED back
     ELSE GoVia(e, "separate", "get") /\ UNCHANGED cs
  /\ Stays(<<link, conn, sess, work, obj, thr, res, elock, short, tm, calls, lost, gids, faults, xaVars>>)

\* The rest of it for an isolated connection, which is connected at need.
\* Without a connection the command is skipped.
getIsolatedConn(e) ==
  /\ pc[e] = "connect"
  /\ IF obj.isolated /\ obj.dtcconn # None
     THEN /\ cs[obj.dtcconn] = None
          /\ cs' = [cs EXCEPT ![obj.dtcconn] = e]
          /\ \/ NoFault /\ conn' = Connected(obj.dtcconn, conn)
                /\ sess' = IF conn[obj.dtcconn].status = "not_connected" THEN [sess EXCEPT ![2] = "idle"] ELSE sess
             \/ conn[obj.dtcconn].status = "not_connected" /\ Fault /\ UNCHANGED <<conn, sess>>
          /\ Go(e, "begin")
     ELSE Go(e, IF e = "prepare" /\ res[e] = "ok" THEN "answer" ELSE "done") /\ NoFault /\ UNCHANGED <<conn, sess, cs>>
  /\ Stays(<<link, work, obj, thr, res, elock, short, back, tm, calls, lost, gids, xaVars>>)

\* PgDtc_set_property(inprogress).
ExecBegin(e) ==
  /\ pc[e] = "begin"
  /\ conn' = [conn EXCEPT ![obj.dtcconn].gtran = @ \cup {"executing"}]
  /\ Go(e, "command")
  /\ Stays(<<link, sess, work, obj, thr, res, elock, short, cs, back, tm, calls, lost, gids, faults, xaVars>>)

\* The end of a command: the flag and the lock of the connection.  ok: what
\* the operation told; the driver's view is that no transaction is open.
\* slip: the answer of the server is not looked at.
CommandEndsUnheeded(e, ok, next, open) ==
  /\ conn' = [conn EXCEPT ![obj.dtcconn] = [@ EXCEPT !.gtran = @ \ {"executing"}, !.inTrans = open]]
  /\ cs' = [cs EXCEPT ![obj.dtcconn] = None]
  /\ Go(e, next)
  /\ Stays(<<link, res, obj, thr, elock, short, back, tm, calls, lost, xaVars>>)

CommandEnds(e, ok, next, open) ==
  /\ conn' = [conn EXCEPT ![obj.dtcconn] = [@ EXCEPT !.gtran = @ \ {"executing"}, !.inTrans = open]]
  /\ cs' = [cs EXCEPT ![obj.dtcconn] = None]
  /\ res' = IF ok THEN res ELSE [res EXCEPT ![e] = "fail"]
  /\ Go(e, next)
  /\ Stays(<<link, obj, thr, elock, short, back, tm, calls, lost, xaVars>>)

\* PREPARE TRANSACTION.  The server answers ROLLBACK, without an error, when
\* there is no transaction or it has failed.
PrepareTransaction ==
  /\ pc["prepare"] = "command" /\ res["prepare"] = "ok"
  /\ LET s == conn[obj.dtcconn].pq IN
     \/ /\ s # 0 /\ NoFault
        /\ CommandEnds("prepare", TRUE, "answer", FALSE)
        /\ IF sess[s] = "global"
           THEN work' = "prepared" /\ gids' = gids \cup {OwnGid}
           ELSE work' = (IF sess[s] = "failed" THEN "rolledback" ELSE work) /\ UNCHANGED gids
        /\ sess' = [sess EXCEPT ![s] = "idle"]
     \/ /\ s # 0 /\ Fault
        /\ CommandEnds("prepare", FALSE, "done", FALSE)
        /\ work' = IF sess[s] \in {"global", "failed"} THEN "rolledback" ELSE work
        /\ sess' = [sess EXCEPT ![s] = "idle"]
        /\ UNCHANGED gids
     \/ /\ s = 0 /\ NoFault
        /\ CommandEnds("prepare", FALSE, "done", conn[obj.dtcconn].inTrans)
        /\ UNCHANGED <<sess, work, gids>>

\* COMMIT of a transaction in one phase, or ROLLBACK when the request came
\* with an error.  Nothing is sent when no transaction is known.
OnePhase ==
  /\ pc["prepare"] = "command" /\ res["prepare"] # "ok"
  /\ LET c == obj.dtcconn
         s == conn[c].pq
     IN \/ /\ s # 0 /\ conn[c].inTrans /\ NoFault
           /\ CommandEnds("prepare", TRUE, "done", FALSE)
           /\ work' = IF res["prepare"] = "single" /\ sess[s] = "global" THEN "committed" ELSE "rolledback"
           /\ sess' = [sess EXCEPT ![s] = "idle"]
        \/ /\ s # 0 /\ conn[c].inTrans /\ Fault
           /\ CommandEnds("prepare", FALSE, "done", FALSE)
           /\ work' = "rolledback"
           /\ sess' = [sess EXCEPT ![s] = "idle"]
        \/ /\ ~conn[c].inTrans /\ NoFault
           /\ CommandEnds("prepare", TRUE, "done", FALSE)
           /\ UNCHANGED <<sess, work>>
        \/ /\ s = 0 /\ conn[c].inTrans /\ NoFault
           /\ CommandEnds("prepare", FALSE, "done", TRUE)
           /\ UNCHANGED <<sess, work>>
  /\ UNCHANGED gids

\* COMMIT PREPARED and ROLLBACK PREPARED: an error without a session, inside a
\* transaction, or when the server does not know the transaction.
EndPrepared(e) ==
  /\ e # "prepare" /\ pc[e] = "command"
  /\ LET s  == conn[obj.dtcconn].pq
         ok == s # 0 /\ OwnGid \in gids /\ sess[s] = "idle"
     IN \/ /\ ok /\ NoFault
           /\ CommandEnds(e, TRUE, "done", conn[obj.dtcconn].inTrans)
           /\ gids' = gids \ {OwnGid}
           /\ work' = IF e = "commit" THEN "committed" ELSE "rolledback"
        \/ /\ ok /\ Fault
           /\ CommandEnds(e, FALSE, "done", conn[obj.dtcconn].inTrans)
           /\ UNCHANGED <<gids, work>>
        \/ /\ ~ok /\ NoFault
           /\ CommandEnds(e, FALSE, "done", conn[obj.dtcconn].inTrans)
           /\ UNCHANGED <<gids, work>>
  /\ UNCHANGED sess

\* SetDone: the connection of the application is given back at once.
SetDone(e) ==
  /\ pc[e] = "done" /\ short = None
  /\ obj' = [obj EXCEPT !.done = TRUE, !.accepted = TRUE, !.dtcconn = IF obj.isolated THEN @ ELSE None]
  /\ conn' = IF obj.dtcconn = None THEN conn ELSE [conn EXCEPT ![obj.dtcconn].asdum = FALSE]
  /\ Go(e, IF obj.dtcconn # None /\ obj.isolated THEN "free" ELSE "answer")
  /\ Stays(<<link, sess, work, thr, res, elock, short, cs, back, tm, calls, lost, gids, faults, xaVars>>)

\* and an isolated one is freed; CC_Destructor refuses one that was copied in
\* the middle of a statement.
FreeIsolated(e) ==
  /\ pc[e] = "free" /\ short = None
  /\ LET c == obj.dtcconn IN
     IF conn[c].status = "executing" THEN UNCHANGED <<conn, sess, work>>
     ELSE conn' = [conn EXCEPT ![c] = NoConn] /\ sess' = Finish(c) /\ work' = WorkAfterFinish(c)
  /\ obj' = [obj EXCEPT !.dtcconn = None]
  /\ Go(e, "answer")
  /\ Stays(<<link, thr, res, elock, short, cs, back, tm, calls, lost, gids, faults, xaVars>>)

\* PrepareRequestDone, CommitRequestDone, AbortRequestDone.  The manager has
\* the vote before the object knows that it is prepared ("result").
Answer(e) ==
  /\ pc[e] = "answer"
  /\ tm' = IF e = "prepare"
           THEN [tm EXCEPT !.vote = res[e],
                           !.decision = CASE res[e] = "ok" -> @ [] res[e] = "single" -> "commit" [] OTHER -> "abort",
                           !.phase = IF @ # "preparing" THEN @ ELSE IF res[e] = "ok" THEN "voted" ELSE "finished"]
           ELSE [tm EXCEPT !.answer = res[e], !.phase = IF res[e] = "ok" THEN "finished" ELSE "in_doubt"]
  /\ Go(e, IF e = "prepare" THEN "result" ELSE "leave")
  /\ Stays(<<link, conn, sess, work, obj, thr, res, elock, short, cs, back, calls, lost, gids, faults, xaVars>>)

SetPrepareResult ==
  /\ pc["prepare"] = "result" /\ short = None
  /\ obj' = [obj EXCEPT !.prepared = TRUE, !.result = res["prepare"]]
  /\ Go("prepare", "leave")
  /\ Stays(<<link, conn, sess, work, thr, res, elock, short, cs, back, tm, calls, lost, gids, faults, xaVars>>)

\* slip: ELOCK is kept by a prepare thread.
ExecLeaveLocked(e) ==
  /\ pc[e] = "leave"
  /\ elock' = IF e = "prepare" THEN e ELSE None
  /\ thr' = [thr EXCEPT ![e].ended = TRUE]
  /\ Go(e, "ended")
  /\ Stays(<<link, conn, sess, work, obj, res, short, cs, back, tm, calls, lost, gids, faults, xaVars>>)

ExecLeave(e) ==
  /\ pc[e] = "leave"
  /\ elock' = None
  /\ thr' = [thr EXCEPT ![e].ended = TRUE]
  /\ Go(e, "ended")
  /\ Stays(<<link, conn, sess, work, obj, res, short, cs, back, tm, calls, lost, gids, faults, xaVars>>)

\* CloseThread: the thread that waits for a request thread closes its handle
\* and, after a commit or an abort, drops the reference the object was born
\* with.  Both reads of the object are without a lock and without a
\* reference.  (What a prepare thread returns is the manager's answer, S_OK.)
CloseStart(k) ==
  /\ pc[k] = "start"
  /\ Go(k, IF ~thr[ExecOf(k)].handle \/ thr[ExecOf(k)].fin THEN "ended" ELSE "wait")
  /\ Stays(<<link, conn, sess, work, obj, thr, res, elock, short, cs, back, tm, calls, lost, gids, faults, xaVars>>)

CloseThread(k) ==
  /\ pc[k] = "wait" /\ short = None /\ thr[ExecOf(k)].ended
  /\ thr' = [thr EXCEPT ![ExecOf(k)] = [@ EXCEPT !.handle = FALSE, !.fin = TRUE]]
  /\ GoVia(k, IF k = "close_prepare" THEN "ended" ELSE "release", "ended")
  /\ Stays(<<link, conn, sess, work, obj, res, elock, short, cs, tm, calls, lost, gids, faults, xaVars>>)

-----------------------------------------------------------------------------
(* The transaction manager's requests, in a thread of its own.  When it    *)
(* makes them is external.                                                 *)

\* A request thread and the thread that will close it are started, under
\* ELOCK; else the request fails.
Start(e, r, told) ==
  \/ /\ NoFault
     /\ thr' = [thr EXCEPT ![e] = [handle |-> TRUE, fin |-> FALSE, ended |-> FALSE]]
     /\ res' = [res EXCEPT ![e] = r]
     /\ pc' = [pc EXCEPT !["tm"] = "release", ![e] = "enter", ![Closer(e)] = "start"]
     /\ UNCHANGED tm
  \/ /\ Fault
     /\ Go("tm", "release")
     /\ tm' = told
     /\ UNCHANGED <<thr, res>>

\* A request on work that is not prepared comes while no call is running
\* ("busy_request"), and not in the middle of the enlistment ("early_request").
Quiet ==
  \/ pc["app"] = "idle"
  \/ "busy_request" \in Risky /\ pc["app"] \notin {"set_conn", "set_async"}
  \/ "early_request" \in Risky /\ pc["app"] \in {"set_conn", "set_async"}

\* PrepareRequest: an error of the connection, as it stands now, makes the
\* vote a refusal.
PrepareRequest(single) ==
  /\ pc["tm"] = "idle" /\ tm.phase = "active" /\ short = None
  /\ Quiet
  /\ work # "none" \/ "no_work" \in Risky
  /\ res' = [res EXCEPT !["prepare"] =
               IF obj.dtcconn # None /\ conn[obj.dtcconn].err THEN "fail" ELSE IF single THEN "single" ELSE "ok"]
  /\ tm' = [tm EXCEPT !.phase = "preparing"]
  /\ GoVia("tm", "pr_start", "idle")
  /\ Stays(<<link, conn, sess, work, obj, thr, elock, short, cs, calls, lost, gids, faults, xaVars>>)

PrepareStart ==
  /\ pc["tm"] = "pr_start" /\ elock = None
  /\ obj' = AddRef(obj)
  /\ Start("prepare", res["prepare"], [tm EXCEPT !.phase = "decided", !.decision = "abort"])
  /\ Stays(<<link, conn, sess, work, elock, short, cs, back, calls, lost, gids, xaVars>>)

\* The other participants and the clock decide (external).
Decide ==
  /\ tm.phase = "voted"
  /\ \E d \in {"commit", "abort"} : tm' = [tm EXCEPT !.phase = "decided", !.decision = d]
  /\ Stays(<<link, conn, sess, work, obj, thr, res, elock, short, cs, pc, back, calls, lost, gids, faults, xaVars>>)

\* CommitRequest is refused by an object that does not know that it is
\* prepared: the manager may ask before SetPrepareResult ("quick_commit").
CommitRequest ==
  /\ pc["tm"] = "idle" /\ tm.phase = "decided" /\ tm.decision = "commit" /\ short = None
  /\ obj.prepared \/ "quick_commit" \in Risky
  /\ IF ~obj.prepared \/ obj.done \/ obj.result # "ok"
     THEN tm' = [tm EXCEPT !.phase = "in_doubt", !.answer = "fail"] /\ UNCHANGED <<obj, pc, back>>
     ELSE /\ obj' = AddRef(obj)
          /\ tm' = [tm EXCEPT !.phase = "asked"]
          /\ GoVia("tm", "co_start", "idle")
  /\ Stays(<<link, conn, sess, work, thr, res, elock, short, cs, calls, lost, gids, faults, xaVars>>)

CommitStart ==
  /\ pc["tm"] = "co_start" /\ elock = None
  /\ Start("commit", "ok", [tm EXCEPT !.phase = "in_doubt"])
  /\ obj' = [obj EXCEPT !.accepted = TRUE]
  /\ Stays(<<link, conn, sess, work, elock, short, cs, back, calls, lost, gids, xaVars>>)

\* AbortRequest: as decided, or at any time before the prepare is requested
\* (a timeout).  While the prepare is under way it is "abort_preparing".
AbortRequest ==
  /\ pc["tm"] = "idle" /\ short = None
  /\ \/ tm.phase = "decided" /\ tm.decision = "abort" /\ (obj.prepared \/ (tm.vote = "none" /\ Quiet))
     \/ tm.phase = "active" /\ Quiet
     \/ tm.phase = "preparing" /\ res["prepare"] # "single" /\ "abort_preparing" \in Risky
  /\ IF obj.done \/ (obj.prepared /\ obj.result # "ok")
     THEN tm' = [tm EXCEPT !.phase = "finished", !.decision = "abort"] /\ UNCHANGED <<obj, pc, back>>
     ELSE /\ obj' = AddRef(obj)
          /\ tm' = [tm EXCEPT !.phase = "asked", !.decision = "abort"]
          /\ GoVia("tm", "ab_enter", "idle")
  /\ Stays(<<link, conn, sess, work, thr, res, elock, short, cs, calls, lost, gids, faults, xaVars>>)

\* Work that is not prepared is rolled back here, with ELOCK kept while the
\* connection's lock is awaited.
AbortEnter ==
  /\ pc["tm"] = "ab_enter" /\ elock = None
  /\ elock' = "tm"
  /\ IF ~obj.prepared /\ obj.dtcconn # None
     THEN /\ conn' = [conn EXCEPT ![obj.dtcconn].gtran = @ \cup {"executing"}]
          /\ Go("tm", "ab_rollback")
     ELSE Go("tm", "ab_start") /\ UNCHANGED conn
  /\ Stays(<<link, sess, work, obj, thr, res, short, cs, back, tm, calls, lost, gids, faults, xaVars>>)

AbortRollback ==
  /\ pc["tm"] = "ab_rollback"
  /\ LET c == obj.dtcconn
         s == conn[c].pq
     IN /\ IF s # 0 /\ conn[c].inTrans
           THEN /\ cs[c] = None
                /\ sess' = [sess EXCEPT ![s] = "idle"]
                /\ work' = IF sess[s] \in {"global", "failed"} THEN "rolledback" ELSE work
           ELSE UNCHANGED <<sess, work>>
        /\ conn' = [conn EXCEPT ![c] = [@ EXCEPT !.gtran = @ \ {"executing"}, !.inTrans = @ /\ s = 0]]
  /\ Go("tm", "ab_start")
  /\ Stays(<<link, obj, thr, res, elock, short, cs, back, tm, calls, lost, gids, faults, xaVars>>)

AbortStart ==
  /\ pc["tm"] = "ab_start"
  /\ Start("abort", "ok", [tm EXCEPT !.phase = "in_doubt"])
  /\ obj' = [obj EXCEPT !.accepted = TRUE]
  /\ elock' = None
  /\ Stays(<<link, conn, sess, work, short, cs, back, calls, lost, gids, xaVars>>)

-----------------------------------------------------------------------------
(* The application.                                                        *)

\* EnlistInDtc: the manager is looked for.  The method says what is checked of
\* the link.  (A local transaction would be rolled back; none is open here.)
EnlistInDtc ==
  /\ pc["app"] = "idle" /\ tm.phase = "none"
  /\ \/ \E m \in Methods : link' = [NoLink EXCEPT !.method = m]
        /\ Go("app", "recovery") /\ NoFault
     \/ Fault /\ UNCHANGED <<link, pc>>
  /\ Stays(<<conn, sess, work, obj, thr, res, elock, short, cs, back, tm, calls, lost, gids, xaVars>>)

\* PgDtc_is_recovery_available: whether the manager's process could connect
\* as this user does: certainly not with a verified root certificate,
\* doubtfully with SSL.  Only one method refuses the enlistment for it.
PgDtc_is_recovery_available ==
  /\ pc["app"] = "recovery"
  /\ \E level \in {"no", "doubtful", "yes"} :
       Go("app", IF level = "no" /\ link.method = "before_link" THEN "idle" ELSE "create")
  /\ Stays(<<link, conn, sess, work, obj, thr, res, elock, short, cs, back, tm, calls, lost, gids, faults, xaVars>>)

\* XARMCreate, and again after E_FAIL: once the registry has been mended
\* (regkeyCheck), once without the check of the connection, only to word the
\* error.  A link made to word the error is an error.
XARMCreate ==
  /\ pc["app"] = "create"
  /\ \/ /\ NoFault
        /\ Go("app", IF link.confirming THEN "idle" ELSE "enlist")
        /\ UNCHANGED link
     \/ /\ Fault
        /\ \E refused \in BOOLEAN, mended \in BOOLEAN :
             LET again   == refused /\ ~link.regkey /\ mended
                 confirm == refused /\ ~again /\ link.method = "rm_connection" /\ ~link.confirming
             IN /\ link' = [link EXCEPT !.regkey = @ \/ refused, !.confirming = @ \/ confirm]
                /\ Go("app", IF again \/ confirm THEN "create" ELSE "idle")
  /\ Stays(<<conn, sess, work, obj, thr, res, elock, short, cs, back, tm, calls, lost, gids, xaVars>>)

\* ConvertTridToXID and EnlistWithRM: from here on the manager knows the
\* object, before the object knows its connection.
EnlistWithRM ==
  /\ pc["app"] = "enlist"
  /\ \/ /\ NoFault
        /\ obj' = NewObj
        /\ tm' = [tm EXCEPT !.phase = "active"]
        /\ link' = NoLink
        /\ Go("app", "set_conn")
     \/ Fault /\ UNCHANGED <<obj, tm, link>> /\ Go("app", "idle")
  /\ Stays(<<conn, sess, work, thr, res, elock, short, cs, back, calls, lost, gids, xaVars>>)

SetConnection ==
  /\ pc["app"] = "set_conn" /\ short = None
  /\ obj' = [obj EXCEPT !.dtcconn = "c1"]
  /\ Go("app", "set_async")
  /\ Stays(<<link, conn, sess, work, thr, res, elock, short, cs, back, tm, calls, lost, gids, faults, xaVars>>)

\* PgDtc_set_async and the flag that the connection is enlisted.
PgDtc_set_async ==
  /\ pc["app"] = "set_async" /\ short = None
  /\ conn' = [conn EXCEPT !["c1"] = [@ EXCEPT !.asdum = TRUE, !.gtran = {"progress", "enlisted"}]]
  /\ Go("app", "idle")
  /\ Stays(<<link, sess, work, obj, thr, res, elock, short, cs, back, tm, calls, lost, gids, faults, xaVars>>)

\* The application starts no call while a request on unprepared work is under
\* way ("busy_request").
MayCall ==
  /\ pc["app"] = "idle" /\ tm.phase # "none" /\ calls < MaxCalls
  /\ \/ "busy_request" \in Risky
     \/ obj.prepared \/ tm.phase \notin {"preparing", "voted", "decided", "asked"}

\* SQLSetConnectAttr(SQL_ATTR_ENLIST_IN_DTC, NULL).
Leave ==
  /\ MayCall /\ "enlisted" \in conn["c1"].gtran
  /\ conn' = [conn EXCEPT !["c1"].gtran = @ \ {"enlisted"}]
  /\ Stays(<<link, sess, work, obj, thr, res, elock, short, cs, pc, back, tm, calls, lost, gids, faults, xaVars>>)

\* IsolateDtcConn, with LIFELOCK so that the object cannot die before it is
\* referenced: an object whose connection is idle moves out of the way.
\* slip: the reference is not taken.
IsolateDtcConnBare(next) ==
  IF conn["c1"].asdum /\ Idle("c1")
  THEN UNCHANGED obj /\ GoVia("app", "separate", next)
  ELSE Go("app", next) /\ UNCHANGED <<obj, back>>

IsolateDtcConn(next) ==
  IF conn["c1"].asdum /\ Idle("c1")
  THEN obj' = AddRef(obj) /\ GoVia("app", "separate", next)
  ELSE Go("app", next) /\ UNCHANGED <<obj, back>>
\* A call on the connection: CC_examine_global_transaction, without its lock,
\* then the lock and CC_clear_error.
ExamineGlobalTransaction ==
  /\ MayCall /\ short = None
  /\ ~conn["c1"].err \/ sess[1] # "failed" \/ "forgotten_error" \in Risky
  /\ calls' = calls + 1
  /\ IsolateDtcConn("ex_release")
  /\ Stays(<<link, conn, sess, work, thr, res, elock, short, cs, tm, lost, gids, faults, xaVars>>)

\* A statement: the lock of the connection, then SC_execute and RequestStart,
\* which moves an idle object away with that lock kept.
StatementEnter ==
  /\ MayCall /\ cs["c1"] = None
  /\ cs' = [cs EXCEPT !["c1"] = "app"]
  /\ calls' = calls + 1
  /\ Go("app", "st_start")
  /\ Stays(<<link, conn, sess, work, obj, thr, res, elock, short, back, tm, lost, gids, faults, xaVars>>)

RequestStart ==
  /\ pc["app"] = "st_start" /\ short = None
  /\ conn' = IF conn["c1"].status = "connected" THEN [conn EXCEPT !["c1"].status = "executing"] ELSE conn
  /\ IsolateDtcConn("st_release")
  /\ Stays(<<link, sess, work, thr, res, elock, short, cs, tm, calls, lost, gids, faults, xaVars>>)

\* Back from separateXAConn: the reference is dropped.  The label tells
\* whether one was taken: without one the thread comes here directly.
AfterIsolate ==
  /\ pc["app"] \in {"ex_release", "st_release", "dc_release"}
  /\ LET next == CASE pc["app"] = "ex_release" -> "ex_clear" [] pc["app"] = "st_release" -> "st_run" [] OTHER -> "dc_finish"
     IN IF back["app"] = pc["app"] THEN GoVia("app", "release", next) ELSE Go("app", next) /\ UNCHANGED back
  /\ Stays(<<link, conn, sess, work, obj, thr, res, elock, short, cs, tm, calls, lost, gids, faults, xaVars>>)

ExamineEnds ==
  /\ pc["app"] = "ex_clear" /\ cs["c1"] = None
  /\ conn' = [conn EXCEPT !["c1"].err = FALSE]
  /\ GoVia("app", "idle", "idle")
  /\ Stays(<<link, sess, work, obj, thr, res, elock, short, cs, tm, calls, lost, gids, faults, xaVars>>)

\* The statement on the session of the connection: in the global transaction
\* while the object is there and the work not prepared, else the
\* application's own, which it may leave open.  A statement that fails leaves
\* an error on the connection and may leave the transaction failed.
StatementRun ==
  /\ pc["app"] = "st_run"
  /\ LET s == conn["c1"].pq
         global == conn["c1"].asdum /\ ~obj.prepared /\ work \in {"none", "open"}
     IN /\ IF s = 0
           THEN UNCHANGED <<sess, work>> /\ conn' = [conn EXCEPT !["c1"].err = TRUE]
           ELSE \/ /\ sess' = [sess EXCEPT ![s] = IF global THEN "global" ELSE "local"]
                   /\ sess[s] # "failed"
                   /\ work' = IF global THEN "open" ELSE work
                   /\ conn' = [conn EXCEPT !["c1"] = [@ EXCEPT !.inTrans = TRUE, !.status = "connected"]]
                \/ /\ global
                   /\ \E f \in {"global", "failed"} : sess' = [sess EXCEPT ![s] = IF sess[s] = "failed" THEN "failed" ELSE f]
                   /\ work' = "open"
                   /\ conn' = [conn EXCEPT !["c1"] = [@ EXCEPT !.inTrans = TRUE, !.err = TRUE, !.status = "connected"]]
                \/ /\ ~global
                   /\ sess' = [sess EXCEPT ![s] = "idle"]
                   /\ conn' = [conn EXCEPT !["c1"] = [@ EXCEPT !.inTrans = FALSE, !.status = "connected"]]
                   /\ UNCHANGED work
  /\ cs' = [cs EXCEPT !["c1"] = None]
  /\ lost' = IF conn'["c1"].err THEN lost \cup {"error"} ELSE lost
  /\ GoVia("app", "idle", "idle")
  /\ Stays(<<link, obj, thr, res, elock, short, tm, calls, gids, faults, xaVars>>)

\* SQLDisconnect: DtcOnDisconnect takes a reference and waits for the prepare
\* thread, then two seconds for the commit or the abort.
DtcOnDisconnect ==
  /\ MayCall /\ short = None /\ conn["c1"].status = "connected"
  /\ work # "prepared" \/ "prepared_left" \in Risky
  /\ calls' = MaxCalls
  /\ IF conn["c1"].asdum
     THEN obj' = AddRef(obj) /\ GoVia("app", "dc_wait", "dc_release")
     ELSE Go("app", "dc_finish") /\ UNCHANGED <<obj, back>>
  /\ Stays(<<link, conn, sess, work, thr, res, elock, short, cs, tm, lost, gids, faults, xaVars>>)

ReleaseWait ==
  /\ pc["app"] = "dc_wait" /\ short = None
  /\ IF obj.isolated \/ obj.dtcconn = None THEN Return("app") /\ UNCHANGED thr
     ELSE /\ ~thr["prepare"].handle \/ thr["prepare"].fin \/ thr["prepare"].ended
          /\ thr' = IF thr["prepare"].handle THEN [thr EXCEPT !["prepare"].fin = TRUE] ELSE thr
          /\ Go("app", "dc_once")
  /\ Stays(<<link, conn, sess, work, obj, res, elock, short, cs, back, tm, calls, lost, gids, faults, xaVars>>)

\* Wait_cThread, once: the thread ends or the two seconds are over.
ReleaseConnection ==
  /\ pc["app"] = "dc_once" /\ short = None
  /\ LET t == IF thr["commit"].handle THEN "commit" ELSE "abort"
         waits == (thr["commit"].handle \/ thr["abort"].handle \/ obj.accepted) /\ ~obj.done
     IN \/ waits /\ thr[t].handle /\ thr[t].ended /\ thr' = [thr EXCEPT ![t].fin = TRUE]
        \/ UNCHANGED thr
  /\ Go("app", IF ~obj.isolated /\ ~obj.done /\ obj.dtcconn # None /\ conn["c1"].status = "connected"
               THEN "dc_isolate" ELSE back["app"])
  /\ Stays(<<link, conn, sess, work, obj, res, elock, short, cs, back, tm, calls, lost, gids, faults, xaVars>>)

\* PGAPI_Disconnect: CC_cleanup finishes what session the connection has.
PGAPI_Disconnect ==
  /\ pc["app"] = "dc_finish" /\ cs["c1"] = None
  /\ sess' = Finish("c1") /\ work' = WorkAfterFinish("c1")
  /\ conn' = [conn EXCEPT !["c1"] = [@ EXCEPT !.pq = 0, !.status = "not_connected", !.inTrans = FALSE]]
  /\ GoVia("app", "idle", "idle")
  /\ Stays(<<link, obj, thr, res, elock, short, cs, tm, calls, lost, gids, faults, xaVars>>)

-----------------------------------------------------------------------------
(* Crash and recovery.                                                     *)

\* The application's process dies: its threads, connections and the object
\* are gone, the server rolls back what is not prepared.  A manager without a
\* vote decides to abort; of a transaction it wanted in one phase it never
\* learns the outcome (external).
Crash ==
  /\ tm.phase # "none" /\ pc["app"] # "dead" /\ Fault
  /\ pc' = [a \in Actors |-> "dead"]
  /\ conn' = [c \in Conns |-> NoConn]
  /\ sess' = [s \in Sessions |-> "closed"]
  /\ work' = IF \E s \in Sessions : sess[s] \in {"global", "failed"} THEN "rolledback" ELSE work
  /\ obj' = [obj EXCEPT !.alive = FALSE, !.refcnt = 0, !.dtcconn = None]
  /\ thr' = [e \in Exec |-> [handle |-> FALSE, fin |-> FALSE, ended |-> FALSE]]
  /\ elock' = None /\ short' = None /\ cs' = [c \in Conns |-> None]
  /\ LET single == tm.phase = "preparing" /\ res["prepare"] = "single" IN
     tm' = [tm EXCEPT !.phase = IF single THEN "finished" ELSE IF @ \in {"finished", "voted"} THEN @ ELSE "in_doubt",
                      !.decision = IF tm.phase \in {"active", "preparing"} /\ ~single THEN "abort" ELSE @]
  /\ Stays(<<link, res, back, calls, lost, gids, xaVars>>)

\* The manager settles what is in doubt with the XA routines.
Recover ==
  /\ tm.phase = "in_doubt" \/ (tm.phase = "decided" /\ pc["tm"] = "dead")
  /\ xaPc = "off"
  /\ xaPc' = "open"
  /\ Stays(<<gids, faults, xaConn, xaVec, xaPos, xaFound, dtcVars>>)

xa_commit ==
  /\ tm.decision = "commit"
  /\ xa_resolve(OwnXid)
  /\ work' = IF OwnGid \in gids \ gids' THEN "committed" ELSE work
  /\ Stays(<<link, conn, sess, obj, thr, res, elock, short, cs, pc, back, tm, calls, lost>>)

xa_rollback ==
  /\ tm.decision # "commit"
  /\ xa_resolve(OwnXid)
  /\ work' = IF OwnGid \in gids \ gids' THEN "rolledback" ELSE work
  /\ Stays(<<link, conn, sess, obj, thr, res, elock, short, cs, pc, back, tm, calls, lost>>)

XaCall ==
  /\ XaRoutine
  /\ tm' = IF xaPc = "settle" THEN [tm EXCEPT !.phase = "finished"] ELSE tm
  /\ Stays(<<link, conn, sess, work, obj, thr, res, elock, short, cs, pc, back, calls, lost>>)

-----------------------------------------------------------------------------
ExecStep(e) ==
  \/ ExecEnter(e) \/ Wait_pThread(e) \/ getLockedXAConn(e) \/ getIsolatedConn(e) \/ ExecBegin(e)
  \/ EndPrepared(e) \/ SetDone(e) \/ FreeIsolated(e) \/ Answer(e) \/ ExecLeave(e)
PrepareStep == PrepareTransaction \/ OnePhase \/ SetPrepareResult
MoveStep(a) == Separate(a) \/ Generate(a) \/ IsolateLock(a) \/ Isolate(a) \/ Reconnect(a)
RefStep(a) == Release(a) \/ Destroy(a)
CloserStep(k) == CloseStart(k) \/ CloseThread(k)
RequestStep == PrepareStart \/ CommitStart \/ AbortEnter \/ AbortRollback \/ AbortStart
CallStep ==
  \/ PgDtc_is_recovery_available \/ XARMCreate \/ EnlistWithRM \/ SetConnection \/ PgDtc_set_async \/ RequestStart \/ AfterIsolate \/ ExamineEnds
  \/ StatementRun \/ ReleaseWait \/ ReleaseConnection \/ PGAPI_Disconnect
Request == (\E single \in BOOLEAN : PrepareRequest(single)) \/ Decide \/ CommitRequest \/ AbortRequest
Call == EnlistInDtc \/ Leave \/ ExamineGlobalTransaction \/ StatementEnter \/ DtcOnDisconnect
XaStep == Recover \/ xa_commit \/ xa_rollback \/ XaCall

Next ==
  \/ \E e \in Exec : ExecStep(e)
  \/ PrepareStep
  \/ \E a \in {"app"} \cup Exec : MoveStep(a)
  \/ \E a \in {"app", "tm"} \cup Closers : RefStep(a)
  \/ \E k \in Closers : CloserStep(k)
  \/ RequestStep \/ CallStep \/ Request \/ Call \/ Crash \/ XaStep

\* Threads that can go on do, the manager goes on with a transaction once it
\* was asked to prepare, and recovery is tried until it is through; the
\* application owes nothing.
Fairness ==
  /\ \A e \in Exec : WF_vars(ExecStep(e)) /\ WF_vars(MoveStep(e))
  /\ WF_vars(PrepareStep) /\ WF_vars(MoveStep("app")) /\ WF_vars(RequestStep) /\ WF_vars(CallStep)
  /\ \A a \in {"app", "tm"} \cup Closers : WF_vars(RefStep(a))
  /\ \A k \in Closers : WF_vars(CloserStep(k))
  /\ WF_vars(Decide \/ CommitRequest \/ (tm.phase = "decided" /\ AbortRequest))
  /\ WF_vars(XaStep)

Spec == Init /\ [][Next]_vars /\ Fairness

-----------------------------------------------------------------------------
(* Properties.                                                             *)

\* The server never keeps what the manager decided to abort and never loses
\* what it decided to commit: PrepareRequestDone(S_OK) is sent only for work
\* that PREPARE TRANSACTION saved, and only one of the two endings is sent
\* for it, by the request threads or by xa_commit and xa_rollback.  An ending
\* reported as done is done: nothing stays prepared or open on any session.
\* A vote is refused only because a command or a thread failed, a statement
\* left its error on the connection, or the work is gone: the application
\* left the transaction and its next call made the driver isolate the object
\* before the prepare, where CC_cleanup finishes the session although
\* keepCommunication asks it not to (a defect of the code, connection.c:1212).
\* Once the work is prepared the application may go on with its connection:
\* the decided ending fails only because a command or a thread did.
Atomic ==
  /\ tm.decision = "commit" => work # "rolledback"
  /\ tm.decision = "abort" => work # "committed"
  /\ tm.answer = "ok" =>
       /\ OwnGid \notin gids /\ \A s \in Sessions : sess[s] \notin {"global", "failed"}
       /\ tm.decision = "commit" => work = "committed"
  /\ tm.vote = "fail" => faults > 0 \/ "error" \in lost \/ ("isolated" \in lost /\ work = "rolledback")
  /\ tm.answer = "fail" => faults > 0

\* The IAsyncPG object lives as long as a thread is in one of its methods and
\* as long as a connection points to it (the references, LIFELOCK, SetDone).
NoUseAfterFree ==
  tm.phase # "none" /\ pc["app"] # "dead" /\ ~obj.alive =>
    /\ \A a \in Actors : ~Inside(a)
    /\ \A c \in Conns : ~conn[c].asdum

\* Every request that is accepted is answered: the threads, the waits for one
\* another's ends and the locks never stop each other.
Answered ==
  /\ tm.phase = "preparing" ~> tm.phase # "preparing"
  /\ tm.phase = "asked" ~> tm.phase # "asked"

\* A transaction the server holds prepared is ended in the end, whatever
\* fails in between: by the request threads or after a crash by the XA
\* routines, whose scan finds it among the transactions of others.
Resolved == OwnGid \in gids ~> OwnGid \notin gids
==============================================================================
