-------------------------- MODULE ConnTrans_proofs --------------------------
(* Proofs about ConnTrans, for any set of cursors, any calls of the        *)
(* application and any bounds on them: the rest of the actions, the        *)
(* invariant, and the theorems.                                            *)
(*                                                                         *)
(* The order: the end of a query and the status read then, the extended    *)
(* protocol, one command of a query (first those of the application, then  *)
(* each kind the driver sends), the calls of the application, the theorems *)
(* that follow from the invariant.                                         *)
EXTENDS ConnTrans_tasks

\* The next command of the query.
LEMMA WireHead ==
  ASSUME IInv, conn.alive, Top("wire"), H.q # << >>
  PROVE  /\ H \in Tasks /\ Head(H.q) \in Cmds /\ Tail(H.q) \in Seq(Cmds) /\ "failed" \notin H.f
         /\ Head(H.q).op \in {"declare", "close", "fetch", "move"} => Head(H.q).h \in Handles
<1>1. H \in Tasks /\ StackInv /\ (\A k \in Rest : k \in All(todo)) /\ \A k \in Rest : k \in Tasks
  BY TypesOf, StackFacts DEF Top, H
<1>2. Head(H.q) \in Cmds /\ Tail(H.q) \in Seq(Cmds) BY <1>1, TaskFields, HeadRest
<1>3. /\ "failed" \notin H.f
      /\ IF conn.op = "none" THEN SoloWire \/ BeginWire \/ QueryWire ELSE SvpWire
  BY LiveParts DEF TalkInv, WireInv
<1>4. \A k \in Rest : k.t \in {"moved", "closed"} => k.h \in Handles BY <1>1 DEF StackInv, HandleTasks
<1>5. \A k \in Rest : k.t = "opened" => k.h \in Handles BY <1>1 DEF StackInv, HandleTasks
<1>6. \A k \in Rest : k.t = "discard_free" /\ discardp[k.i].type = "p" => discardp[k.i].h \in Handles
  <2>1. \A k \in Rest : k.t = "discard_free" => k.i = Len(discardp) /\ k.i > 0
    BY <1>1, LiveParts DEF DiscInv
  <2> SUFFICES ASSUME NEW k \in Rest, k.t = "discard_free", discardp[k.i].type = "p"
               PROVE  discardp[k.i].h \in Handles
    OBVIOUS
  <2>2. Len(discardp) \in Nat BY TypesOf
  <2>3. k.i \in 1..Len(discardp) BY <2>1, <2>2
  <2> QED BY <2>3, LiveParts DEF DiscInv
<1> DEFINE Fine(c) == c.op \in {"declare", "close", "fetch", "move"} => c.h \in Handles
<1>7. ASSUME NEW c, Quick(c)
      PROVE  Fine(c)
  <2>1. CASE c = Cmd("deallocate") BY <2>1, CmdType DEF CmdNames
  <2>2. CASE \E k \in Rest : /\ k.t = "discard_free" /\ discardp[k.i].type = "p"
                             /\ c = CloseIt(discardp[k.i].h)
    BY <1>6, <2>2, FetchType
  <2>3. CASE \E k \in Rest : k.t = "moved" /\ c = CursCmd("move", k.h)
    <3>1. PICK k \in Rest : k.t = "moved" /\ c = CursCmd("move", k.h) BY <2>3
    <3>2. k.h \in Handles /\ "move" \in CmdNames BY <1>4, <3>1 DEF CmdNames
    <3>3. CursCmd("move", k.h).h = k.h BY <3>2, CursCmdType
    <3> QED BY <3>1, <3>2, <3>3
  <2>4. CASE \E k \in Rest : k.t = "closed" /\ c = CloseIt(k.h) /\ Only(Ends) BY <1>4, <2>4, FetchType
  <2> QED BY <1>7, <2>1, <2>2, <2>3, <2>4 DEF Quick
<1>8. ASSUME NEW q, Body(q)
      PROVE  Fine(Head(q))
  <2>1. CASE \E op \in Kinds : IsOp(q, op)
    <3>1. PICK op \in Kinds : Head(q) = Cmd(op) BY <2>1 DEF IsOp, One
    <3>2. Head(q).op = op BY <3>1, CmdType DEF CmdNames
    <3> QED BY <3>2 DEF Kinds
  <2>2. CASE \E h \in Handles, hold \in BOOLEAN : IsOpen(q, h, hold) BY <2>2, DeclareType DEF IsOpen, Two
  <2> QED BY <1>8, <2>1, <2>2 DEF Body
<1>9. \A op \in Kinds, s \in Svps : SvpCmd(op, s).op = op /\ Cmd(op).op = op
  BY SvpCmdType, CmdType DEF CmdNames
<1>10. "begin" \in Kinds /\ "commit" \in Kinds /\ "rollback" \in Kinds /\ "savepoint" \in Kinds
       /\ "release" \in Kinds /\ Svps = {"exec", "query", "user"}
       /\ Kinds \cap {"declare", "close", "fetch", "move"} = {}
  BY DEF Kinds, Svps
<1>11. ASSUME SoloWire
       PROVE  Fine(Head(H.q))
  <2>1. CASE Body(H.q) BY <1>8, <2>1
  <2>2. CASE \E k \in Rest : k.t = "opened" /\ One(H.q, Fetch(k.h)) BY <1>5, <2>2, FetchType DEF One
  <2>3. CASE One(H.q, Cmd("begin")) \/ IsEnd(H.q) BY <1>9, <1>10, <2>3 DEF One, IsEnd
  <2>4. CASE \E c \in Cmds : One(H.q, c) /\ Quick(c) BY <1>7, <2>4 DEF One
  <2> QED BY <1>11, <2>1, <2>2, <2>3, <2>4 DEF SoloWire
<1>12. ASSUME BeginWire
       PROVE  Fine(Head(H.q))
  BY <1>9, <1>10, <1>12 DEF BeginWire
<1>13. ASSUME QueryWire
       PROVE  Fine(Head(H.q))
  <2>1. CASE \E c \in Cmds : Two(H.q, c, SvpCmd("release", "query")) /\ Quick(c) BY <1>7, <2>1 DEF Two
  <2> QED BY <1>9, <1>10, <1>13, <2>1 DEF QueryWire, One
<1>14. ASSUME SvpWire
       PROVE  Fine(Head(H.q))
  BY <1>9, <1>10, <1>14 DEF SvpWire, SvpQuery
<1> HIDE DEF Fine
<1>15. Fine(Head(H.q)) BY <1>3, <1>11, <1>12, <1>13, <1>14
<1> QED BY <1>1, <1>2, <1>3, <1>15 DEF Fine
LEMMA WentIs ==
  ASSUME IInv, NEW r, NEW e, Went(r, e)
  PROVE  /\ WireOn(e) /\ e.q = Tail(H.q) /\ e.f = TagFlags(H.f, r.tag) /\ conn.alive
         /\ Tagged(conn, H.f, r.tag, r.notice) /\ srv' = r.srv /\ curs' = TagCursors(r.tag)
         /\ r \in Replies(srv, Head(H.q)) /\ r.tag # "ERROR" /\ r.tag \in Tags
<1>1. /\ Top("wire") /\ H.q # << >> /\ conn.alive /\ H.t = "wire"
      /\ r \in Replies(srv, Head(H.q)) /\ r.tag # "ERROR" /\ srv' = r.srv
      /\ todo' = <<e>> \o Tail(todo) /\ UNCHANGED <<discardp, ret, last>>
      /\ conn' = TagConn(Noticed(conn, r), H.f, r.tag)
      /\ curs' = TagCursors(r.tag)
      /\ e = [H EXCEPT !.q = Tail(H.q), !.f = TagFlags(H.f, r.tag)]
  BY DEF Went, Top, H
<1>2. /\ H \in Tasks /\ Head(H.q) \in Cmds /\ Tail(H.q) \in Seq(Cmds)
      /\ Head(H.q).op \in {"declare", "close"} => Head(H.q).h \in Handles
  BY <1>1, WireHead
<1>3. r.srv \in Servers /\ r.tag \in Tags BY <1>1, <1>2, TypesOf, ReplyType
<1>4. TagFlags(H.f, r.tag) \in SUBSET Flags
  <2> PICK g, t : g = H.f /\ t = r.tag OBVIOUS
  <2>1. g \in SUBSET Flags BY <1>2, TaskFields
  <2>2. TagFlags(g, t) \in SUBSET Flags BY <2>1, TagFlagsIs
  <2> QED BY <2>2
<1>5. e \in Tasks /\ e.t = "wire" /\ e.q = Tail(H.q) /\ e.f = TagFlags(H.f, r.tag)
  <2> PICK q, f, k : q = Tail(H.q) /\ f = TagFlags(H.f, r.tag) /\ k = H OBVIOUS
  <2>1. q \in Seq(Cmds) /\ f \in SUBSET Flags BY <1>2, <1>4
  <2>2. e = [k EXCEPT !.q = q, !.f = f] /\ k \in Tasks /\ k.t = "wire" BY <1>1, <1>2
  <2>4. k \in Tasks /\ q \in Seq(Cmds) /\ f \in SUBSET Flags BY <2>1, <2>2
  <2>5. [k EXCEPT !.q = q, !.f = f] \in Tasks BY <2>4, TaskQF, Zenon
  <2>3. e \in Tasks /\ e.t = k.t /\ e.q = q /\ e.f = f BY <2>2, <2>5 DEF Tasks
  <2> QED BY <2>2, <2>3
<1>6. Tagged(conn, H.f, r.tag, r.notice)
  <2> PICK n \in BOOLEAN : n <=> r.notice OBVIOUS
  <2> PICK b \in BOOLEAN : b = TRUE OBVIOUS
  <2> DEFINE c == IF n THEN [conn EXCEPT !.inTrans = b] ELSE conn
  <2>1. conn \in Conns BY TypesOf
  <2>2. c \in Conns BY <2>1, ConnWith
  <2>3. /\ c.inTrans <=> conn.inTrans \/ n
        /\ c.manual = conn.manual /\ c.alive = conn.alive /\ c.auto = conn.auto
        /\ c.committing = conn.committing /\ c.ignored = conn.ignored /\ c.err = conn.err
        /\ c.op = conn.op /\ c.point = conn.point /\ c.svp = conn.svp
    <3>1. CASE n
      <4>1. c = [conn EXCEPT !.inTrans = b] BY <3>1
      <4>2. c.inTrans = b BY <2>1, <4>1 DEF Conns
      <4> HIDE DEF c
      <4>3. /\ c.manual = conn.manual /\ c.alive = conn.alive /\ c.auto = conn.auto
            /\ c.committing = conn.committing /\ c.ignored = conn.ignored /\ c.err = conn.err
            /\ c.op = conn.op /\ c.point = conn.point /\ c.svp = conn.svp
        BY <2>1, <4>1 DEF Conns
      <4> QED BY <3>1, <4>2, <4>3
    <3>2. CASE ~n BY <3>2
    <3> QED BY <3>1, <3>2
  <2>4. c = Noticed(conn, r) BY DEF Noticed
  <2> HIDE DEF c
  <2>5. conn' = TagConn(c, H.f, r.tag) BY <1>1, <2>4
  <2>6. Tagged(c, H.f, r.tag, FALSE) BY <1>3, <2>2, <2>5, TaggedIs
  <2> QED BY <2>3, <2>6 DEF Tagged
<1>7. curs' \in [Handles -> Cursors] BY <1>1, TypesOf, TagCursorsIs
<1>8. WireOn(e) BY <1>1, <1>3, <1>5, <1>6, <1>7 DEF WireOn, Tagged
<1> QED BY <1>1, <1>3, <1>5, <1>6, <1>8
LEMMA ConnFailed ==
  ASSUME NEW c \in Conns, NEW x \in BOOLEAN, NEW b \in BOOLEAN, NEW d \in BOOLEAN
  PROVE  [c EXCEPT !.err = x, !.inTrans = b, !.ignored = d] \in Conns
  BY Zenon DEF Conns
LEMMA StoppedIs ==
  ASSUME IInv, NEW r, NEW e, Stopped(r, e)
  PROVE  /\ WireOn(e) /\ e.q = << >> /\ e.f = H.f \cup {"failed"} /\ conn.alive
         /\ srv' = r.srv /\ curs' = curs /\ r \in Replies(srv, Head(H.q)) /\ r.tag = "ERROR"
         /\ conn'.inTrans /\ ~conn'.ignored /\ conn'.op = conn.op
         /\ conn'.err <=> conn.err \/ conn.inTrans
         /\ conn'.manual <=> conn.manual
         /\ conn'.svp <=> conn.svp
         /\ conn'.point <=> conn.point
<1>1. /\ Top("wire") /\ H.q # << >> /\ conn.alive /\ H.t = "wire"
      /\ r \in Replies(srv, Head(H.q)) /\ r.tag = "ERROR" /\ srv' = r.srv
      /\ todo' = <<e>> \o Tail(todo) /\ UNCHANGED <<curs, discardp, ret, last>>
      /\ conn' = [conn EXCEPT !.err = @ \/ conn.inTrans, !.inTrans = TRUE, !.ignored = FALSE]
      /\ e = [H EXCEPT !.q = << >>, !.f = H.f \cup {"failed"}]
  BY DEF Stopped, Top, H
<1>2. /\ H \in Tasks /\ Head(H.q) \in Cmds
      /\ Head(H.q).op \in {"declare", "close"} => Head(H.q).h \in Handles
  BY <1>1, WireHead
<1>3. r.srv \in Servers BY <1>1, <1>2, TypesOf, ReplyType
<1>4. H.f \cup {"failed"} \in SUBSET Flags BY <1>2, TaskFields DEF Flags
<1>5. e \in Tasks /\ e.t = "wire" /\ e.q = << >> /\ e.f = H.f \cup {"failed"} BY <1>1, <1>2, <1>4, TaskCut
<1> PICK b \in BOOLEAN : b = TRUE OBVIOUS
<1> PICK d \in BOOLEAN : d = FALSE OBVIOUS
<1> PICK x \in BOOLEAN : x <=> conn.err \/ conn.inTrans OBVIOUS
<1>6. conn \in Conns BY TypesOf
<1>7. conn.err \in BOOLEAN /\ conn.inTrans \in BOOLEAN BY <1>6, Zenon DEF Conns
<1>8. (conn.err \/ conn.inTrans) = x BY <1>7
<1>9. conn' = [conn EXCEPT !.err = x, !.inTrans = b, !.ignored = d] BY <1>1, <1>8
<1>10. [conn EXCEPT !.err = x, !.inTrans = b, !.ignored = d] \in Conns BY <1>6, ConnFailed, Zenon
<1>11. conn' \in Conns BY <1>9, <1>10, Zenon
<1>12. /\ conn'.inTrans = b /\ conn'.ignored = d /\ conn'.op = conn.op /\ conn'.err = x
       /\ conn'.manual = conn.manual /\ conn'.svp = conn.svp /\ conn'.point = conn.point
       /\ conn'.alive = conn.alive /\ conn'.auto = conn.auto /\ conn'.committing = conn.committing
  BY <1>6, <1>9 DEF Conns
<1>13. WireOn(e) BY <1>1, <1>3, <1>5, <1>11, <1>12, TypesOf DEF WireOn
<1> QED BY <1>1, <1>5, <1>12, <1>13
--------------------
(* A command of the application *)
\* The last command of a query, over tasks that only wait for its end.
Alone(op) ==
  /\ Top("wire") /\ One(H.q, Cmd(op)) /\ conn.op = "none" /\ NoMore(H.f) /\ Only(Bare)
  /\ op = "start" /\ srv.st = "IDLE" => NewTrans
  /\ In("transact_end") => op \in {"commit", "rollback"}
  /\ op \in {"savepoint", "release", "rollback_to"} => ~conn.point
LEMMA AloneFacts ==
  ASSUME IInv, conn.alive, NEW op \in Kinds, Alone(op)
  PROVE  /\ H.q # << >> /\ Head(H.q) \in Cmds /\ Head(H.q).op = op /\ Tail(H.q) = << >>
         /\ Head(H.q).svp = "user" /\ "failed" \notin H.f /\ H.f \in SUBSET Flags
         /\ "discard_svp" \notin H.f /\ "discard_release" \notin H.f
         /\ srv \in Servers /\ srv.st \in StNames /\ ~Unsettled /\ Mirrors /\ Matches
         /\ conn.err \/ conn.svp \/ conn.manual => conn.inTrans
         /\ srv.st # "IDLE" /\ ~conn.manual => NewTrans
         /\ \A h \in Handles : srv.port[h].st = "trans" => srv.st # "IDLE"
<1>1. H.q # << >> /\ Head(H.q) = Cmd(op) /\ Tail(H.q) = << >> /\ Top("wire") /\ NoMore(H.f)
  BY DEF Alone, One
<1>2. Head(H.q) \in Cmds /\ Head(H.q).op = op /\ Head(H.q).svp = "user" BY <1>1, CmdType DEF CmdNames
<1>3. H \in Tasks /\ "failed" \notin H.f BY <1>1, WireHead
<1>4. ~Unsettled BY <1>1 DEF Unsettled, Top, H
<1> QED
  BY <1>1, <1>2, <1>3, <1>4, TaskFields, TypesOf, ServerFields, LiveParts
  DEF NoMore, StatusInv, Mirrors, LevelInv
\* It fails.
LEMMA AloneStopped ==
  ASSUME IInv, NEW op \in Kinds, Alone(op), NEW r, NEW e, Stopped(r, e)
  PROVE  IInv'
<1>1. /\ WireOn(e) /\ e.q = << >> /\ e.f = H.f \cup {"failed"} /\ conn.alive
      /\ srv' = r.srv /\ curs' = curs /\ r \in Replies(srv, Head(H.q)) /\ r.tag = "ERROR"
      /\ conn'.inTrans /\ ~conn'.ignored /\ conn'.op = conn.op
      /\ conn'.err <=> conn.err \/ conn.inTrans
      /\ conn'.manual <=> conn.manual
      /\ conn'.svp <=> conn.svp
      /\ conn'.point <=> conn.point
  BY StoppedIs
<1>2. /\ Head(H.q) \in Cmds /\ Head(H.q).op = op /\ srv \in Servers /\ srv.st \in StNames
      /\ Mirrors /\ Matches /\ (srv.st # "IDLE" /\ ~conn.manual => NewTrans)
  BY <1>1, AloneFacts
<1>3. /\ NoMore(H.f) /\ Only(Bare) /\ conn.op = "none"
      /\ In("transact_end") => op \in {"commit", "rollback"}
  BY DEF Alone
<1>4. NoMore(e.f) BY <1>1, <1>3 DEF NoMore
<1>5. /\ SvpInv' /\ LevelInv' /\ OpenInv' /\ PortInv'
      /\ \A h \in Handles : srv.port[h].st = "held" => srv'.port[h].st = "held"
      /\ srv'.st # "INTRANS" /\ (srv'.st # "IDLE" => srv.st # "IDLE")
      /\ op \in {"commit", "rollback"} => srv'.st = "IDLE"
  <2>1. CASE op \in {"commit", "rollback"}
    <3> PICK keep \in BOOLEAN : keep = FALSE OBVIOUS
    <3>1. srv.st # "IDLE" /\ srv' = TransEnds(srv, FALSE) BY <1>1, <1>2, <2>1, EndReply DEF Says
    <3>2. srv' = TransEnds(srv, keep) BY <3>1
    <3>3. /\ srv'.st = "IDLE"
          /\ \A h \in Handles :
                srv'.port[h].st = IF srv.port[h].st = "held"
                                     \/ (keep /\ srv.port[h].st = "trans" /\ srv.port[h].hold)
                                  THEN "held" ELSE "none"
      BY <1>2, <3>2, TransEnded
    <3>4. srv.st # "IDLE" => (keep <=> ~conn'.err) BY <1>1, <1>2, <3>1 DEF Matches
    <3>5. SvpInv' /\ LevelInv' /\ OpenInv' /\ PortInv' BY <1>1, <1>3, <1>4, <3>3, <3>4, BareEnded
    <3> QED BY <3>3, <3>5
  <2>2. CASE op \notin {"commit", "rollback"}
    <3>1. FailedTrans(srv, srv')
      <4>1. CASE op \in {"begin", "start"} BY <1>1, <1>2, <4>1, BeginReply DEF Says
      <4>2. CASE op \in {"write", "read", "special"} BY <1>1, <1>2, <4>2, PlainReply
      <4>3. CASE op = "savepoint" BY <1>1, <1>2, <4>3, SavepointReply DEF Says
      <4>4. CASE op = "release" BY <1>1, <1>2, <4>4, ReleaseReply DEF Says
      <4>5. CASE op = "rollback_to" BY <1>1, <1>2, <4>5, RollbackToReply DEF Says
      <4> QED BY <2>2, <4>1, <4>2, <4>3, <4>4, <4>5 DEF Kinds
    <3>2. /\ srv'.svps = srv.svps /\ srv'.port = srv.port
          /\ srv'.st = IF srv.st = "IDLE" THEN "IDLE" ELSE "INERROR"
      BY <3>1 DEF FailedTrans
    <3>3. SvpInv' /\ LevelInv' /\ OpenInv' /\ PortInv' BY <1>1, <1>3, <1>4, <3>2, BareSame
    <3> QED BY <2>2, <3>2, <3>3
  <2> QED BY <2>1, <2>2
<1>6. srv'.st = "INERROR" => conn'.err BY <1>1, <1>2, <1>5 DEF Matches
<1> QED BY <1>1, <1>2, <1>3, <1>4, <1>5, <1>6, BareWire
\* What is left of the query after a command that succeeds.
LEMMA AloneOn ==
  ASSUME IInv, NEW op \in Kinds, Alone(op), NEW r, NEW e, Went(r, e)
  PROVE  /\ e.q = << >> /\ NoMore(e.f) /\ "failed" \notin e.f
         /\ conn'.inTrans <=> conn.inTrans \/ r.notice \/ r.tag = "BEGIN"
         /\ conn'.manual <=> conn.manual \/ r.tag = "BEGIN"
         /\ conn'.err <=> conn.err \/ r.tag = "ROLLBACK"
         /\ conn'.op = "none"
         /\ conn'.point <=> conn.point
         /\ conn'.ignored <=> conn.ignored
         /\ conn'.svp <=> conn.svp /\ r.tag \notin {"SAVEPOINT", "RELEASE", "ROLLBACK"}
         /\ \A h \in Handles : /\ curs'[h].open <=> curs[h].open
                               /\ curs'[h].hold <=> curs[h].hold
                               /\ curs'[h].perm <=> curs[h].perm
                               /\ r.tag = "ROLLBACK" /\ curs[h].open /\ ~curs[h].perm => curs'[h].doubt
         /\ r.tag # "ROLLBACK" => curs' = curs
<1>1. /\ WireOn(e) /\ e.q = Tail(H.q) /\ e.f = TagFlags(H.f, r.tag) /\ conn.alive
      /\ Tagged(conn, H.f, r.tag, r.notice) /\ curs' = TagCursors(r.tag)
  BY WentIs
<1>2. /\ Tail(H.q) = << >> /\ "failed" \notin H.f /\ H.f \in SUBSET Flags
      /\ "discard_svp" \notin H.f /\ "discard_release" \notin H.f /\ conn.op = "none" /\ NoMore(H.f)
  BY <1>1, AloneFacts DEF Alone
<1>3. NoMore(e.f) /\ "failed" \notin e.f
  <2> PICK g, t : g = H.f /\ t = r.tag OBVIOUS
  <2>1. g \in SUBSET Flags /\ NoMore(g) /\ "failed" \notin g /\ e.f = TagFlags(g, t) BY <1>1, <1>2
  <2>2. /\ \A x : x \notin {"discard_svp", "discard_release"} => (x \in TagFlags(g, t) <=> x \in g)
        /\ "discard_svp" \in TagFlags(g, t) <=> "discard_svp" \in g /\ t # "SAVEPOINT"
        /\ "discard_release" \in TagFlags(g, t) <=>
             IF t = "SAVEPOINT" THEN "discard_svp" \in g \/ "discard_release" \in g
             ELSE t # "RELEASE" /\ "discard_release" \in g
    BY <2>1, TagFlagsIs
  <2> QED BY <2>1, <2>2 DEF NoMore
<1>4. /\ conn'.inTrans <=> conn.inTrans \/ r.notice \/ r.tag = "BEGIN"
      /\ conn'.manual <=> conn.manual \/ r.tag = "BEGIN"
      /\ conn'.err <=> conn.err \/ r.tag = "ROLLBACK"
      /\ conn'.op = "none"
      /\ conn'.point <=> conn.point
      /\ conn'.ignored <=> conn.ignored
      /\ conn'.svp <=> conn.svp /\ r.tag \notin {"SAVEPOINT", "RELEASE", "ROLLBACK"}
  BY <1>1, <1>2 DEF Tagged
<1>5. curs \in [Handles -> Cursors] BY TypesOf
<1> QED BY <1>1, <1>2, <1>3, <1>4, <1>5, TagCursorsIs
\* A statement that does not end the transaction.
LEMMA AloneWentOn ==
  ASSUME IInv, NEW op \in Kinds \ {"commit", "rollback"}, Alone(op), NEW r, NEW e, Went(r, e)
  PROVE  /\ SvpInv' /\ LevelInv' /\ OpenInv' /\ PortInv'
         /\ \A h \in Handles : srv.port[h].st = "held" => srv'.port[h].st = "held"
         /\ srv'.st = srv.st \/ srv'.st = "INTRANS"
         /\ srv.st = "IDLE" /\ srv'.st # "IDLE" => op = "start" \/ r.tag = "BEGIN"
         /\ r.tag = "ROLLBACK" => srv.st # "IDLE"
<1>1. /\ WireOn(e) /\ conn.alive /\ srv' = r.srv /\ r \in Replies(srv, Head(H.q)) /\ r.tag # "ERROR"
  BY WentIs
<1>2. /\ e.q = << >> /\ NoMore(e.f) /\ "failed" \notin e.f
      /\ conn'.point <=> conn.point
      /\ conn'.svp <=> conn.svp /\ r.tag \notin {"SAVEPOINT", "RELEASE", "ROLLBACK"}
      /\ r.tag # "ROLLBACK" => curs' = curs
  BY AloneOn
<1>3. /\ Head(H.q) \in Cmds /\ Head(H.q).op = op /\ Head(H.q).svp = "user"
      /\ srv \in Servers /\ srv.st \in StNames
  BY <1>1, AloneFacts
<1>4. /\ NoMore(H.f) /\ Only(Bare)
      /\ op \in {"savepoint", "release", "rollback_to"} => ~conn.point
  BY DEF Alone
<1>5. CASE op \in {"begin", "start"}
  <2>1. /\ srv'.st = "INTRANS" /\ srv'.svps = srv.svps /\ srv'.port = srv.port
        /\ r.tag = IF op = "begin" THEN "BEGIN" ELSE "OTHER"
    BY <1>1, <1>3, <1>5, BeginReply DEF Says
  <2>2. r.tag # "ROLLBACK" /\ curs' = curs BY <1>2, <2>1
  <2>3. SvpInv' /\ LevelInv' /\ OpenInv' /\ PortInv' BY <1>1, <1>2, <1>4, <2>1, <2>2, BareSame
  <2> QED BY <1>5, <2>1, <2>2, <2>3
<1>6. CASE op \in {"write", "read", "special"}
  <2>1. SameTrans(srv, srv') /\ r.tag = "OTHER" BY <1>1, <1>3, <1>6, PlainReply
  <2>2. srv'.st = srv.st /\ srv'.svps = srv.svps /\ srv'.port = srv.port /\ curs' = curs
    BY <1>2, <2>1 DEF SameTrans
  <2>3. SvpInv' /\ LevelInv' /\ OpenInv' /\ PortInv' BY <1>1, <1>2, <1>4, <2>2, BareSame
  <2> QED BY <2>1, <2>2, <2>3
<1>7. CASE op = "savepoint"
  <2>1. /\ srv.st = "INTRANS" /\ r.tag = "SAVEPOINT" /\ srv'.st = "INTRANS" /\ srv'.port = srv.port
        /\ Len(srv'.svps) = Len(srv.svps) + 1
        /\ \A j \in 1..Len(srv.svps) : srv'.svps[j] = srv.svps[j]
    BY <1>1, <1>3, <1>7, SavepointReply DEF Says
  <2>2. curs' = curs /\ ~conn'.svp /\ ~conn'.point BY <1>2, <1>4, <1>7, <2>1
  <2>3. SvpInv' /\ LevelInv' /\ OpenInv' /\ PortInv' BY <1>1, <1>2, <1>4, <2>1, <2>2, BareSavepoint
  <2> QED BY <2>1, <2>3
<1>8. CASE op = "release"
  <2> PICK i : i = Latest(srv, "user") OBVIOUS
  <2>1. /\ srv.st = "INTRANS" /\ Indices(srv, "user") # {} /\ r.tag = "RELEASE"
        /\ srv' = Released(srv, i)
    BY <1>1, <1>3, <1>8, ReleaseReply DEF Says
  <2>2. i \in 1..Len(srv.svps) BY <1>3, <2>1, LatestIs DEF Indices
  <2>3. curs' = curs /\ ~conn'.svp /\ ~conn'.point BY <1>2, <1>4, <1>8, <2>1
  <2>4. SvpInv' /\ LevelInv' /\ OpenInv' /\ PortInv' BY <1>1, <1>2, <1>4, <2>1, <2>2, <2>3, BareReleased
  <2>5. srv'.st = srv.st /\ \A h \in Handles : srv'.port[h].st = srv.port[h].st
    BY <1>3, <2>1, <2>2, ReleasedTo
  <2> QED BY <2>1, <2>4, <2>5
<1>9. CASE op = "rollback_to"
  <2> PICK i : i = Latest(srv, "user") OBVIOUS
  <2>1. /\ srv.st # "IDLE" /\ Indices(srv, "user") # {} /\ r.tag = "ROLLBACK"
        /\ srv' = RolledBackTo(srv, i)
    BY <1>1, <1>3, <1>9, RollbackToReply DEF Says
  <2>2. i \in Indices(srv, "user") /\ i \in 1..Len(srv.svps) BY <1>3, <2>1, LatestIs DEF Indices
  <2>3. ~conn'.svp /\ ~conn'.point BY <1>2, <1>4, <1>9, <2>1
  <2>4. \A h \in Handles : (curs'[h].open <=> curs[h].open) /\ (curs'[h].hold <=> curs[h].hold)
                            /\ (curs'[h].perm <=> curs[h].perm)
                            /\ (curs[h].open /\ ~curs[h].perm => curs'[h].doubt)
    BY <2>1, AloneOn
  <2>5. SvpInv' /\ LevelInv' /\ OpenInv' /\ PortInv'
    BY <1>1, <1>2, <1>4, <2>1, <2>2, <2>3, <2>4, BareRolledBack
  <2>6. srv'.st = "INTRANS" /\ \A h \in Handles : srv.port[h].st = "held" => srv'.port[h].st = "held"
    BY <1>3, <2>1, <2>2, RolledBack
  <2> QED BY <2>1, <2>5, <2>6
<1> QED BY <1>5, <1>6, <1>7, <1>8, <1>9 DEF Kinds
\* COMMIT or ROLLBACK.
LEMMA AloneEnded ==
  ASSUME IInv, NEW op \in {"commit", "rollback"}, op \in Kinds, Alone(op), NEW r, NEW e, Went(r, e)
  PROVE  /\ SvpInv' /\ LevelInv' /\ OpenInv' /\ PortInv' /\ srv'.st = "IDLE" /\ conn'.inTrans
         /\ \A h \in Handles : srv.port[h].st = "held" => srv'.port[h].st = "held"
<1>1. /\ WireOn(e) /\ conn.alive /\ srv' = r.srv /\ r \in Replies(srv, Head(H.q)) /\ r.tag # "ERROR"
  BY WentIs
<1>2. /\ e.q = << >> /\ NoMore(e.f)
      /\ conn'.inTrans <=> conn.inTrans \/ r.notice \/ r.tag = "BEGIN"
      /\ conn'.err <=> conn.err \/ r.tag = "ROLLBACK"
      /\ conn'.point <=> conn.point
      /\ \A h \in Handles : (curs'[h].open <=> curs[h].open) /\ (curs'[h].hold <=> curs[h].hold)
                            /\ (curs'[h].perm <=> curs[h].perm)
  BY AloneOn
<1>3. /\ Head(H.q) \in Cmds /\ Head(H.q).op = op /\ srv \in Servers /\ srv.st \in StNames
      /\ Mirrors /\ Matches
      /\ \A h \in Handles : srv.port[h].st = "trans" => srv.st # "IDLE"
  BY <1>1, AloneFacts
<1>4. NoMore(H.f) /\ Only(Bare) BY DEF Alone
<1>5. \E keep \in BOOLEAN :
        /\ srv'.st = "IDLE" /\ conn'.inTrans /\ (srv.st # "IDLE" => (keep <=> ~conn'.err))
        /\ \A h \in Handles :
             srv'.port[h].st = IF srv.port[h].st = "held"
                                  \/ (keep /\ srv.port[h].st = "trans" /\ srv.port[h].hold)
                               THEN "held" ELSE "none"
  <2>1. CASE srv.st = "IDLE"
    <3>1. srv' = srv /\ r.notice BY <1>1, <1>3, <2>1, EndReply DEF Says
    <3>2. \A h \in Handles : srv.port[h].st \in PortNames BY <1>3, ServerFields, PortFields
    <3>3. \A h \in Handles : srv.port[h].st = "held" \/ srv.port[h].st = "none"
      BY <1>3, <2>1, <3>2 DEF PortNames
    <3> WITNESS FALSE \in BOOLEAN
    <3> QED BY <1>2, <2>1, <3>1, <3>3
  <2>2. CASE srv.st = "INTRANS" /\ srv' = TransEnds(srv, TRUE) /\ r.tag = "COMMIT"
    <3> PICK keep \in BOOLEAN : keep = TRUE OBVIOUS
    <3>1. srv' = TransEnds(srv, keep) /\ ~conn'.err /\ conn'.inTrans
      BY <1>2, <1>3, <2>2 DEF Mirrors, Matches
    <3>2. /\ srv'.st = "IDLE"
          /\ \A h \in Handles :
                srv'.port[h].st = IF srv.port[h].st = "held"
                                     \/ (keep /\ srv.port[h].st = "trans" /\ srv.port[h].hold)
                                  THEN "held" ELSE "none"
      BY <1>3, <3>1, TransEnded
    <3>3. keep <=> ~conn'.err BY <3>1
    <3> QED BY <3>1, <3>2, <3>3
  <2>3. CASE srv.st # "IDLE" /\ srv' = TransEnds(srv, FALSE) /\ r.tag = "ROLLBACK"
    <3> PICK keep \in BOOLEAN : keep = FALSE OBVIOUS
    <3>1. srv' = TransEnds(srv, keep) /\ conn'.err /\ conn'.inTrans
      BY <1>2, <1>3, <2>3 DEF Mirrors, Matches
    <3>2. /\ srv'.st = "IDLE"
          /\ \A h \in Handles :
                srv'.port[h].st = IF srv.port[h].st = "held"
                                     \/ (keep /\ srv.port[h].st = "trans" /\ srv.port[h].hold)
                                  THEN "held" ELSE "none"
      BY <1>3, <3>1, TransEnded
    <3>3. keep <=> ~conn'.err BY <3>1
    <3> QED BY <3>1, <3>2, <3>3
  <2> QED BY <1>1, <1>3, <2>1, <2>2, <2>3, EndReply DEF Says
<1>6. PICK keep \in BOOLEAN :
        /\ srv'.st = "IDLE" /\ conn'.inTrans /\ (srv.st # "IDLE" => (keep <=> ~conn'.err))
        /\ \A h \in Handles :
             srv'.port[h].st = IF srv.port[h].st = "held"
                                  \/ (keep /\ srv.port[h].st = "trans" /\ srv.port[h].hold)
                               THEN "held" ELSE "none"
  BY <1>5
<1>7. SvpInv' /\ LevelInv' /\ OpenInv' /\ PortInv' BY <1>1, <1>2, <1>4, <1>6, BareEnded
<1> QED BY <1>6, <1>7
LEMMA AloneWent ==
  ASSUME IInv, NEW op \in Kinds, Alone(op), NEW r, NEW e, Went(r, e)
  PROVE  IInv'
<1>1. WireOn(e) /\ conn.alive BY WentIs
<1>2. /\ e.q = << >> /\ NoMore(e.f) /\ "failed" \notin e.f
      /\ conn'.inTrans <=> conn.inTrans \/ r.notice \/ r.tag = "BEGIN"
      /\ conn'.manual <=> conn.manual \/ r.tag = "BEGIN"
      /\ conn'.err <=> conn.err \/ r.tag = "ROLLBACK"
      /\ conn'.op = "none"
      /\ conn'.point <=> conn.point
      /\ conn'.ignored <=> conn.ignored
      /\ conn'.svp <=> conn.svp /\ r.tag \notin {"SAVEPOINT", "RELEASE", "ROLLBACK"}
      /\ \A h \in Handles : (curs'[h].open <=> curs[h].open) /\ (curs'[h].hold <=> curs[h].hold)
                            /\ (curs'[h].perm <=> curs[h].perm)
  BY AloneOn
<1>3. /\ Matches
      /\ conn.err \/ conn.svp \/ conn.manual => conn.inTrans
      /\ srv.st # "IDLE" /\ ~conn.manual => NewTrans
  BY <1>1, AloneFacts
<1>4. /\ NoMore(H.f) /\ Only(Bare) /\ (op = "start" /\ srv.st = "IDLE" => NewTrans)
      /\ In("transact_end") => op \in {"commit", "rollback"}
  BY DEF Alone
<1>5. CASE op \in {"commit", "rollback"}
  <2>1. /\ SvpInv' /\ LevelInv' /\ OpenInv' /\ PortInv' /\ srv'.st = "IDLE" /\ conn'.inTrans
        /\ \A h \in Handles : srv.port[h].st = "held" => srv'.port[h].st = "held"
    BY <1>5, AloneEnded
  <2> QED BY <1>1, <1>2, <1>4, <2>1, BareWire
<1>6. CASE op \notin {"commit", "rollback"}
  <2>1. /\ SvpInv' /\ LevelInv' /\ OpenInv' /\ PortInv'
        /\ \A h \in Handles : srv.port[h].st = "held" => srv'.port[h].st = "held"
        /\ srv'.st = srv.st \/ srv'.st = "INTRANS"
        /\ srv.st = "IDLE" /\ srv'.st # "IDLE" => op = "start" \/ r.tag = "BEGIN"
        /\ r.tag = "ROLLBACK" => srv.st # "IDLE"
    BY <1>6, AloneWentOn
  <2>2. conn'.err \/ conn'.svp \/ conn'.manual => conn'.inTrans BY <1>2, <1>3, <2>1 DEF Matches
  <2>3. srv'.st # "IDLE" /\ ~conn'.manual => NewTrans BY <1>2, <1>3, <1>4, <2>1
  <2> QED BY <1>1, <1>2, <1>4, <1>6, <2>1, <2>2, <2>3, BareWire
<1> QED BY <1>5, <1>6
\* Statements, and the COMMIT or ROLLBACK of the driver.
LEMMA StmtAlone ==
  ASSUME IInv, conn.alive, Top("wire"), conn.op = "none", NoQuery, "ignore_abort" \notin H.f, ForStmt,
         NEW op \in Kinds, IsOp(H.q, op)
  PROVE  Alone(op)
<1>1. NoMore(H.f) BY DEF NoMore, NoQuery
<1>2. last.op # "open" BY DEF IsOp, Kinds
<1>3. ~In("opened")
  <2>1. \A k \in Rest : k \in All(todo) BY TypesOf, StackFacts DEF Top
  <2> QED BY <1>2, <2>1, LiveParts DEF OpeningInv, In
<1>4. Only(Bare) /\ ~In("transact_end") BY <1>3 DEF ForStmt, Only, In, Bare
<1> QED BY <1>1, <1>4 DEF Alone, IsOp, EndKinds
LEMMA EndAlone ==
  ASSUME Top("wire"), conn.op = "none", NoQuery, "ignore_abort" \notin H.f, ForEnd, IsEnd(H.q)
  PROVE  \E op \in Kinds : Alone(op)
<1>1. NoMore(H.f) BY DEF NoMore, NoQuery
<1>2. Only(Bare) BY DEF ForEnd, Only, Bare
<1>3. PICK op \in {"commit", "rollback"} : One(H.q, Cmd(op)) BY DEF IsEnd
<1>4. Alone(op) BY <1>1, <1>2, <1>3 DEF Alone
<1> QED BY <1>3, <1>4 DEF Kinds
(* The driver's own commands. *)
\* The command changes neither the status nor a cursor of the driver.
Steady(e) ==
  /\ WireOn(e) /\ srv'.st = srv.st /\ curs' = curs
  /\ conn'.inTrans <=> conn.inTrans
  /\ conn'.manual <=> conn.manual
  /\ conn'.err <=> conn.err
  /\ conn'.ignored <=> conn.ignored
  /\ conn'.svp \/ conn'.op # "none" => conn.inTrans
  /\ ~IsEnd(H.q) /\ ~One(H.q, Cmd("begin"))
LEMMA SteadyFacts ==
  ASSUME IInv, conn.alive, NEW e, Steady(e)
  PROVE  /\ WireOn(e) /\ BaseInv' /\ Truthful(todo') /\ StatusInv' /\ IgnInv' /\ RetInv' /\ ExtInv'
         /\ H.t = "wire" /\ e.t = "wire" /\ H' = e /\ Rest' = Rest
         /\ All(todo) = {H} \cup Rest /\ All(todo') = {e} \cup Rest
         /\ (\A t : Top(t)' <=> t = "wire") /\ \A t : Top(t) <=> t = "wire"
<1>1. /\ H.t = "wire" /\ e.t = "wire" /\ H' = e /\ Rest' = Rest /\ All(todo) = {H} \cup Rest
      /\ All(todo') = {e} \cup Rest /\ (\A t : Top(t)' <=> t = "wire")
      /\ BaseInv' /\ Truthful(todo') /\ \A t : Top(t) <=> t = "wire"
  BY WireFacts DEF WireOn, Steady
<1>2. /\ WireOn(e) /\ srv'.st = srv.st /\ curs' = curs
      /\ conn'.inTrans <=> conn.inTrans
      /\ conn'.manual <=> conn.manual
      /\ conn'.err <=> conn.err
      /\ conn'.ignored <=> conn.ignored
      /\ conn'.svp \/ conn'.op # "none" => conn.inTrans
      /\ ~IsEnd(H.q) /\ ~One(H.q, Cmd("begin"))
  BY DEF Steady
<1>3. /\ ret' = ret /\ last' = last
      /\ conn'.auto <=> conn.auto
      /\ conn'.committing <=> conn.committing
  BY <1>2 DEF WireOn
<1>4. /\ \A t : t # "wire" => (Has(t)' <=> Has(t))
      /\ Busy' <=> Busy
      /\ NewTrans' <=> NewTrans
      /\ ~Unsettled /\ Mirrors /\ Matches
  BY <1>2, WireSame
<1>5. Matches' /\ Mirrors' BY <1>2, <1>4 DEF Matches, Mirrors
<1>6. StatusInv' BY <1>2, <1>3, <1>4, <1>5, LiveParts DEF StatusInv
<1>7. IgnInv'
  <2>1. \A k \in Rest : k \in All(todo) BY <1>1
  <2> QED BY <1>1, <1>2, <2>1, LiveParts DEF IgnInv
<1>8. Ending => Ending' BY <1>1, <1>2, <1>4 DEF Ending
<1>9. ~Beginning BY <1>1, <1>2 DEF Beginning
<1>10. RetInv' BY <1>1, <1>2, <1>3, <1>4, <1>8, LiveParts DEF RetInv, InUse
<1>11. ExtInv'
  <2>1. \A k \in All(todo') : k.t \in {"request_start", "exec_ext"} => k \in All(todo) BY <1>1
  <2> QED BY <1>2, <1>3, <1>9, <2>1, LiveParts DEF ExtInv
<1> QED BY <1>1, <1>2, <1>6, <1>7, <1>10, <1>11
\* Nor does it close or open a cursor.
LEMMA SteadyPorts ==
  ASSUME IInv, conn.alive, NEW e, Steady(e),
         \A h \in Handles : srv'.port[h].st = srv.port[h].st,
         \A h \in Handles : srv'.port[h].hold <=> srv.port[h].hold,
         \A c : c.op = "close" => (Pending(c)' <=> Pending(c))
  PROVE  PermInv' /\ OpenInv' /\ PortInv' /\ CloseInv' /\ DiscInv'
<1>1. /\ H.t = "wire" /\ e.t = "wire" /\ H' = e /\ Rest' = Rest /\ All(todo) = {H} \cup Rest
      /\ All(todo') = {e} \cup Rest /\ (\A t : Top(t)' <=> t = "wire") /\ WireOn(e)
      /\ \A t : Top(t) <=> t = "wire"
  BY SteadyFacts
<1>2. /\ srv'.st = srv.st /\ curs' = curs
      /\ conn'.inTrans <=> conn.inTrans
      /\ conn'.err <=> conn.err
  BY DEF Steady
<1>3. /\ discardp' = discardp
      /\ conn'.committing <=> conn.committing
  BY <1>1 DEF WireOn
<1>4. /\ \A h : Closing(h)' <=> Closing(h)
      /\ \A h : Opening(h)' <=> Opening(h)
      /\ \A h : Marked(h)' <=> Marked(h)
      /\ \A t : t # "wire" => (Has(t)' <=> Has(t))
      /\ ~Unsettled
  BY <1>1, WireSame
<1>5. PermInv' BY <1>2, <1>4, LiveParts DEF PermInv
<1>6. OpenInv'
  <2> SUFFICES ASSUME NEW h \in Handles, curs[h].open, ~curs[h].perm
               PROVE  IF srv'.st # "IDLE"
                      THEN \/ srv'.port[h].st = "trans" /\ (srv'.port[h].hold <=> curs[h].hold)
                           \/ srv'.port[h].st = "none" /\ ((curs[h].doubt /\ ~curs[h].hold) \/ Closing(h)')
                      ELSE /\ IF conn'.committing THEN \E k \in All(todo') : k.t \in Clears /\ k.h = h
                              ELSE Unsettled' /\ conn'.inTrans
                           /\ srv'.port[h].st = IF ~conn'.err /\ curs[h].hold THEN "held" ELSE "none"
                           /\ ~Closing(h)'
    BY <1>2, Zenon DEF OpenInv
  <2>1. (\E k \in All(todo) : k.t \in Clears /\ k.h = h) => \E k \in All(todo') : k.t \in Clears /\ k.h = h
    BY <1>1 DEF Clears
  <2>2. IF srv.st # "IDLE"
        THEN \/ srv.port[h].st = "trans" /\ (srv.port[h].hold <=> curs[h].hold)
             \/ srv.port[h].st = "none" /\ ((curs[h].doubt /\ ~curs[h].hold) \/ Closing(h))
        ELSE /\ IF conn.committing THEN \E k \in All(todo) : k.t \in Clears /\ k.h = h
                ELSE Unsettled /\ conn.inTrans
             /\ srv.port[h].st = IF ~conn.err /\ curs[h].hold THEN "held" ELSE "none"
             /\ ~Closing(h)
    BY LiveParts DEF OpenInv
  <2> QED BY <1>2, <1>3, <1>4, <2>1, <2>2
<1>7. PortInv' BY <1>2, <1>4, LiveParts DEF PortInv
<1>8. \A k \in Rest : k \in All(todo) BY <1>1
<1>9. ASSUME NEW h \in Handles
      PROVE  Pending(CloseIt(h))' <=> Pending(CloseIt(h))
  <2>1. CloseIt(h).op = "close" BY FetchType
  <2> QED BY <2>1
<1>10. StackInv BY TypesOf
<1>11. CloseInv'
  <2>1. \A k \in All(todo') : k.t = "closed" =>
          curs[k.h].open /\ (Pending(CloseIt(k.h))' \/ srv'.port[k.h].st = "none")
    <3> SUFFICES ASSUME NEW k \in Rest, k.t = "closed"
                 PROVE  curs[k.h].open /\ (Pending(CloseIt(k.h))' \/ srv'.port[k.h].st = "none")
      BY <1>1
    <3>1. k.h \in Handles BY <1>8, <1>10 DEF StackInv, HandleTasks
    <3>2. curs[k.h].open /\ (Pending(CloseIt(k.h)) \/ srv.port[k.h].st = "none")
      BY <1>8, LiveParts DEF CloseInv
    <3> QED BY <1>9, <3>1, <3>2
  <2>2. \A k \in All(todo') : k.t = "moved" => curs[k.h].open /\ curs[k.h].hold /\ ~curs[k.h].perm
    BY <1>1, <1>8, LiveParts DEF CloseInv
  <2>3. Has("close_eof")' => srv'.st = "INTRANS" /\ ~conn'.err
    BY <1>2, <1>4, LiveParts DEF CloseInv, InUse
  <2>4. Has("commit_send")' => \A k \in All(todo') : k.t \in {"close", "closed"} =>
          srv'.st = "INTRANS" /\ ~conn'.err /\ curs[k.h].hold
    BY <1>1, <1>2, <1>4, <1>8, LiveParts DEF CloseInv, InUse
  <2> QED BY <1>1, <1>2, <2>1, <2>2, <2>3, <2>4 DEF CloseInv, InUse
<1>12. DiscInv'
  <2>1. \A j \in 1..Len(discardp) : discardp[j].type = "p" =>
          /\ discardp[j].h \in Handles
          /\ Pending(CloseIt(discardp[j].h))' <=> Pending(CloseIt(discardp[j].h))
    <3> SUFFICES ASSUME NEW j \in 1..Len(discardp), discardp[j].type = "p"
                 PROVE  /\ discardp[j].h \in Handles
                        /\ Pending(CloseIt(discardp[j].h))' <=> Pending(CloseIt(discardp[j].h))
      OBVIOUS
    <3>1. discardp[j].h \in Handles BY LiveParts DEF DiscInv
    <3> QED BY <1>3, <1>9, <3>1
  <2>2. \A k \in All(todo') : k.t \in {"discard", "discard_free"} => k.i = Len(discardp) /\ k.i > 0
    BY <1>1, <1>8, LiveParts DEF DiscInv
  <2>3. \A k \in All(todo') : k.t = "discard_free" /\ discardp[k.i].type = "p" =>
          Pending(CloseIt(discardp[k.i].h))' \/ srv'.port[discardp[k.i].h].st = "none"
    <3> SUFFICES ASSUME NEW k \in Rest, k.t = "discard_free", discardp[k.i].type = "p"
                 PROVE  Pending(CloseIt(discardp[k.i].h))' \/ srv'.port[discardp[k.i].h].st = "none"
      BY <1>1
    <3>1. k.i \in 1..Len(discardp) BY <1>1, <2>2, TypesOf
    <3>2. Pending(CloseIt(discardp[k.i].h)) \/ srv.port[discardp[k.i].h].st = "none"
      BY <1>8, LiveParts DEF DiscInv
    <3> QED BY <2>1, <3>1, <3>2
  <2>4. discardp # << >> => conn'.err \/ \E k \in All(todo') : k.t \in Discs
    BY <1>1, <1>2, LiveParts DEF DiscInv, Discs
  <2>5. \A j \in 1..Len(discardp) : discardp[j].type = "p" =>
        /\ discardp[j].h \in Handles /\ ~curs[discardp[j].h].open
        /\ \/ srv'.port[discardp[j].h].st = "held"
           \/ /\ \E k \in All(todo') : k.t = "discard_free" /\ j = k.i
              /\ ~Pending(CloseIt(discardp[j].h))'
        /\ \A i \in 1..Len(discardp) :
              i # j /\ discardp[i].type = "p" => discardp[i].h # discardp[j].h
    <3> SUFFICES ASSUME NEW j \in 1..Len(discardp), discardp[j].type = "p"
                 PROVE  /\ discardp[j].h \in Handles /\ ~curs[discardp[j].h].open
                        /\ \/ srv'.port[discardp[j].h].st = "held"
                           \/ /\ \E k \in All(todo') : k.t = "discard_free" /\ j = k.i
                              /\ ~Pending(CloseIt(discardp[j].h))'
                        /\ \A i \in 1..Len(discardp) :
                              i # j /\ discardp[i].type = "p" => discardp[i].h # discardp[j].h
      OBVIOUS
    <3>1. /\ discardp[j].h \in Handles /\ ~curs[discardp[j].h].open
          /\ \/ srv.port[discardp[j].h].st = "held"
             \/ /\ \E k \in All(todo) : k.t = "discard_free" /\ j = k.i
                /\ ~Pending(CloseIt(discardp[j].h))
          /\ \A i \in 1..Len(discardp) :
                i # j /\ discardp[i].type = "p" => discardp[i].h # discardp[j].h
      BY LiveParts DEF DiscInv
    <3>2. (\E k \in All(todo) : k.t = "discard_free" /\ j = k.i)
          => \E k \in All(todo') : k.t = "discard_free" /\ j = k.i
      BY <1>1
    <3> QED BY <2>1, <3>1, <3>2
  <2> QED BY <1>2, <1>3, <2>2, <2>3, <2>4, <2>5 DEF DiscInv
<1> QED BY <1>5, <1>6, <1>7, <1>11, <1>12
\* At most one cursor is being opened.
LEMMA OneOpened ==
  ASSUME Sound(todo), NEW k \in All(todo), NEW m \in All(todo), k.t = "opened", m.t = "opened"
  PROVE  k = m
<1>1. todo \in Seq(Tasks) /\ Len(todo) \in Nat /\ Ordered(todo) BY DEF Sound
<1>2. PICK i \in 1..Len(todo) : todo[i] = k BY DEF All
<1>3. PICK j \in 1..Len(todo) : todo[j] = m BY DEF All
<1>4. "opened" \notin Lower("opened") BY DEF Lower, Talk, Clears, Discs
<1>5. i < j => todo[j].t \in Lower(todo[i].t) BY <1>1 DEF Ordered
<1>6. j < i => todo[i].t \in Lower(todo[j].t) BY <1>1 DEF Ordered
<1>7. i = j \/ i < j \/ j < i BY <1>1
<1> QED BY <1>2, <1>3, <1>4, <1>5, <1>6, <1>7
LEMMA OpeningSame ==
  ASSUME IInv, conn.alive, NEW e, Steady(e), "failed" \notin e.f,
         \A h \in Handles : srv'.port[h].st = srv.port[h].st,
         \A h \in Handles : srv'.port[h].hold <=> srv.port[h].hold,
         ForStmt /\ In("opened") => e.q # << >> /\ \A h \in Handles : ~One(e.q, Fetch(h))
  PROVE  OpeningInv'
<1>1. /\ H.t = "wire" /\ e.t = "wire" /\ H' = e /\ Rest' = Rest /\ All(todo) = {H} \cup Rest
      /\ All(todo') = {e} \cup Rest /\ (\A t : Top(t)' <=> t = "wire") /\ WireOn(e)
      /\ \A t : Top(t) <=> t = "wire"
  BY SteadyFacts
<1>2. /\ srv'.st = srv.st /\ curs' = curs
      /\ conn'.ignored <=> conn.ignored
  BY DEF Steady
<1>3. last' = last /\ "failed" \notin H.f /\ StackInv /\ (\A T : Only(T)' <=> Only(T))
      /\ \A t : In(t)' <=> In(t)
  BY <1>1, WireFacts, WireSame DEF WireOn
<1>4. Failed1' <=> Failed1
  <2>1. (\E x \in All(todo) : x.t = "return" /\ "ok" \notin x.f)
        <=> \E x \in All(todo') : x.t = "return" /\ "ok" \notin x.f
    BY <1>1
  <2> QED BY <1>1, <1>3, <2>1 DEF Failed1
<1> SUFFICES ASSUME NEW k \in Rest, k.t = "opened"
             PROVE  /\ ~curs[k.h].open /\ ("on" \in k.f => ~conn'.ignored) /\ last.op = "open"
                    /\ Failed1' => ~(srv'.st = "INTRANS")
                    /\ \/ /\ \/ ForStmt' /\ (Top("send")' \/ (Top("wire")' /\ e.q # << >> /\ ~One(e.q, Fetch(k.h))))
                             \/ Failed1'
                          /\ ~(srv'.port[k.h].st = "trans" /\ srv'.port[k.h].hold)
                       \/ srv'.st = "INTRANS" /\ srv'.port[k.h].st = "trans"
                          /\ (srv'.port[k.h].hold <=> "on" \in k.f)
  BY <1>1, <1>2, <1>3 DEF OpeningInv, InUse
<1>5. k \in All(todo) /\ k.h \in Handles BY <1>1, <1>3 DEF StackInv, HandleTasks
<1>6. /\ ~curs[k.h].open /\ ("on" \in k.f => ~conn.ignored) /\ last.op = "open"
      /\ Failed1 => ~(srv.st = "INTRANS")
      /\ \/ ForStmt \/ Failed1
         \/ srv.st = "INTRANS" /\ srv.port[k.h].st = "trans" /\ (srv.port[k.h].hold <=> "on" \in k.f)
      /\ \/ ~(srv.port[k.h].st = "trans" /\ srv.port[k.h].hold)
         \/ srv.st = "INTRANS" /\ srv.port[k.h].st = "trans" /\ (srv.port[k.h].hold <=> "on" \in k.f)
  BY <1>5, LiveParts DEF OpeningInv, InUse
<1>7. ForStmt' <=> ForStmt BY <1>3 DEF ForStmt
<1>8. ForStmt => Top("wire")' /\ e.q # << >> /\ ~One(e.q, Fetch(k.h)) BY <1>1, <1>5 DEF In
<1> QED BY <1>2, <1>4, <1>5, <1>6, <1>7, <1>8
LEMMA SteadyStep ==
  ASSUME IInv, conn.alive, NEW e, Steady(e), WireInv', SvpInv' /\ LevelInv', OpeningInv',
         PermInv' /\ OpenInv' /\ PortInv' /\ CloseInv' /\ DiscInv'
  PROVE  IInv'
<1>1. /\ BaseInv' /\ Truthful(todo') /\ StatusInv' /\ IgnInv' /\ RetInv' /\ ExtInv'
      /\ \A t : Top(t)' <=> t = "wire"
  BY SteadyFacts
<1>2. TalkInv' BY <1>1 DEF TalkInv, SendInv
<1> QED BY <1>1, <1>2, LiveFrom DEF IInv
\* A cursor that has been declared.
Fresh(h) == /\ srv.st # "IDLE" /\ srv'.port[h].lvl = Len(srv.svps) /\ ~OnQuery /\ ~curs[h].open
            /\ srv'.port[h].hold => Indices(srv, "user") = {}
\* The savepoints and the protection stay.
LEMMA SteadySvps ==
  ASSUME IInv, conn.alive, NEW e, Steady(e), srv'.svps = srv.svps,
         "discard_release" \in e.f <=> "discard_release" \in H.f,
         conn'.svp <=> conn.svp, conn'.point <=> conn.point,
         \A h \in Handles : \/ srv'.port[h] = srv.port[h] \/ srv'.port[h].st = "none"
                            \/ Fresh(h)
  PROVE  SvpInv' /\ LevelInv'
<1>1. (\A t : Top(t)' <=> t = "wire") /\ WireOn(e) /\ \A t : Top(t) <=> t = "wire" BY SteadyFacts
<1>2. /\ srv'.st = srv.st /\ curs' = curs BY DEF Steady
<1>3. /\ \A t : t # "wire" => (Has(t)' <=> Has(t))
      /\ OnQuery' <=> OnQuery
  BY <1>1, WireSame
<1>4. Base' = Base /\ Indices(srv', "user") = Indices(srv, "user") BY <1>3 DEF Base, Indices
<1>5. SvpInv' BY <1>1, <1>2, <1>3, <1>4, LiveParts DEF SvpInv
<1>6. LevelInv'
  <2> SUFFICES ASSUME NEW h \in Handles, srv'.port[h].st = "trans"
               PROVE  /\ srv'.st # "IDLE" /\ srv'.port[h].lvl <= Base'
                      /\ srv'.port[h].hold => \A i \in Indices(srv', "user") : srv'.port[h].lvl < i
                      /\ conn'.point /\ curs[h].open /\ ~curs[h].perm => srv'.port[h].lvl < Base'
    BY <1>2 DEF LevelInv
  <2>1. CASE srv'.port[h] = srv.port[h]
    <3>1. /\ srv.st # "IDLE" /\ srv.port[h].lvl <= Base
          /\ srv.port[h].hold => \A i \in Indices(srv, "user") : srv.port[h].lvl < i
          /\ conn.point /\ curs[h].open /\ ~curs[h].perm => srv.port[h].lvl < Base
      BY <1>1, <2>1, LiveParts DEF LevelInv
    <3> QED BY <1>2, <1>4, <2>1, <3>1
  <2>2. CASE Fresh(h)
    <3>1. Base = Len(srv.svps) /\ Base \in Nat BY <2>2, TypesOf, ServerFields DEF Fresh, Base
    <3> QED BY <1>2, <1>4, <2>2, <3>1 DEF Fresh
  <2> QED BY <2>1, <2>2
<1> QED BY <1>5, <1>6
LEMMA PendingWire ==
  ASSUME NEW e, WireOn(e), IInv, conn.alive, NEW c
  PROVE  /\ Pending(c) <=> Head(H.q) = c \/ (Tail(H.q) # << >> /\ Head(Tail(H.q)) = c)
         /\ Pending(c)' <=> /\ e.q # << >>
                            /\ Head(e.q) = c \/ (Tail(e.q) # << >> /\ Head(Tail(e.q)) = c)
<1>1. /\ H' = e /\ H.q # << >> /\ (\A t : Top(t)' <=> t = "wire") /\ \A t : Top(t) <=> t = "wire"
  BY WireFacts DEF WireOn
<1> QED BY <1>1 DEF Pending
\* A command that says nothing of the transaction.
LEMMA OtherSteady ==
  ASSUME IInv, NEW r, NEW e, Went(r, e), r.tag = "OTHER", ~r.notice, srv'.st = srv.st,
         Head(H.q).op \notin {"begin", "commit", "rollback"}
  PROVE  /\ Steady(e) /\ e.q = Tail(H.q) /\ "failed" \notin e.f /\ conn'.op = conn.op
         /\ conn'.svp <=> conn.svp
         /\ conn'.point <=> conn.point
         /\ \A x \in Flags : x \in e.f <=> x \in H.f
<1>1. /\ WireOn(e) /\ e.q = Tail(H.q) /\ e.f = TagFlags(H.f, r.tag) /\ conn.alive
      /\ Tagged(conn, H.f, r.tag, r.notice) /\ curs' = TagCursors(r.tag)
  BY WentIs
<1>2. H \in Tasks /\ "failed" \notin H.f /\ H.f \in SUBSET Flags BY <1>1, WireHead, TaskFields DEF WireOn
<1>3. e.f = H.f BY <1>1 DEF TagFlags
<1>4. /\ conn'.inTrans <=> conn.inTrans
      /\ conn'.manual <=> conn.manual
      /\ conn'.err <=> conn.err
      /\ conn'.ignored <=> conn.ignored
      /\ conn'.op = conn.op
      /\ conn'.svp <=> conn.svp
      /\ conn'.point <=> conn.point
  BY <1>1 DEF Tagged
<1>5. curs' = curs BY <1>1 DEF TagCursors
<1>6. ~IsEnd(H.q) /\ ~One(H.q, Cmd("begin"))
  <2>1. Cmd("begin").op = "begin" /\ Cmd("commit").op = "commit" /\ Cmd("rollback").op = "rollback"
    BY CmdType DEF CmdNames, Kinds
  <2> QED BY <2>1 DEF IsEnd, One
<1>7. conn.svp \/ conn.op # "none" => conn.inTrans BY <1>1, LiveParts DEF StatusInv
<1> QED BY <1>1, <1>2, <1>3, <1>4, <1>5, <1>6, <1>7 DEF Steady
\* The first rows of a cursor that was declared.
LEMMA FetchWire ==
  ASSUME IInv, conn.alive, Top("wire"), conn.op = "none", NoQuery, ForStmt, InUse,
         NEW k \in Rest, k.t = "opened", One(H.q, Fetch(k.h)), srv.port[k.h].st # "none"
  PROVE  /\ \A r, e : ~Stopped(r, e)
         /\ \A r, e : Went(r, e) => IInv'
<1>1. /\ k \in All(todo) /\ k.h \in Handles /\ Sound(todo) /\ StackInv /\ srv \in Servers
      /\ Rest \subseteq All(todo) /\ All(todo) = {H} \cup Rest
  <2>1. Sound(todo) /\ StackInv /\ srv \in Servers /\ todo # << >> BY TypesOf DEF Top
  <2>2. k \in All(todo) /\ Rest \subseteq All(todo) /\ All(todo) = {H} \cup Rest BY <2>1, StackFacts
  <2> QED BY <2>1, <2>2 DEF StackInv, HandleTasks
<1>2. /\ H.q # << >> /\ Head(H.q) = Fetch(k.h) /\ Tail(H.q) = << >> /\ Head(H.q) \in Cmds
      /\ Head(H.q).op = "fetch" /\ Head(H.q).h = k.h
  BY <1>1, FetchType DEF One
<1>3. ASSUME NEW r \in Replies(srv, Head(H.q))
      PROVE  Says(r, "OTHER", FALSE) /\ r.srv = srv
  BY <1>1, <1>2, FetchReply DEF InUse
<1>4. ASSUME NEW r, NEW e, Stopped(r, e)
      PROVE  FALSE
  BY <1>3, <1>4 DEF Stopped, Says
<1>5. ASSUME NEW r, NEW e, Went(r, e)
      PROVE  IInv'
  <2>1. /\ WireOn(e) /\ e.q = << >> /\ srv' = srv /\ r.tag = "OTHER" /\ ~r.notice
    <3>1. WireOn(e) /\ e.q = Tail(H.q) /\ srv' = r.srv /\ r \in Replies(srv, Head(H.q)) BY <1>5, WentIs
    <3>2. Says(r, "OTHER", FALSE) /\ r.srv = srv BY <1>3, <3>1
    <3> QED BY <1>2, <3>1, <3>2 DEF Says
  <2>2. /\ Steady(e) /\ "failed" \notin e.f /\ conn'.op = conn.op
        /\ conn'.svp <=> conn.svp
        /\ conn'.point <=> conn.point
        /\ \A x \in Flags : x \in e.f <=> x \in H.f
    BY <1>2, <1>5, <2>1, OtherSteady
  <2>3. (\A t : Top(t)' <=> t = "wire") /\ H' = e /\ Rest' = Rest /\ All(todo') = {e} \cup Rest
    BY <2>2, SteadyFacts
  <2>4. SvpInv' /\ LevelInv' BY <2>1, <2>2, SteadySvps DEF Flags
  <2>5. WireInv' BY <2>1, <2>2, <2>3 DEF WireInv, Succeeded, NoQuery, Flags
  <2>6. \A c : c.op = "close" => ~Pending(c) /\ ~Pending(c)' BY <1>2, <2>1, PendingWire
  <2>7. PermInv' /\ OpenInv' /\ PortInv' /\ CloseInv' /\ DiscInv' BY <2>1, <2>2, <2>6, SteadyPorts
  <2>8. OpeningInv'
    <3> SUFFICES ASSUME NEW m \in Rest, m.t = "opened"
                 PROVE  /\ ~curs[m.h].open /\ ("on" \in m.f => ~conn'.ignored) /\ last.op = "open"
                        /\ Failed1' => ~InUse'
                        /\ srv.port[m.h].st = "trans" /\ (srv.port[m.h].hold <=> "on" \in m.f)
      <4>1. last' = last /\ curs' = curs /\ e.t = "wire" BY <2>2 DEF Steady, WireOn
      <4> QED BY <2>1, <2>3, <4>1 DEF OpeningInv, InUse
    <3>1. m = k BY <1>1, OneOpened
    <3>2. /\ ~curs[k.h].open /\ ("on" \in k.f => ~conn.ignored) /\ last.op = "open"
          /\ Failed1 => ~InUse
          /\ \/ ~One(H.q, Fetch(k.h)) \/ Failed1 \/ Top("send")
             \/ srv.port[k.h].st = "trans" /\ (srv.port[k.h].hold <=> "on" \in k.f)
      BY <1>1, LiveParts DEF OpeningInv
    <3>3. ~Top("send") BY DEF Top
    <3>4. Failed1' => Failed1
      <4>1. (\E x \in All(todo') : x.t = "return" /\ "ok" \notin x.f)
            => \E x \in All(todo) : x.t = "return" /\ "ok" \notin x.f
        <5>1. e.t = "wire" BY <2>1 DEF WireOn
        <5> QED BY <1>1, <2>3, <5>1
      <4> QED BY <2>2, <2>3, <4>1 DEF Failed1
    <3>5. conn'.ignored <=> conn.ignored BY <2>2 DEF Steady
    <3> QED BY <2>1, <3>1, <3>2, <3>3, <3>4, <3>5 DEF InUse
  <2> QED BY <2>2, <2>4, <2>5, <2>7, <2>8, SteadyStep
<1> QED BY <1>4, <1>5
\* Nothing but the end of a statement or of a close waits for a command that fails.
LEMMA StoppedStep ==
  ASSUME IInv, NEW r, NEW e, Stopped(r, e), FailedTrans(srv, r.srv), srv.st # "IDLE", conn.op = "none",
         \A k \in Rest : k.t \in {"exec_end", "opened", "stmt_end", "closed", "set_auto"},
         "query_rollback" \in H.f =>
            "discard_release" \in H.f /\ "discard_svp" \notin H.f /\ "ignore_abort" \in H.f,
         "query_rollback" \notin H.f => "discard_release" \notin H.f,
         "ignore_abort" \in H.f =>
            ~In("opened") /\ \A g \in Handles : ~(curs[g].open /\ curs[g].hold),
         \A k \in Rest : k.t = "opened" => ~(srv.port[k.h].st = "trans" /\ srv.port[k.h].hold),
         \A k \in Rest : k.t = "closed" => srv.port[k.h].st = "none"
  PROVE  IInv'
<1>1. /\ WireOn(e) /\ e.q = << >> /\ e.f = H.f \cup {"failed"} /\ conn.alive
      /\ srv' = r.srv /\ curs' = curs
      /\ conn'.inTrans /\ ~conn'.ignored /\ conn'.op = conn.op
      /\ conn'.err <=> conn.err \/ conn.inTrans
      /\ conn'.manual <=> conn.manual
      /\ conn'.svp <=> conn.svp
      /\ conn'.point <=> conn.point
  BY StoppedIs
<1>2. /\ todo # << >> /\ H.t = "wire" /\ Sound(todo) /\ StackInv /\ All(todo) = {H} \cup Rest
      /\ H' = e /\ Rest' = Rest /\ All(todo') = {e} \cup Rest
      /\ Truthful(todo') /\ BaseInv'
      /\ \A t : Top(t) <=> t = "wire"
      /\ \A t : Top(t)' <=> t = "wire"
  BY <1>1, WireFacts
<1>3. e.t = "wire" /\ discardp' = discardp /\ last' = last /\ ret' = ret BY <1>1 DEF WireOn
<1>4. /\ \A h : Closing(h)' <=> Closing(h)
      /\ \A h : Opening(h)' <=> Opening(h)
      /\ \A h : Marked(h)' <=> Marked(h)
      /\ \A t : t # "wire" => (Has(t)' <=> Has(t))
      /\ \A t : In(t)' <=> In(t)
      /\ \A t : t # "wire" => (Has(t) <=> In(t))
      /\ Busy' <=> Busy
      /\ NewTrans' <=> NewTrans
      /\ ~Unsettled /\ Mirrors /\ Matches
      /\ OnQuery <=> "discard_release" \in H.f
      /\ OnQuery' <=> "discard_release" \in e.f
      /\ Unsettled' <=> e.q = << >>
      /\ \A T : Only(T)' <=> Only(T)
  BY <1>1, WireSame
<1>5. srv'.st = "INERROR" /\ srv'.svps = srv.svps /\ srv'.port = srv.port BY <1>1 DEF FailedTrans
<1>6. OnQuery' <=> OnQuery BY <1>1, <1>4
<1>7. conn.inTrans /\ conn'.err BY <1>1, <1>4 DEF Mirrors, Matches
<1>8. /\ ~In("moved") /\ ~In("transact_end") /\ ~In("svp_sent") /\ ~In("close_eof") /\ ~In("commit_send")
      /\ ~In("request_start") /\ ~In("exec_ext") /\ ~In("discard") /\ ~In("discard_free") /\ ~In("on_commit_end")
      /\ ~In("close")
  BY DEF In
<1>9. ~Busy BY <1>2 DEF Busy, Chores, Discs, Clears
<1>10. conn.committing <=> FALSE BY <1>2, <1>4, <1>8 DEF StackInv
<1>11. conn'.committing <=> conn.committing BY <1>1 DEF WireOn
<1>12. StatusInv'
  <2>1. srv.st # "IDLE" /\ ~conn.manual => NewTrans BY <1>1, LiveParts DEF StatusInv
  <2>2. Matches' BY <1>1, <1>5 DEF Matches
  <2> QED BY <1>1, <1>4, <1>5, <1>7, <1>9, <1>10, <1>11, <2>1, <2>2 DEF StatusInv
<1>13. TalkInv'
  <2>1. Only(Ends)' BY <1>4 DEF Only, Ends
  <2>2. Failing' BY <1>1, <1>2, <1>4, <1>5, <1>7, <1>8, <2>1 DEF Failing
  <2>3. WireInv' BY <1>1, <1>2, <2>2 DEF WireInv
  <2> QED BY <1>1, <1>2, <2>3 DEF TalkInv, SendInv
<1>14. Base' = Base /\ Indices(srv', "user") = Indices(srv, "user") BY <1>5, <1>6 DEF Base, Indices
<1>15. SvpInv' BY <1>1, <1>2, <1>4, <1>5, <1>6, <1>14, LiveParts DEF SvpInv
<1>16. LevelInv' BY <1>1, <1>2, <1>5, <1>14, LiveParts DEF LevelInv
<1>17. PermInv' /\ PortInv' BY <1>1, <1>4, <1>5, LiveParts DEF PermInv, PortInv
<1>18. OpenInv'
  <2> SUFFICES ASSUME NEW h \in Handles, curs[h].open, ~curs[h].perm
               PROVE  \/ srv.port[h].st = "trans" /\ (srv.port[h].hold <=> curs[h].hold)
                      \/ srv.port[h].st = "none" /\ ((curs[h].doubt /\ ~curs[h].hold) \/ Closing(h))
    BY <1>1, <1>4, <1>5 DEF OpenInv
  <2> QED BY <1>1, LiveParts DEF OpenInv
<1>19. CloseInv'
  <2>1. \A k \in Rest : k.t = "closed" => curs[k.h].open BY <1>1, <1>2, LiveParts DEF CloseInv
  <2>2. ~Has("close_eof")' /\ ~Has("commit_send")' BY <1>4, <1>8
  <2> QED BY <1>1, <1>2, <1>3, <1>5, <1>8, <2>1, <2>2 DEF CloseInv, In
<1>20. OpeningInv'
  <2> SUFFICES ASSUME NEW k \in Rest, k.t = "opened"
               PROVE  /\ ~curs[k.h].open /\ ("on" \in k.f => ~conn'.ignored) /\ last.op = "open"
                      /\ Failed1' => ~(srv'.st = "INTRANS")
                      /\ Failed1'
                      /\ ~(srv'.port[k.h].st = "trans" /\ srv'.port[k.h].hold)
    BY <1>1, <1>2, <1>3 DEF OpeningInv, InUse
  <2>1. ~curs[k.h].open /\ last.op = "open" BY <1>1, <1>2, LiveParts DEF OpeningInv
  <2>2. Failed1' BY <1>1, <1>2 DEF Failed1
  <2> QED BY <1>1, <1>5, <2>1, <2>2
<1>21. DiscInv'
  <2>1. \A k \in All(todo') : k.t \notin {"discard", "discard_free"} BY <1>2, <1>3
  <2>2. \A k \in All(todo) : k.t \notin {"discard", "discard_free"} BY <1>2
  <2> SUFFICES ASSUME NEW j \in 1..Len(discardp), discardp[j].type = "p"
               PROVE  /\ discardp[j].h \in Handles /\ ~curs[discardp[j].h].open
                      /\ srv.port[discardp[j].h].st = "held"
                      /\ \A i \in 1..Len(discardp) :
                            i # j /\ discardp[i].type = "p" => discardp[i].h # discardp[j].h
    BY <1>1, <1>3, <1>5, <1>7, <2>1 DEF DiscInv
  <2> QED BY <1>1, <2>2, LiveParts DEF DiscInv
<1>22. IgnInv'
  <2>1. \A k \in Rest : k.t \in {"close", "closed"} /\ curs[k.h].open /\ curs[k.h].doubt /\ ~curs[k.h].hold =>
           \A g \in Handles : ~(curs[g].open /\ curs[g].hold)
    BY <1>1, <1>2, LiveParts DEF IgnInv
  <2> QED BY <1>1, <1>2, <1>3, <2>1 DEF IgnInv
<1>23. RetInv' /\ ExtInv'
  <2>1. RetInv' BY <1>2, <1>4, <1>8 DEF RetInv
  <2>2. ExtInv' BY <1>2, <1>3 DEF ExtInv
  <2> QED BY <2>1, <2>2
<1>24. LiveInv'
  BY <1>2, <1>12, <1>13, <1>15, <1>16, <1>17, <1>18, <1>19, <1>20, <1>21, <1>22, <1>23, LiveFrom
<1> QED BY <1>2, <1>24 DEF IInv
(* DECLARE CURSOR *)
DeclareWire(h, hold) ==
  /\ Top("wire") /\ conn.op = "none" /\ NoQuery /\ "ignore_abort" \notin H.f
  /\ ForStmt /\ Inside(H.q) /\ IsOpen(H.q, h, hold)
LEMMA DeclareFacts ==
  ASSUME IInv, conn.alive, NEW h \in Handles, NEW hold \in BOOLEAN, DeclareWire(h, hold)
  PROVE  /\ H.q # << >> /\ Head(H.q) \in Cmds /\ Head(H.q).op = "declare" /\ Head(H.q).h = h
         /\ Head(H.q).hold <=> hold
         /\ One(Tail(H.q), Fetch(h)) /\ "failed" \notin H.f
         /\ OpenedTask(h, hold) \in Rest
         /\ \A k \in Rest : k.t = "opened" => k = OpenedTask(h, hold)
         /\ srv.st # "IDLE" /\ ~curs[h].open /\ last.op = "open" /\ ~Unsettled /\ Mirrors
         /\ hold => Indices(srv, "user") = {}
         /\ ~(srv.port[h].st = "trans" /\ srv.port[h].hold)
         /\ hold => ~conn.ignored
         /\ Rest \subseteq All(todo)
<1>1. /\ Sound(todo) /\ StackInv /\ srv \in Servers /\ todo # << >> BY TypesOf DEF Top, DeclareWire
<1>2. Rest \subseteq All(todo) /\ All(todo) = {H} \cup Rest BY <1>1, StackFacts
<1>3. /\ H.q # << >> /\ Head(H.q) = Declare(h, hold) /\ One(Tail(H.q), Fetch(h))
  BY DEF DeclareWire, IsOpen, Two
<1>4. /\ Head(H.q) \in Cmds /\ Head(H.q).op = "declare" /\ Head(H.q).h = h
      /\ Head(H.q).hold <=> hold
  BY <1>3, DeclareType
<1>5. OpenedTask(h, hold) \in Rest /\ OpenedTask(h, hold).t = "opened" /\ OpenedTask(h, hold).h = h
      /\ ("on" \in OpenedTask(h, hold).f <=> hold)
  BY OpenedType DEF DeclareWire, IsOpen
<1>6. \A k \in Rest : k.t = "opened" => k = OpenedTask(h, hold) BY <1>1, <1>2, <1>5, OneOpened
<1>7. hold => ~conn.ignored BY <1>2, <1>5, LiveParts DEF OpeningInv
<1>8. "failed" \notin H.f /\ ~Unsettled /\ Mirrors
  <2>1. "failed" \notin H.f BY <1>3, WireHead DEF DeclareWire
  <2>2. ~Unsettled BY <1>3 DEF DeclareWire, Unsettled, Top
  <2> QED BY <2>1, <2>2, LiveParts DEF StatusInv
<1> QED BY <1>2, <1>3, <1>4, <1>5, <1>6, <1>7, <1>8 DEF DeclareWire, IsOpen, Inside
LEMMA DeclareStopped ==
  ASSUME IInv, NEW h \in Handles, NEW hold \in BOOLEAN, DeclareWire(h, hold), NEW r, NEW e, Stopped(r, e)
  PROVE  IInv'
<1>1. conn.alive /\ r \in Replies(srv, Head(H.q)) /\ r.tag = "ERROR" /\ srv \in Servers
  BY TypesOf DEF Stopped
<1>2. /\ Head(H.q) \in Cmds /\ Head(H.q).op = "declare" /\ Head(H.q).h = h
      /\ srv.st # "IDLE" /\ ~(srv.port[h].st = "trans" /\ srv.port[h].hold)
      /\ \A k \in Rest : k.t = "opened" => k = OpenedTask(h, hold)
  BY <1>1, DeclareFacts
<1>3. FailedTrans(srv, r.srv) BY <1>1, <1>2, DeclareReply DEF Says
<1>4. \A k \in Rest : k.t \in {"exec_end", "opened", "stmt_end"} BY DEF DeclareWire, ForStmt, Only
<1>5. OpenedTask(h, hold).h = h BY OpenedType
<1>6. conn.op = "none" /\ "query_rollback" \notin H.f /\ "discard_release" \notin H.f
      /\ "ignore_abort" \notin H.f
  BY DEF DeclareWire, NoQuery
<1> QED BY <1>2, <1>3, <1>4, <1>5, <1>6, StoppedStep
LEMMA DeclareWent ==
  ASSUME IInv, NEW h \in Handles, NEW hold \in BOOLEAN, DeclareWire(h, hold), NEW r, NEW e, Went(r, e)
  PROVE  IInv'
<1>1. /\ conn.alive /\ r \in Replies(srv, Head(H.q)) /\ r.tag # "ERROR" /\ srv \in Servers
      /\ srv' = r.srv /\ WireOn(e)
  BY TypesOf, WentIs
<1>2. /\ H.q # << >> /\ Head(H.q) \in Cmds /\ Head(H.q).op = "declare" /\ Head(H.q).h = h
      /\ Head(H.q).hold <=> hold
      /\ One(Tail(H.q), Fetch(h)) /\ "failed" \notin H.f
      /\ OpenedTask(h, hold) \in Rest
      /\ \A k \in Rest : k.t = "opened" => k = OpenedTask(h, hold)
      /\ srv.st # "IDLE" /\ ~curs[h].open /\ last.op = "open" /\ ~Unsettled /\ Mirrors
      /\ hold => Indices(srv, "user") = {}
      /\ hold => ~conn.ignored
      /\ Rest \subseteq All(todo)
  BY <1>1, DeclareFacts
<1>3. /\ OpenedTask(h, hold).h = h /\ OpenedTask(h, hold).t = "opened"
      /\ "on" \in OpenedTask(h, hold).f <=> hold
  BY OpenedType
<1>4. /\ srv.st = "INTRANS" /\ Says(r, "OTHER", FALSE)
      /\ srv'.st = srv.st /\ srv'.svps = srv.svps
      /\ srv'.port[h].st = "trans"
      /\ srv'.port[h].hold <=> hold
      /\ srv'.port[h].lvl = Len(srv.svps)
      /\ \A g \in Handles : g # h => srv'.port[g] = srv.port[g]
  <2>1. /\ srv.st # "INERROR" /\ Says(r, "OTHER", FALSE)
        /\ r.srv.st = srv.st /\ r.srv.svps = srv.svps
        /\ r.srv.port[h].st = IF srv.st = "IDLE" THEN "held" ELSE "trans"
        /\ r.srv.port[h].hold <=> Head(H.q).hold
        /\ r.srv.port[h].lvl = Len(srv.svps)
        /\ \A g \in Handles : g # h => r.srv.port[g] = srv.port[g]
    <3>1. PICK c : c = Head(H.q) OBVIOUS
    <3>2. c \in Cmds /\ c.op = "declare" /\ c.h \in Handles /\ c.h = h /\ r \in Replies(srv, c)
      BY <1>1, <1>2, <3>1
    <3>3. \/ r.tag = "ERROR" /\ FailedTrans(srv, r.srv)
          \/ /\ srv.st # "INERROR" /\ srv.port[c.h].st = "none" /\ Says(r, "OTHER", FALSE)
             /\ r.srv \in Servers /\ r.srv.st = srv.st /\ r.srv.svps = srv.svps
             /\ r.srv.port[c.h].st = IF srv.st = "IDLE" THEN "held" ELSE "trans"
             /\ r.srv.port[c.h].hold <=> c.hold
             /\ r.srv.port[c.h].lvl = Len(srv.svps)
             /\ \A g \in Handles : g # c.h => r.srv.port[g] = srv.port[g]
      BY <1>1, <3>2, DeclareReply
    <3> QED BY <1>1, <3>1, <3>2, <3>3
  <2>2. srv.st \in StNames BY <1>1, ServerFields
  <2> QED BY <1>1, <1>2, <2>1, <2>2 DEF StNames
<1>5. r.tag = "OTHER" /\ ~r.notice BY <1>4 DEF Says
<1>6. /\ Steady(e) /\ e.q = Tail(H.q) /\ "failed" \notin e.f /\ conn'.op = conn.op
      /\ conn'.svp <=> conn.svp
      /\ conn'.point <=> conn.point
      /\ \A x \in Flags : x \in e.f <=> x \in H.f
  BY <1>2, <1>4, <1>5, OtherSteady
<1>7. /\ H.t = "wire" /\ e.t = "wire" /\ H' = e /\ Rest' = Rest
      /\ All(todo) = {H} \cup Rest /\ All(todo') = {e} \cup Rest
      /\ (\A t : Top(t)' <=> t = "wire") /\ \A t : Top(t) <=> t = "wire"
  BY <1>1, <1>6, SteadyFacts
<1>8. /\ conn.op = "none" /\ "query_rollback" \notin e.f /\ "discard_svp" \notin e.f
      /\ "discard_release" \notin e.f /\ "discard_release" \notin H.f /\ "ignore_abort" \notin e.f
      /\ ForStmt
  BY <1>6 DEF DeclareWire, NoQuery, Flags
<1>9. /\ srv'.st = srv.st /\ curs' = curs /\ discardp' = discardp /\ last' = last
      /\ conn'.err <=> conn.err
      /\ conn'.ignored <=> conn.ignored
  BY <1>6 DEF Steady, WireOn
<1>10. /\ \A g : Closing(g)' <=> Closing(g)
       /\ \A g : Opening(g)' <=> Opening(g)
       /\ \A g : Marked(g)' <=> Marked(g)
       /\ ForStmt'
       /\ OnQuery <=> "discard_release" \in H.f
  <2>1. /\ \A g : Closing(g)' <=> Closing(g)
        /\ \A g : Opening(g)' <=> Opening(g)
        /\ \A g : Marked(g)' <=> Marked(g)
        /\ \A t : In(t)' <=> In(t)
        /\ \A T : Only(T)' <=> Only(T)
        /\ OnQuery <=> "discard_release" \in H.f
    BY <1>1, WireSame
  <2> QED BY <1>8, <2>1 DEF ForStmt
<1>11. \A k \in Rest : k.t \in {"exec_end", "opened", "stmt_end"} BY <1>8 DEF ForStmt, Only
<1>12. WireInv'
  <2>1. OpenedTask(h, hold) \in Rest' /\ One(e.q, Fetch(h)) /\ e.q # << >> BY <1>2, <1>6, <1>7 DEF One
  <2>2. SoloWire' BY <1>3, <1>4, <1>7, <1>8, <1>10, <2>1 DEF SoloWire, NoQuery, InUse
  <2> QED BY <1>6, <1>7, <1>8, <2>1, <2>2 DEF WireInv
<1>13. SvpInv' /\ LevelInv'
  <2>1. Fresh(h) BY <1>2, <1>4, <1>8, <1>10 DEF Fresh
  <2> QED BY <1>1, <1>4, <1>6, <1>8, <2>1, SteadySvps
<1>14. PermInv' /\ OpenInv' /\ PortInv'
  <2>1. \A g \in Handles : curs[g].open => g # h /\ srv'.port[g] = srv.port[g] BY <1>2, <1>4
  <2>2. PermInv' BY <1>1, <1>9, <1>10, <2>1, LiveParts DEF PermInv
  <2>3. OpenInv'
    <3> SUFFICES ASSUME NEW g \in Handles, curs[g].open, ~curs[g].perm
                 PROVE  \/ srv.port[g].st = "trans" /\ (srv.port[g].hold <=> curs[g].hold)
                        \/ srv.port[g].st = "none" /\ ((curs[g].doubt /\ ~curs[g].hold) \/ Closing(g))
      BY <1>2, <1>9, <1>10, <2>1 DEF OpenInv
    <3> QED BY <1>1, <1>2, LiveParts DEF OpenInv
  <2>4. PortInv'
    <3> SUFFICES ASSUME NEW g \in Handles, srv'.port[g].st # "none", ~curs[g].open
                 PROVE  \/ srv'.port[g].st = "trans" /\ (srv'.port[g].hold => Opening(g))
                        \/ srv'.port[g].st = "held" /\ Marked(g)
      BY <1>9, <1>10 DEF PortInv
    <3>1. CASE g = h
      <4>1. Opening(h) BY <1>2, <1>3 DEF Opening
      <4> QED BY <1>4, <3>1, <4>1
    <3>2. CASE g # h BY <1>1, <1>4, <3>2, LiveParts DEF PortInv
    <3> QED BY <3>1, <3>2
  <2> QED BY <2>2, <2>3, <2>4
<1>15. CloseInv'
  <2>1. ~Has("close_eof")' /\ ~Has("commit_send")' BY <1>7, <1>11 DEF Has
  <2> QED BY <1>7, <1>11, <2>1 DEF CloseInv
<1>16. DiscInv'
  <2>1. \A k \in All(todo') : k.t \notin Discs BY <1>7, <1>11 DEF Discs
  <2>2. \A k \in All(todo) : k.t \notin Discs BY <1>7, <1>11 DEF Discs
  <2>3. discardp = << >>
    <3>1. ~conn.err BY <1>2, <1>4 DEF Mirrors
    <3> QED BY <1>1, <2>2, <3>1, LiveParts DEF DiscInv
  <2>4. \A j \in 1..Len(discardp) : FALSE BY <2>3
  <2> QED BY <1>9, <2>1, <2>3, <2>4 DEF DiscInv, Discs
<1>17. OpeningInv'
  <2> SUFFICES ASSUME NEW k \in Rest, k.t = "opened"
               PROVE  /\ ~curs[k.h].open /\ ("on" \in k.f => ~conn'.ignored) /\ last.op = "open"
                      /\ ~Failed1'
                      /\ srv'.st = "INTRANS" /\ srv'.port[k.h].st = "trans"
                      /\ srv'.port[k.h].hold <=> "on" \in k.f
    BY <1>7, <1>9 DEF OpeningInv, InUse
  <2>1. k = OpenedTask(h, hold) BY <1>2
  <2>2. ~Failed1' BY <1>6, <1>7, <1>11 DEF Failed1
  <2> QED BY <1>2, <1>3, <1>4, <1>9, <2>1, <2>2
<1> QED BY <1>1, <1>6, <1>12, <1>13, <1>14, <1>15, <1>16, <1>17, SteadyStep
(* BEGIN *)
BeginsWire ==
  /\ Top("wire") /\ conn.op = "none" /\ NoMore(H.f) /\ H.q # << >> /\ Head(H.q) = Cmd("begin")
  /\ ~conn.inTrans
  /\ \/ Only({"request_start", "exec_ext", "exec_end", "stmt_end"}) /\ Tail(H.q) = << >>
     \/ ForStmt /\ Body(Tail(H.q))
LEMMA BeginsFacts ==
  ASSUME IInv, conn.alive, BeginsWire
  PROVE  /\ srv.st = "IDLE" /\ ~conn.err /\ ~conn.svp /\ ~conn.committing /\ "failed" \notin H.f
         /\ H.f \in SUBSET Flags
         /\ \A k \in Rest : k.t \in {"request_start", "exec_ext", "exec_end", "opened", "stmt_end"}
         /\ \A h \in Handles : srv.port[h].st # "trans" /\ ~(curs[h].open /\ ~curs[h].perm)
         /\ \A r \in Replies(srv, Head(H.q)) :
              /\ r.srv \in Servers /\ r.srv.st = "INTRANS" /\ r.srv.svps = srv.svps /\ r.srv.port = srv.port
              /\ Says(r, "BEGIN", FALSE)
<1>1. /\ Sound(todo) /\ StackInv /\ srv \in Servers /\ todo # << >> /\ All(todo) = {H} \cup Rest
      /\ H.t = "wire" /\ H.q # << >> /\ "failed" \notin H.f /\ H \in Tasks
  <2>1. Top("wire") /\ H.q # << >> BY DEF BeginsWire
  <2>2. todo # << >> /\ H.t = "wire" BY <2>1 DEF Top, H
  <2>3. Sound(todo) /\ StackInv /\ srv \in Servers BY TypesOf
  <2> QED BY <2>1, <2>2, <2>3, StackFacts, WireHead
<1>2. \A k \in Rest : k.t \in {"request_start", "exec_ext", "exec_end", "opened", "stmt_end"}
  BY DEF BeginsWire, ForStmt, Only
<1>3. ~conn.committing BY <1>1, <1>2 DEF StackInv, Has
<1>4. ~Unsettled
  <2>1. ~Top("query_rollback") /\ ~Top("update") BY <1>1 DEF Top, H
  <2> QED BY <1>1, <2>1 DEF Unsettled
<1>5. srv.st = "IDLE" /\ ~conn.err /\ ~conn.svp
  BY <1>4, LiveParts DEF StatusInv, Mirrors, Matches, BeginsWire
<1>6. \A h \in Handles : srv.port[h].st # "trans" /\ ~(curs[h].open /\ ~curs[h].perm)
  BY <1>3, <1>4, <1>5, LiveParts DEF LevelInv, OpenInv
<1>7. ASSUME NEW r \in Replies(srv, Head(H.q))
      PROVE  /\ r.srv \in Servers /\ r.srv.st = "INTRANS" /\ r.srv.svps = srv.svps /\ r.srv.port = srv.port
             /\ Says(r, "BEGIN", FALSE)
  <2>1. PICK c : c = Cmd("begin") OBVIOUS
  <2>2. c \in Cmds /\ c.op = "begin" /\ r \in Replies(srv, c)
    BY <1>7, <2>1, CmdType DEF CmdNames, Kinds, BeginsWire
  <2>3. /\ r.srv \in Servers /\ r.srv.st = "INTRANS"
        /\ r.srv.svps = srv.svps /\ r.srv.port = srv.port
        /\ Says(r, "BEGIN", srv.st # "IDLE")
    BY <1>1, <1>5, <2>2, BeginReply
  <2> QED BY <1>5, <2>3 DEF Says
<1>8. H.f \in SUBSET Flags BY <1>1, TaskFields
<1> QED BY <1>1, <1>2, <1>3, <1>5, <1>6, <1>7, <1>8
LEMMA BeginsStopped ==
  ASSUME IInv, conn.alive, BeginsWire, NEW r, NEW e
  PROVE  ~Stopped(r, e)
<1>1. r \in Replies(srv, Head(H.q)) => r.tag = "BEGIN" BY BeginsFacts DEF Says
<1> QED BY <1>1 DEF Stopped
LEMMA BeginsWent ==
  ASSUME IInv, BeginsWire, NEW r, NEW e, Went(r, e)
  PROVE  IInv'
<1>1. /\ WireOn(e) /\ e.q = Tail(H.q) /\ e.f = TagFlags(H.f, r.tag) /\ conn.alive
      /\ Tagged(conn, H.f, r.tag, r.notice) /\ srv' = r.srv /\ curs' = TagCursors(r.tag)
      /\ r \in Replies(srv, Head(H.q))
  BY WentIs
<1>2. /\ srv.st = "IDLE" /\ ~conn.err /\ ~conn.svp /\ ~conn.committing /\ "failed" \notin H.f
      /\ H.f \in SUBSET Flags
      /\ \A k \in Rest : k.t \in {"request_start", "exec_ext", "exec_end", "opened", "stmt_end"}
      /\ \A h \in Handles : srv.port[h].st # "trans" /\ ~(curs[h].open /\ ~curs[h].perm)
  BY <1>1, BeginsFacts
<1>3. /\ srv'.st = "INTRANS" /\ srv'.svps = srv.svps /\ srv'.port = srv.port
      /\ r.tag = "BEGIN" /\ ~r.notice
  BY <1>1, BeginsFacts DEF Says
<1>4. curs' = curs /\ e.f = H.f BY <1>1, <1>3 DEF TagCursors, TagFlags
<1>5. /\ conn'.inTrans /\ conn'.manual /\ ~conn'.err /\ ~conn'.svp /\ conn'.op = "none"
      /\ ~conn'.committing
      /\ conn'.ignored <=> conn.ignored
      /\ conn'.point <=> conn.point
  BY <1>1, <1>2, <1>3 DEF Tagged, BeginsWire
<1>6. /\ todo # << >> /\ H.t = "wire" /\ Sound(todo) /\ StackInv /\ All(todo) = {H} \cup Rest
      /\ H' = e /\ Rest' = Rest /\ All(todo') = {e} \cup Rest
      /\ Truthful(todo') /\ BaseInv'
      /\ \A t : Top(t) <=> t = "wire"
      /\ \A t : Top(t)' <=> t = "wire"
  BY <1>1, WireFacts
<1>7. e.t = "wire" /\ discardp' = discardp /\ last' = last BY <1>1 DEF WireOn
<1>8. /\ \A h : Closing(h)' <=> Closing(h)
      /\ \A h : Opening(h)' <=> Opening(h)
      /\ \A h : Marked(h)' <=> Marked(h)
      /\ \A t : t # "wire" => (Has(t)' <=> Has(t))
      /\ \A t : t # "wire" => (Has(t) <=> In(t))
      /\ Busy' <=> Busy
      /\ OnQuery' <=> "discard_release" \in e.f
      /\ \A T : Only(T)' <=> Only(T)
      /\ \A t : In(t)' <=> In(t)
  BY <1>1, WireSame
<1>9. /\ ~In("moved") /\ ~In("transact_end") /\ ~In("svp_sent") /\ ~In("close_eof") /\ ~In("commit_send")
      /\ ~In("discard") /\ ~In("discard_free") /\ ~In("close") /\ ~In("closed")
  BY <1>2 DEF In
<1>10. ~Busy BY <1>2, <1>6 DEF Busy, Chores, Discs, Clears
<1>11. ~OnQuery' /\ NoMore(e.f) BY <1>4, <1>8 DEF NoMore, BeginsWire
<1>12. StatusInv' BY <1>3, <1>5, <1>8, <1>9, <1>10 DEF StatusInv, Mirrors, Matches
<1>13. WireInv'
  <2>1. CASE e.q = << >>
    <3>1. Succeeded' BY <1>5, <1>6, <1>11 DEF Succeeded, NoMore
    <3> QED BY <1>2, <1>4, <1>5, <1>6, <2>1, <3>1 DEF WireInv
  <2>2. CASE e.q # << >>
    <3>1. ForStmt /\ Body(Tail(H.q)) BY <1>1, <2>2 DEF BeginsWire
    <3>2. PICK q : q = Tail(H.q) OBVIOUS
    <3>3. Indices(srv', "user") = Indices(srv, "user") BY <1>3 DEF Indices
    <3>4. Body(q) /\ (\A h \in Handles : srv'.port[h].st = srv.port[h].st)
          /\ \A h \in Handles : srv'.port[h].hold <=> srv.port[h].hold
      BY <1>3, <3>1, <3>2
    <3>5. Body(q)' BY <1>2, <1>3, <1>4, <1>5, <1>6, <1>7, <3>3, <3>4, BodyKept
    <3>6. H'.q = q BY <1>1, <1>6, <3>2
    <3>7. SoloWire'
      <4>1. ForStmt' BY <1>8, <3>1 DEF ForStmt
      <4>2. Inside(H.q)' BY <1>3 DEF Inside
      <4> QED BY <1>6, <1>11, <3>5, <3>6, <4>1, <4>2 DEF SoloWire, NoQuery, NoMore
    <3> QED BY <1>2, <1>4, <1>5, <1>6, <2>2, <3>7 DEF WireInv
  <2> QED BY <2>1, <2>2
<1>14. TalkInv' BY <1>5, <1>6, <1>13 DEF TalkInv, SendInv
<1>15. SvpInv'
  <2>1. conn.point => Has("stmt_end") \/ Has("stmt_clean") BY <1>1, LiveParts DEF SvpInv
  <2> QED BY <1>5, <1>6, <1>8, <1>11, <2>1 DEF SvpInv
<1>16. LevelInv' BY <1>2, <1>3 DEF LevelInv
<1>17. PermInv' /\ OpenInv' /\ PortInv'
  <2>1. PermInv' /\ PortInv' BY <1>1, <1>3, <1>4, <1>8, LiveParts DEF PermInv, PortInv
  <2>2. OpenInv' BY <1>2, <1>4 DEF OpenInv
  <2> QED BY <2>1, <2>2
<1>18. CloseInv' /\ IgnInv'
  <2>1. ~Has("close_eof")' /\ ~Has("commit_send")' BY <1>8, <1>9
  <2>2. CloseInv' BY <1>6, <1>7, <1>9, <2>1 DEF CloseInv, In
  <2>3. IgnInv' BY <1>1, <1>4, <1>5, <1>6, <1>7, <1>9, LiveParts DEF IgnInv, In
  <2> QED BY <2>2, <2>3
<1>19. OpeningInv'
  <2> SUFFICES ASSUME NEW k \in Rest, k.t = "opened"
               PROVE  /\ ~curs[k.h].open /\ ("on" \in k.f => ~conn'.ignored) /\ last.op = "open"
                      /\ ~Failed1'
                      /\ ForStmt' /\ Top("wire")' /\ e.q # << >> /\ ~One(e.q, Fetch(k.h))
                      /\ ~(srv'.port[k.h].st = "trans" /\ srv'.port[k.h].hold)
    BY <1>4, <1>6, <1>7 DEF OpeningInv
  <2>1. ForStmt /\ Body(Tail(H.q)) BY DEF BeginsWire, Only
  <2>2. k.h \in Handles BY <1>6 DEF StackInv, HandleTasks
  <2>3. e.q # << >> /\ ~One(e.q, Fetch(k.h)) BY <1>1, <2>1, <2>2, BodyIs
  <2>4. ForStmt' BY <1>8, <2>1 DEF ForStmt
  <2>5. ~Failed1' BY <1>2, <1>4, <1>6, <1>7 DEF Failed1
  <2>6. ~curs[k.h].open /\ ("on" \in k.f => ~conn.ignored) /\ last.op = "open"
    BY <1>1, <1>6, LiveParts DEF OpeningInv
  <2> QED BY <1>2, <1>3, <1>5, <1>6, <2>2, <2>3, <2>4, <2>5, <2>6
<1>20. DiscInv'
  <2>1. \A k \in All(todo') : k.t \notin Discs BY <1>2, <1>6, <1>7 DEF Discs
  <2>2. \A k \in All(todo) : k.t \notin Discs BY <1>2, <1>6 DEF Discs
  <2>3. discardp = << >> BY <1>1, <1>2, <2>2, LiveParts DEF DiscInv
  <2>4. \A j \in 1..Len(discardp) : FALSE BY <2>3
  <2> QED BY <1>7, <2>1, <2>3, <2>4 DEF DiscInv, Discs
<1>21. RetInv' /\ ExtInv'
  <2>1. RetInv' BY <1>6, <1>8, <1>9 DEF RetInv
  <2>2. ExtInv'
    <3> SUFFICES ASSUME NEW k \in Rest, k.t \in {"request_start", "exec_ext"}
                 PROVE  last.op \in Kinds \ EndKinds /\ One(k.q, Cmd(last.op))
      BY <1>3, <1>6, <1>7 DEF ExtInv
    <3> QED BY <1>1, <1>6, LiveParts DEF ExtInv
  <2> QED BY <2>1, <2>2
<1> QED BY <1>6, <1>12, <1>14, <1>15, <1>16, <1>17, <1>18, <1>19, <1>20, <1>21, LiveFrom DEF IInv
(* CLOSE, MOVE and DEALLOCATE *)
LEMMA QuickNotStmt ==
  ASSUME NEW c, Quick(c)
  PROVE  ~ForStmt
<1>1. \A k \in Rest : k.t \in {"discard_free", "moved", "closed"} => ~ForStmt BY DEF ForStmt, Only
<1>2. In("discard_free") => ~ForStmt BY <1>1 DEF In
<1>3. Rest = {} => ~ForStmt BY DEF ForStmt, In
<1> QED BY <1>1, <1>2, <1>3 DEF Quick
\* The command c is executed next, outside a failed transaction.
QuickHead(c) ==
  /\ Top("wire") /\ H.q # << >> /\ Head(H.q) = c /\ Quick(c) /\ srv.st # "INERROR"
\* A CLOSE of a cursor that is there, or of one that is not.
\* A reply that says nothing of the transaction.
Silent(r) == Says(r, "OTHER", FALSE)
LEMMA CloseNow ==
  ASSUME NEW s \in Servers, NEW c \in Cmds, c.op = "close", c.h \in Handles, NEW r \in Replies(s, c),
         s.st # "INERROR", s.port[c.h].st # "none"
  PROVE  /\ Silent(r) /\ r.srv.st = s.st /\ r.srv.svps = s.svps
         /\ r.srv.port[c.h].st = "none"
         /\ \A g \in Handles : g # c.h => r.srv.port[g] = s.port[g]
  BY CloseReply DEF Silent
LEMMA CloseLost ==
  ASSUME NEW s \in Servers, NEW c \in Cmds, c.op = "close", c.h \in Handles, NEW r \in Replies(s, c),
         s.port[c.h].st = "none"
  PROVE  r.tag = "ERROR" /\ FailedTrans(s, r.srv)
  BY CloseReply
LEMMA QuickReply ==
  ASSUME IInv, conn.alive, NEW c, QuickHead(c), NEW r \in Replies(srv, c)
  PROVE  /\ c \in Cmds /\ (c.op # "deallocate" => c.h \in Handles)
         /\ \/ ~Sure(c) /\ r.tag = "ERROR" /\ FailedTrans(srv, r.srv)
            \/ /\ Silent(r) /\ Sure(c)
               /\ r.srv.st = srv.st /\ r.srv.svps = srv.svps
               /\ c.op # "close" => r.srv = srv
               /\ c.op = "close" => /\ r.srv.port[c.h].st = "none"
                                    /\ \A g \in Handles : g # c.h => r.srv.port[g] = srv.port[g]
<1>1. c \in Cmds /\ (c.op \in {"close", "move"} => c.h \in Handles) /\ srv \in Servers
  BY WireHead, TypesOf DEF QuickHead
<1>2. c.op \in {"deallocate", "close", "move"} /\ srv.st # "INERROR" BY QuickIs DEF QuickHead
<1>3. CASE c.op = "deallocate"
  <2>1. Silent(r) /\ r.srv = srv BY <1>1, <1>2, <1>3, DeallocateReply DEF Silent
  <2> QED BY <1>1, <1>3, <2>1 DEF Sure
<1>4. CASE c.op = "close"
  <2>1. \/ srv.port[c.h].st = "none" /\ r.tag = "ERROR" /\ FailedTrans(srv, r.srv)
        \/ /\ srv.port[c.h].st # "none" /\ Silent(r)
           /\ r.srv.st = srv.st /\ r.srv.svps = srv.svps
           /\ r.srv.port[c.h].st = "none"
           /\ \A g \in Handles : g # c.h => r.srv.port[g] = srv.port[g]
    <3>1. c.h \in Handles /\ srv \in Servers /\ c \in Cmds /\ c.op = "close" /\ r \in Replies(srv, c)
      BY <1>1, <1>4
    <3>2. srv.port[c.h].st = "none" => r.tag = "ERROR" /\ FailedTrans(srv, r.srv) BY <3>1, CloseLost
    <3>3. ASSUME srv.port[c.h].st # "none"
          PROVE  /\ Silent(r) /\ r.srv.st = srv.st /\ r.srv.svps = srv.svps
                 /\ r.srv.port[c.h].st = "none"
                 /\ \A g \in Handles : g # c.h => r.srv.port[g] = srv.port[g]
      <4>1. srv.st # "INERROR" BY <1>2
      <4> QED BY <3>1, <3>3, <4>1, CloseNow
    <3> QED BY <3>2, <3>3
  <2>2. Sure(c) <=> srv.port[c.h].st # "none" BY <1>4 DEF Sure
  <2> QED BY <1>1, <1>4, <2>1, <2>2
<1>5. CASE c.op = "move"
  <2>1. \/ srv.port[c.h].st = "none" /\ r.tag = "ERROR" /\ FailedTrans(srv, r.srv)
        \/ srv.port[c.h].st # "none" /\ Silent(r) /\ r.srv = srv
    BY <1>1, <1>2, <1>5, FetchReply DEF Silent
  <2>2. Sure(c) <=> srv.port[c.h].st # "none" BY <1>5 DEF Sure
  <2> QED BY <1>1, <1>5, <2>1, <2>2
<1> QED BY <1>2, <1>3, <1>4, <1>5
\* It is the last one, or the internal savepoint is released after it.
QuickLast == Tail(H.q) = << >> \/ One(Tail(H.q), SvpCmd("release", "query"))
LEMMA QuickPending ==
  ASSUME IInv, conn.alive, NEW c, QuickHead(c), QuickLast, NEW e, WireOn(e), e.q = Tail(H.q)
  PROVE  /\ \A d : d.op = "close" => (Pending(d) <=> d = c)
         /\ \A d : d.op = "close" => ~Pending(d)'
<1>1. SvpCmd("release", "query").op = "release" BY SvpCmdType DEF CmdNames, Kinds, Svps
<1> SUFFICES ASSUME NEW d, d.op = "close"
             PROVE  (Pending(d) <=> d = c) /\ ~Pending(d)'
  OBVIOUS
<1>2. /\ Pending(d) <=> Head(H.q) = d \/ (Tail(H.q) # << >> /\ Head(Tail(H.q)) = d)
      /\ Pending(d)' <=> /\ e.q # << >>
                         /\ Head(e.q) = d \/ (Tail(e.q) # << >> /\ Head(Tail(e.q)) = d)
  BY PendingWire
<1>3. ~(Tail(H.q) # << >> /\ Head(Tail(H.q)) = d) BY <1>1 DEF QuickLast, One
<1>4. Tail(H.q) # << >> => Head(Tail(H.q)) # d /\ Tail(Tail(H.q)) = << >> BY <1>1 DEF QuickLast, One
<1> QED BY <1>2, <1>3, <1>4 DEF QuickHead
\* The cursor stays where it is.
LEMMA QuickKeeps ==
  ASSUME IInv, NEW c, QuickHead(c), QuickLast, c.op # "close", NEW r, NEW e, Went(r, e), WireInv'
  PROVE  IInv'
<1>1. /\ WireOn(e) /\ e.q = Tail(H.q) /\ conn.alive /\ srv' = r.srv
      /\ r \in Replies(srv, Head(H.q)) /\ r.tag # "ERROR"
  BY WentIs
<1>2. Silent(r) /\ r.srv = srv BY <1>1, QuickReply DEF QuickHead
<1>3. c.op \in {"deallocate", "move"} /\ Head(H.q) = c BY QuickIs DEF QuickHead
<1>4. r.tag = "OTHER" /\ ~r.notice /\ srv' = srv BY <1>1, <1>2 DEF Says, Silent
<1>5. /\ Steady(e) /\ "failed" \notin e.f
      /\ conn'.svp <=> conn.svp
      /\ conn'.point <=> conn.point
      /\ \A x \in Flags : x \in e.f <=> x \in H.f
  BY <1>3, <1>4, OtherSteady
<1>6. SvpInv' /\ LevelInv' BY <1>1, <1>4, <1>5, SteadySvps DEF Flags
<1>7. \A d : d.op = "close" => ~Pending(d) /\ ~Pending(d)' BY <1>1, <1>3, QuickPending
<1>8. PermInv' /\ OpenInv' /\ PortInv' /\ CloseInv' /\ DiscInv' BY <1>1, <1>4, <1>5, <1>7, SteadyPorts
<1>9. ~ForStmt BY QuickNotStmt DEF QuickHead
<1>10. OpeningInv' BY <1>1, <1>4, <1>5, <1>9, OpeningSame
<1> QED BY <1>1, <1>5, <1>6, <1>8, <1>10, SteadyStep
\* CLOSE of a cursor: one that a statement owned, or one that was to be discarded.
LEMMA ClosedNow ==
  ASSUME IInv, NEW c, QuickHead(c), QuickLast, c.op = "close", NEW r, NEW e, Went(r, e), WireInv', ~conn.err
  PROVE  IInv'
<1>1. /\ WireOn(e) /\ e.q = Tail(H.q) /\ conn.alive /\ srv' = r.srv
      /\ r \in Replies(srv, Head(H.q)) /\ r.tag # "ERROR"
  BY WentIs
<1>2. PICK h \in Handles : h = c.h BY <1>1, QuickReply DEF QuickHead
<1>3. /\ Silent(r) /\ srv'.st = srv.st /\ srv'.svps = srv.svps /\ srv'.port[h].st = "none"
      /\ \A g \in Handles : g # h => srv'.port[g] = srv.port[g]
  BY <1>1, <1>2, QuickReply DEF QuickHead
<1>4. Head(H.q).op = "close" /\ r.tag = "OTHER" /\ ~r.notice BY <1>3 DEF QuickHead, Silent, Says
<1>5. /\ Steady(e) /\ "failed" \notin e.f
      /\ conn'.svp <=> conn.svp
      /\ conn'.point <=> conn.point
      /\ \A x \in Flags : x \in e.f <=> x \in H.f
  BY <1>3, <1>4, OtherSteady
<1>6. /\ todo # << >> /\ H.t = "wire" /\ Sound(todo) /\ StackInv /\ All(todo) = {H} \cup Rest
      /\ H' = e /\ Rest' = Rest /\ All(todo') = {e} \cup Rest
      /\ \A t : Top(t) <=> t = "wire"
      /\ \A t : Top(t)' <=> t = "wire"
      /\ "failed" \notin H.f
  BY <1>1, WireFacts
<1>7. /\ e.t = "wire" /\ discardp' = discardp /\ last' = last /\ curs' = curs
      /\ conn'.err <=> conn.err
      /\ conn'.ignored <=> conn.ignored
      /\ conn'.committing <=> conn.committing
      /\ conn'.inTrans <=> conn.inTrans
  BY <1>1, <1>5 DEF WireOn, Steady
<1>8. /\ \A x : Closing(x)' <=> Closing(x)
      /\ \A x : Opening(x)' <=> Opening(x)
      /\ \A x : Marked(x)' <=> Marked(x)
      /\ \A t : t # "wire" => (Has(t)' <=> Has(t))
      /\ ~Unsettled
      /\ \A T : Only(T)' <=> Only(T)
      /\ \A t : In(t)' <=> In(t)
      /\ \A t : t # "wire" => (Has(t) <=> In(t))
  BY <1>1, WireSame
<1>9. /\ \A d : d.op = "close" => (Pending(d) <=> d = c)
      /\ \A d : d.op = "close" => ~Pending(d)'
  BY <1>1, QuickPending
<1>10. \A x \in Handles : CloseIt(x).op = "close" /\ CloseIt(x).h = x BY FetchType
<1>11. \A x \in Handles : CursCmd("move", x).op = "move" BY CursCmdType DEF CmdNames
<1>12. \A k \in Rest : k.t \in {"moved", "closed"} => k.h \in Handles BY <1>6 DEF StackInv, HandleTasks
<1>13. \A x \in Handles : Pending(CloseIt(x)) => x = h BY <1>2, <1>9, <1>10
<1>14. \A x \in Handles : srv'.port[x].st = srv.port[x].st \/ (x = h /\ srv'.port[x].st = "none") BY <1>3
<1>15. \A j \in 1..Len(discardp) : discardp[j].type = "p" => discardp[j].h \in Handles
  BY <1>1, LiveParts DEF DiscInv
<1>16. ASSUME NEW k \in Rest, k.t = "discard_free" PROVE k.i \in 1..Len(discardp)
  <2>1. k \in All(todo) BY <1>6
  <2>2. k.i = Len(discardp) /\ k.i > 0 BY <1>1, <1>16, <2>1, LiveParts DEF DiscInv
  <2>3. k.i \in Nat BY <1>6, <2>1, AllIn, TaskFields DEF Sound
  <2> QED BY <2>2, <2>3
<1>17. \/ \E k \in Rest : k.t = "closed" /\ c = CloseIt(k.h) /\ Only(Ends)
       \/ \E k \in Rest : /\ k.t = "discard_free" /\ k.i \in 1..Len(discardp)
                          /\ discardp[k.i].type = "p" /\ c = CloseIt(discardp[k.i].h)
  <2>1. c # Cmd("deallocate") BY CmdType DEF CmdNames
  <2>2. ASSUME NEW k \in Rest, k.t = "moved" PROVE c # CursCmd("move", k.h) BY <1>11, <1>12, <2>2
  <2> QED BY <1>16, <2>1, <2>2 DEF Quick, QuickHead
<1>18. /\ c = CloseIt(h)
       /\ \A x \in Handles : c = CloseIt(x) => x = h
  <2>1. \A x \in Handles : c = CloseIt(x) => x = h BY <1>2, <1>10
  <2> QED BY <1>15, <1>12, <1>17, <2>1
<1>19. \/ Closing(h) /\ Only(Ends) /\ curs[h].open
       \/ \E k \in Rest : /\ k.t = "discard_free" /\ k.i \in 1..Len(discardp)
                          /\ discardp[k.i].type = "p" /\ discardp[k.i].h = h
  <2>1. ASSUME NEW k \in Rest, k.t = "closed" PROVE curs[k.h].open
    BY <1>1, <1>6, <2>1, LiveParts DEF CloseInv
  <2>2. ASSUME NEW k \in Rest, k.t = "closed", k.h = h PROVE Closing(h) BY <1>6, <2>2 DEF Closing
  <2>3. CASE \E k \in Rest : k.t = "closed" /\ c = CloseIt(k.h) /\ Only(Ends)
    BY <1>12, <1>18, <2>1, <2>2, <2>3
  <2> QED BY <1>15, <1>17, <1>18, <2>3
<1>20. SvpInv' /\ LevelInv' BY <1>1, <1>3, <1>5, SteadySvps DEF Flags
<1>21. PermInv'
  <2> SUFFICES ASSUME NEW g \in Handles, curs[g].open, curs[g].perm
               PROVE  curs[g].hold /\ (srv'.port[g].st = "held" \/ Closing(g))
    BY <1>7, <1>8 DEF PermInv
  <2>1. curs[g].hold /\ (srv.port[g].st = "held" \/ Closing(g)) BY <1>1, LiveParts DEF PermInv
  <2>2. g = h => Closing(h)
    <3>1. \A j \in 1..Len(discardp) : discardp[j].type = "p" => ~curs[discardp[j].h].open
      BY <1>1, LiveParts DEF DiscInv
    <3> QED BY <1>19, <3>1
  <2> QED BY <1>14, <2>1, <2>2
<1>22. OpenInv'
  <2> SUFFICES ASSUME NEW g \in Handles, curs[g].open, ~curs[g].perm
               PROVE  IF srv.st # "IDLE"
                      THEN \/ srv'.port[g].st = "trans" /\ (srv'.port[g].hold <=> curs[g].hold)
                           \/ srv'.port[g].st = "none" /\ ((curs[g].doubt /\ ~curs[g].hold) \/ Closing(g))
                      ELSE /\ conn.committing
                           /\ \E k \in All(todo) : k.t \in Clears /\ k.h = g
                           /\ srv'.port[g].st = IF ~conn.err /\ curs[g].hold THEN "held" ELSE "none"
                           /\ ~Closing(g)
    <3>1. \A x : (\E k \in All(todo) : k.t \in Clears /\ k.h = x)
                 => \E k \in All(todo') : k.t \in Clears /\ k.h = x
      BY <1>6 DEF Clears
    <3> QED BY <1>3, <1>7, <1>8, <3>1 DEF OpenInv
  <2>1. IF srv.st # "IDLE"
        THEN \/ srv.port[g].st = "trans" /\ (srv.port[g].hold <=> curs[g].hold)
             \/ srv.port[g].st = "none" /\ ((curs[g].doubt /\ ~curs[g].hold) \/ Closing(g))
        ELSE /\ conn.committing
             /\ \E k \in All(todo) : k.t \in Clears /\ k.h = g
             /\ srv.port[g].st = IF ~conn.err /\ curs[g].hold THEN "held" ELSE "none"
             /\ ~Closing(g)
    BY <1>1, <1>8, LiveParts DEF OpenInv
  <2>2. \A j \in 1..Len(discardp) : discardp[j].type = "p" => ~curs[discardp[j].h].open
    BY <1>1, LiveParts DEF DiscInv
  <2>3. g = h => Closing(h) /\ Only(Ends) BY <1>19, <2>2
  <2>4. CASE g # h BY <1>3, <2>1, <2>4
  <2>5. CASE g = h
    <3>1. srv'.port[g].st = "none" /\ Closing(g) BY <1>3, <2>3, <2>5
    <3>2. srv.st # "IDLE" BY <2>1, <3>1
    <3> QED BY <3>1, <3>2
  <2> QED BY <2>4, <2>5
<1>23. PortInv'
  <2> SUFFICES ASSUME NEW g \in Handles, srv'.port[g].st # "none", ~curs[g].open
               PROVE  \/ srv'.port[g].st = "trans" /\ (srv'.port[g].hold => Opening(g))
                      \/ srv'.port[g].st = "held" /\ Marked(g)
    BY <1>7, <1>8 DEF PortInv
  <2>1. g # h /\ srv'.port[g] = srv.port[g] BY <1>3
  <2> QED BY <1>1, <2>1, LiveParts DEF PortInv
<1>24. CloseInv'
  <2>1. ASSUME NEW k \in Rest, k.t = "closed"
        PROVE  curs[k.h].open /\ srv'.port[k.h].st = "none"
    <3>1. k \in All(todo) /\ k.h \in Handles BY <1>6, <2>1 DEF StackInv, HandleTasks
    <3>2. curs[k.h].open /\ (Pending(CloseIt(k.h)) \/ srv.port[k.h].st = "none")
      BY <1>1, <2>1, <3>1, LiveParts DEF CloseInv
    <3>3. CASE Pending(CloseIt(k.h))
      <4>1. k.h = h BY <1>13, <3>1, <3>3
      <4> QED BY <1>3, <3>2, <4>1
    <3>4. CASE srv.port[k.h].st = "none" BY <1>14, <3>1, <3>2, <3>4
    <3> QED BY <3>2, <3>3, <3>4
  <2>2. \A k \in Rest : k.t = "moved" => curs[k.h].open /\ curs[k.h].hold /\ ~curs[k.h].perm
    BY <1>1, <1>6, LiveParts DEF CloseInv
  <2>3. Has("close_eof") => InUse /\ ~conn.err BY <1>1, LiveParts DEF CloseInv
  <2>4. Has("commit_send") => \A k \in Rest : k.t \in {"close", "closed"} =>
           InUse /\ ~conn.err /\ curs[k.h].hold
    BY <1>1, <1>6, LiveParts DEF CloseInv
  <2> QED BY <1>3, <1>6, <1>7, <1>8, <2>1, <2>2, <2>3, <2>4 DEF CloseInv, InUse
<1>25. DiscInv'
  <2>1. \A k \in Rest : k.t \in {"discard", "discard_free"} => k.i = Len(discardp) /\ k.i > 0
    BY <1>1, <1>6, LiveParts DEF DiscInv
  <2>2. ASSUME NEW k \in Rest, k.t = "discard_free", discardp[k.i].type = "p"
        PROVE  srv'.port[discardp[k.i].h].st = "none"
    <3>1. k \in All(todo) BY <1>6
    <3>2. k.i \in 1..Len(discardp) BY <1>16, <2>2
    <3>3. Pending(CloseIt(discardp[k.i].h)) \/ srv.port[discardp[k.i].h].st = "none"
      BY <1>1, <2>2, <3>1, LiveParts DEF DiscInv
    <3>4. PICK x \in Handles : x = discardp[k.i].h BY <1>15, <2>2, <3>2
    <3>5. CASE Pending(CloseIt(x))
      <4>1. x = h BY <1>13, <3>5
      <4> QED BY <1>3, <3>4, <4>1
    <3>6. CASE srv.port[x].st = "none" BY <1>14, <3>4, <3>6
    <3> QED BY <3>3, <3>4, <3>5, <3>6
  <2>3. discardp # << >> => \E k \in Rest : k.t \in Discs
    <3>1. discardp # << >> => \E k \in All(todo) : k.t \in Discs BY <1>1, LiveParts DEF DiscInv
    <3> QED BY <1>6, <3>1 DEF Discs
  <2>4. ASSUME NEW j \in 1..Len(discardp), discardp[j].type = "p"
        PROVE  /\ discardp[j].h \in Handles /\ ~curs[discardp[j].h].open
               /\ \/ srv'.port[discardp[j].h].st = "held"
                  \/ \E k \in Rest : k.t = "discard_free" /\ j = k.i
               /\ \A i \in 1..Len(discardp) :
                     i # j /\ discardp[i].type = "p" => discardp[i].h # discardp[j].h
    <3>1. /\ discardp[j].h \in Handles /\ ~curs[discardp[j].h].open
          /\ \/ srv.port[discardp[j].h].st = "held"
             \/ \E k \in All(todo) : k.t = "discard_free" /\ j = k.i
          /\ \A i \in 1..Len(discardp) :
                i # j /\ discardp[i].type = "p" => discardp[i].h # discardp[j].h
      BY <1>1, <2>4, LiveParts DEF DiscInv
    <3>2. (\E k \in All(todo) : k.t = "discard_free" /\ j = k.i)
          => \E k \in Rest : k.t = "discard_free" /\ j = k.i
      BY <1>6
    <3>3. discardp[j].h = h => \E k \in Rest : k.t = "discard_free" /\ j = k.i BY <1>19, <3>1
    <3> QED BY <1>14, <3>1, <3>2, <3>3
  <2>5. ASSUME NEW x \in Handles PROVE ~Pending(CloseIt(x))' BY <1>9, <1>10
  <2> SUFFICES ASSUME NEW j \in 1..Len(discardp), discardp[j].type = "p"
               PROVE  \/ srv'.port[discardp[j].h].st = "held"
                      \/ /\ \E k \in Rest : k.t = "discard_free" /\ j = k.i
                         /\ ~Pending(CloseIt(discardp[j].h))'
    BY <1>6, <1>7, <2>1, <2>2, <2>3, <2>4 DEF DiscInv
  <2>6. ~Pending(CloseIt(discardp[j].h))' BY <1>7, <2>4, <2>5
  <2> QED BY <2>4, <2>6
<1>26. OpeningInv'
  <2>1. Failed1' <=> Failed1
    <3>1. (\E x \in All(todo) : x.t = "return" /\ "ok" \notin x.f)
          <=> \E x \in All(todo') : x.t = "return" /\ "ok" \notin x.f
      BY <1>6, <1>7
    <3> QED BY <1>5, <1>6, <3>1 DEF Failed1
  <2> SUFFICES ASSUME NEW k \in Rest, k.t = "opened"
               PROVE  /\ ~curs[k.h].open /\ ("on" \in k.f => ~conn.ignored) /\ last.op = "open"
                      /\ Failed1 => ~InUse
                      /\ \/ Failed1 /\ ~(srv'.port[k.h].st = "trans" /\ srv'.port[k.h].hold)
                         \/ InUse /\ srv'.port[k.h].st = "trans" /\ (srv'.port[k.h].hold <=> "on" \in k.f)
    BY <1>3, <1>6, <1>7, <2>1 DEF OpeningInv, InUse
  <2>2. k \in All(todo) /\ k.h \in Handles BY <1>6 DEF StackInv, HandleTasks
  <2>3. ~ForStmt BY QuickNotStmt DEF QuickHead
  <2>4. /\ ~curs[k.h].open /\ ("on" \in k.f => ~conn.ignored) /\ last.op = "open"
        /\ Failed1 => ~InUse
        /\ \/ Failed1 /\ ~(srv.port[k.h].st = "trans" /\ srv.port[k.h].hold)
           \/ InUse /\ srv.port[k.h].st = "trans" /\ (srv.port[k.h].hold <=> "on" \in k.f)
    BY <1>1, <2>2, <2>3, LiveParts DEF OpeningInv
  <2>5. k.h = h => srv.port[h].st # "trans"
    <3>1. ASSUME NEW m \in Rest, m.t = "discard_free", m.i \in 1..Len(discardp),
                 discardp[m.i].type = "p", discardp[m.i].h = h
          PROVE  srv.port[h].st = "held"
      <4>1. \/ srv.port[discardp[m.i].h].st = "held"
            \/ ~Pending(CloseIt(discardp[m.i].h))
        BY <1>1, <3>1, LiveParts DEF DiscInv
      <4>2. Pending(CloseIt(h)) BY <1>9, <1>18
      <4> QED BY <3>1, <4>1, <4>2
    <3> QED BY <1>19, <2>4, <3>1
  <2>6. k.h # h => srv'.port[k.h] = srv.port[k.h] BY <1>3, <2>2
  <2>7. k.h = h => srv'.port[k.h].st = "none" BY <1>3
  <2> QED BY <2>4, <2>5, <2>6, <2>7
<1> QED BY <1>1, <1>5, <1>20, <1>21, <1>22, <1>23, <1>24, <1>25, <1>26, SteadyStep
(* The internal savepoint of a query *)
\* A step that does not depend on what waits for the query.
LEMMA SteadyWire ==
  ASSUME IInv, conn.alive, NEW e, Steady(e), WireInv', "failed" \notin e.f,
         \A h \in Handles : srv'.port[h].st = srv.port[h].st,
         \A h \in Handles : srv'.port[h].hold <=> srv.port[h].hold,
         \A c : c.op = "close" => (Pending(c)' <=> Pending(c)),
         ForStmt /\ In("opened") => e.q # << >> /\ \A h \in Handles : ~One(e.q, Fetch(h)),
         SvpInv' /\ LevelInv'
  PROVE  IInv'
  BY SteadyPorts, OpeningSame, SteadyStep
QueryWire1(c) ==
  /\ "discard_svp" \in H.f /\ "discard_release" \notin H.f
  /\ Head(H.q) = SvpCmd("savepoint", "query")
  /\ Two(Tail(H.q), c, SvpCmd("release", "query")) /\ Quick(c) /\ Maybe(c)
QueryOn == Top("wire") /\ H.q # << >> /\ conn.op = "none" /\ InUse
           /\ {"query_rollback", "ignore_abort"} \subseteq H.f
LEMMA QueryFacts ==
  ASSUME IInv, conn.alive, QueryOn
  PROVE  /\ Mirrors /\ ~conn.err /\ conn.inTrans /\ ~Unsettled
         /\ OnQuery <=> "discard_release" \in H.f
<1>1. ~Unsettled
  <2>1. Top("wire") /\ H.q # << >> BY DEF QueryOn
  <2>2. ~Top("query_rollback") /\ ~Top("update") BY <2>1 DEF Top
  <2> QED BY <2>1, <2>2 DEF Unsettled
<1>2. Mirrors BY <1>1, LiveParts DEF StatusInv
<1>3. ~Top("query_rollback") BY <1>1 DEF Unsettled
<1> QED BY <1>1, <1>2, <1>3 DEF Mirrors, Matches, InUse, QueryOn, OnQuery
LEMMA SvpReplyIs ==
  ASSUME NEW s \in Servers, s.st = "INTRANS", NEW n \in Svps, NEW r \in Replies(s, SvpCmd("savepoint", n))
  PROVE  /\ r.tag = "SAVEPOINT" /\ ~r.notice
         /\ r.srv \in Servers /\ r.srv.st = "INTRANS" /\ r.srv.port = s.port
         /\ Len(r.srv.svps) = Len(s.svps) + 1
         /\ r.srv.svps[Len(s.svps) + 1].name = n
         /\ \A j \in 1..Len(s.svps) : r.srv.svps[j] = s.svps[j]
<1>1. PICK c : c = SvpCmd("savepoint", n) OBVIOUS
<1>2. c \in Cmds /\ c.op = "savepoint" /\ c.svp = n /\ r \in Replies(s, c)
  BY <1>1, SvpCmdType DEF CmdNames, Kinds
<1> QED BY <1>2, SavepointReply DEF Says
LEMMA ReleaseReplyIs ==
  ASSUME NEW s \in Servers, s.st = "INTRANS", NEW n \in Svps, Indices(s, n) # {},
         NEW r \in Replies(s, SvpCmd("release", n))
  PROVE  r.tag = "RELEASE" /\ ~r.notice /\ r.srv = Released(s, Latest(s, n))
<1>1. PICK c : c = SvpCmd("release", n) OBVIOUS
<1>2. c \in Cmds /\ c.op = "release" /\ c.svp = n /\ r \in Replies(s, c)
  BY <1>1, SvpCmdType DEF CmdNames, Kinds
<1> QED BY <1>2, ReleaseReply DEF Says
\* What a savepoint with the name n, put above the others, does to those of the application.
LEMMA UserSame ==
  ASSUME NEW s \in Servers, NEW t \in Servers, Len(t.svps) = Len(s.svps) + 1,
         t.svps[Len(s.svps) + 1].name # "user",
         \A j \in 1..Len(s.svps) : t.svps[j] = s.svps[j]
  PROVE  Indices(t, "user") = Indices(s, "user")
<1>1. Len(s.svps) \in Nat BY ServerFields
<1> QED BY <1>1 DEF Indices
LEMMA QuerySaved ==
  ASSUME IInv, QueryOn, NEW c \in Cmds, QueryWire1(c), NEW r, NEW e, Went(r, e)
  PROVE  IInv'
<1>1. /\ WireOn(e) /\ e.q = Tail(H.q) /\ e.f = TagFlags(H.f, r.tag) /\ conn.alive
      /\ Tagged(conn, H.f, r.tag, r.notice) /\ srv' = r.srv /\ curs' = TagCursors(r.tag)
      /\ r \in Replies(srv, Head(H.q)) /\ srv \in Servers
  BY WentIs, TypesOf
<1>2. /\ Mirrors /\ ~conn.err /\ conn.inTrans /\ ~Unsettled
      /\ OnQuery <=> "discard_release" \in H.f
  BY <1>1, QueryFacts
<1>3. /\ srv.st = "INTRANS" /\ "discard_svp" \in H.f /\ "discard_release" \notin H.f
      /\ Head(H.q) = SvpCmd("savepoint", "query") /\ conn.op = "none"
      /\ Two(Tail(H.q), c, SvpCmd("release", "query")) /\ Quick(c) /\ Maybe(c)
      /\ {"query_rollback", "ignore_abort"} \subseteq H.f
  BY DEF QueryOn, QueryWire1, InUse
<1>4. /\ r.tag = "SAVEPOINT" /\ ~r.notice
      /\ srv' \in Servers /\ srv'.st = "INTRANS" /\ srv'.port = srv.port
      /\ Len(srv'.svps) = Len(srv.svps) + 1
      /\ srv'.svps[Len(srv.svps) + 1].name = "query"
      /\ \A j \in 1..Len(srv.svps) : srv'.svps[j] = srv.svps[j]
  BY <1>1, <1>3, SvpReplyIs DEF Svps
<1>5. /\ todo # << >> /\ H.t = "wire" /\ Sound(todo) /\ StackInv /\ All(todo) = {H} \cup Rest
      /\ H' = e /\ Rest' = Rest /\ All(todo') = {e} \cup Rest /\ H \in Tasks
      /\ \A t : Top(t) <=> t = "wire"
      /\ \A t : Top(t)' <=> t = "wire"
      /\ "failed" \notin H.f
  BY <1>1, WireFacts
<1>6. /\ H.f \in SUBSET Flags /\ "discard_release" \in e.f /\ "discard_svp" \notin e.f
      /\ "failed" \notin e.f /\ {"query_rollback", "ignore_abort"} \subseteq e.f
  BY <1>1, <1>3, <1>4, <1>5, TaskFields, TagFlagsIs
<1>7. curs' = curs /\ discardp' = discardp BY <1>1, <1>4 DEF TagCursors, WireOn
<1>8. /\ conn'.inTrans <=> conn.inTrans
      /\ conn'.manual <=> conn.manual
      /\ conn'.err <=> conn.err
      /\ conn'.ignored <=> conn.ignored
      /\ conn'.svp <=> conn.svp
      /\ conn'.point <=> conn.point
      /\ conn'.op = "none"
  BY <1>1, <1>3, <1>4 DEF Tagged
<1>9. Steady(e)
  <2>1. /\ SvpCmd("savepoint", "query").op = "savepoint" /\ Cmd("begin").op = "begin"
        /\ Cmd("commit").op = "commit" /\ Cmd("rollback").op = "rollback"
    BY CmdType, SvpCmdType DEF CmdNames, Kinds, Svps
  <2>2. ~IsEnd(H.q) /\ ~One(H.q, Cmd("begin")) BY <1>3, <2>1 DEF IsEnd, One
  <2> QED BY <1>1, <1>2, <1>3, <1>4, <1>7, <1>8, <2>2 DEF Steady
<1>10. WireInv'
  <2>1. Quick(c)' /\ Maybe(c)' BY <1>3, <1>4, <1>5, <1>7, QuickKept
  <2>2. e.q # << >> /\ Two(e.q, c, SvpCmd("release", "query")) BY <1>1, <1>3 DEF Two
  <2>3. QueryWire' BY <1>4, <1>5, <1>6, <2>1, <2>2 DEF QueryWire, InUse
  <2> QED BY <1>5, <1>6, <1>8, <2>2, <2>3 DEF WireInv
<1>11. Base = Len(srv.svps) /\ Base' = Len(srv.svps) /\ Len(srv.svps) \in Nat /\ OnQuery'
  <2>1. OnQuery' BY <1>5, <1>6 DEF OnQuery
  <2> QED BY <1>1, <1>2, <1>3, <1>4, <2>1, ServerFields DEF Base
<1>12. SvpInv'
  <2>1. conn.svp => Base > 0 /\ srv.svps[Base].name = "exec" BY <1>1, <1>3, LiveParts DEF SvpInv
  <2>2. conn.point => Has("stmt_end") \/ Has("stmt_clean") BY <1>1, LiveParts DEF SvpInv
  <2>3. conn.svp => srv'.svps[Base'].name = "exec" /\ Base' > 0 BY <1>4, <1>11, <2>1
  <2>4. conn'.point => Has("stmt_end")' \/ Has("stmt_clean")' BY <1>1, <1>8, <2>2, WireSame
  <2>5. srv'.svps[Base' + 1].name = "query" /\ Base' >= 0 BY <1>4, <1>11
  <2> QED BY <1>4, <1>5, <1>8, <2>3, <2>4, <2>5 DEF SvpInv
<1>13. LevelInv'
  <2>1. Indices(srv', "user") = Indices(srv, "user") BY <1>1, <1>4, UserSame
  <2> QED BY <1>1, <1>3, <1>4, <1>5, <1>7, <1>8, <1>11, <2>1, LiveParts DEF LevelInv
<1>14. \A d : d.op = "close" => (Pending(d)' <=> Pending(d))
  <2>1. SvpCmd("savepoint", "query").op = "savepoint" /\ SvpCmd("release", "query").op = "release"
    BY SvpCmdType DEF CmdNames, Kinds, Svps
  <2> SUFFICES ASSUME NEW d, d.op = "close"
               PROVE  Pending(d)' <=> Pending(d)
    OBVIOUS
  <2>2. /\ Pending(d) <=> Head(H.q) = d \/ (Tail(H.q) # << >> /\ Head(Tail(H.q)) = d)
        /\ Pending(d)' <=> /\ e.q # << >>
                           /\ Head(e.q) = d \/ (Tail(e.q) # << >> /\ Head(Tail(e.q)) = d)
    BY <1>1, PendingWire
  <2> QED BY <1>1, <1>3, <2>1, <2>2 DEF Two, One
<1>15. ~ForStmt BY <1>3, QuickNotStmt
<1> QED BY <1>1, <1>4, <1>6, <1>9, <1>10, <1>12, <1>13, <1>14, <1>15, SteadyWire
\* The newest savepoint is the latest of its name.
LEMMA LatestIsLast ==
  ASSUME NEW s \in Servers, NEW n, Len(s.svps) > 0, s.svps[Len(s.svps)].name = n
  PROVE  Indices(s, n) # {} /\ Latest(s, n) = Len(s.svps)
<1>1. Len(s.svps) \in Nat BY ServerFields
<1>2. Len(s.svps) \in Indices(s, n) /\ \A j \in Indices(s, n) : j <= Len(s.svps) BY <1>1 DEF Indices
<1> QED BY <1>2, LatestTop
\* A release of it.
LastReleased ==
  /\ srv.st # "IDLE" /\ Len(srv.svps) > 0 /\ srv' = Released(srv, Len(srv.svps))
LEMMA ReleasedFacts ==
  ASSUME srv \in Servers, LastReleased
  PROVE  /\ srv'.st = srv.st /\ Len(srv'.svps) = Len(srv.svps) - 1 /\ Len(srv.svps) \in Nat
         /\ \A j \in 1..Len(srv'.svps) : srv'.svps[j] = srv.svps[j]
         /\ Indices(srv', "user") = {i \in Indices(srv, "user") : i <= Len(srv'.svps)}
         /\ \A h \in Handles : /\ srv'.port[h].st = srv.port[h].st
                               /\ srv'.port[h].hold <=> srv.port[h].hold
                               /\ srv'.port[h].lvl <= srv.port[h].lvl
                               /\ srv'.port[h].lvl <= Len(srv'.svps)
                               /\ srv.port[h].lvl \in Nat /\ srv'.port[h].lvl \in Nat
<1>1. Len(srv.svps) \in Nat /\ Len(srv.svps) \in 1..Len(srv.svps) BY ServerFields DEF LastReleased
<1>2. PICK n \in 1..Len(srv.svps) : n = Len(srv.svps) BY <1>1
<1>3. /\ srv' \in Servers /\ srv'.st = srv.st
      /\ Len(srv'.svps) = n - 1 /\ \A j \in 1..(n - 1) : srv'.svps[j] = srv.svps[j]
      /\ \A h \in Handles :
           /\ srv'.port[h].st = srv.port[h].st
           /\ srv'.port[h].hold <=> srv.port[h].hold
           /\ srv'.port[h].lvl = IF srv.port[h].lvl >= n THEN n - 1 ELSE srv.port[h].lvl
  <2>1. srv' = Released(srv, n) /\ n \in 1..Len(srv.svps) /\ srv \in Servers BY <1>2 DEF LastReleased
  <2> QED BY <2>1, ReleasedTo
<1>4. \A h \in Handles : srv.port[h].lvl \in Nat /\ srv'.port[h].lvl \in Nat
  BY <1>3, ServerFields, PortFields
<1>5. Indices(srv', "user") = {i \in Indices(srv, "user") : i <= Len(srv'.svps)}
  BY <1>1, <1>2, <1>3 DEF Indices
<1>6. ASSUME NEW h \in Handles
      PROVE  srv'.port[h].lvl <= srv.port[h].lvl /\ srv'.port[h].lvl <= Len(srv'.svps)
  <2>1. n \in Nat /\ srv.port[h].lvl \in Nat BY <1>1, <1>2, <1>4
  <2>2. srv'.port[h].lvl = IF srv.port[h].lvl >= n THEN n - 1 ELSE srv.port[h].lvl BY <1>3
  <2>3. CASE srv.port[h].lvl >= n BY <1>3, <2>1, <2>2, <2>3
  <2>4. CASE srv.port[h].lvl < n BY <1>3, <2>1, <2>2, <2>4
  <2> QED BY <2>1, <2>3, <2>4
<1> QED BY <1>1, <1>2, <1>3, <1>4, <1>5, <1>6
QueryLast == /\ "discard_release" \in H.f /\ "discard_svp" \notin H.f
             /\ One(H.q, SvpCmd("release", "query")) /\ ~ForStmt
LEMMA QueryReply ==
  ASSUME IInv, conn.alive, QueryOn, QueryLast, NEW r \in Replies(srv, Head(H.q))
  PROVE  /\ r.tag = "RELEASE" /\ ~r.notice /\ r.srv = Released(srv, Len(srv.svps))
         /\ Len(srv.svps) > 0 /\ Base = Len(srv.svps) - 1 /\ OnQuery /\ srv \in Servers
<1>1. OnQuery /\ srv \in Servers /\ srv.st = "INTRANS"
  BY QueryFacts, TypesOf DEF QueryLast, QueryOn, InUse
<1>2. Base = Len(srv.svps) - 1 /\ Len(srv.svps) \in Nat BY <1>1, ServerFields DEF Base
<1>3. Base >= 0 /\ srv.svps[Base + 1].name = "query" BY <1>1, LiveParts DEF SvpInv
<1>4. Len(srv.svps) > 0 /\ srv.svps[Len(srv.svps)].name = "query" BY <1>2, <1>3
<1>5. Indices(srv, "query") # {} /\ Latest(srv, "query") = Len(srv.svps) BY <1>1, <1>4, LatestIsLast
<1>6. r \in Replies(srv, SvpCmd("release", "query")) BY DEF QueryLast, One
<1> QED BY <1>1, <1>2, <1>4, <1>5, <1>6, ReleaseReplyIs DEF Svps
LEMMA QueryReleased ==
  ASSUME IInv, QueryOn, QueryLast, NEW r, NEW e, Went(r, e)
  PROVE  IInv'
<1>1. /\ WireOn(e) /\ e.q = Tail(H.q) /\ e.f = TagFlags(H.f, r.tag) /\ conn.alive
      /\ Tagged(conn, H.f, r.tag, r.notice) /\ srv' = r.srv /\ curs' = TagCursors(r.tag)
      /\ r \in Replies(srv, Head(H.q))
  BY WentIs
<1>2. /\ Mirrors /\ ~conn.err /\ conn.inTrans /\ ~Unsettled BY <1>1, QueryFacts
<1>3. /\ srv.st = "INTRANS" /\ "discard_svp" \notin H.f /\ "discard_release" \in H.f
      /\ One(H.q, SvpCmd("release", "query")) /\ conn.op = "none" /\ ~ForStmt
      /\ {"query_rollback", "ignore_abort"} \subseteq H.f
  BY DEF QueryOn, QueryLast, InUse
<1>4. /\ r.tag = "RELEASE" /\ ~r.notice /\ srv' = Released(srv, Len(srv.svps))
      /\ Len(srv.svps) > 0 /\ Base = Len(srv.svps) - 1 /\ srv \in Servers
  BY <1>1, QueryReply
<1>5. /\ todo # << >> /\ H.t = "wire" /\ Sound(todo) /\ StackInv /\ All(todo) = {H} \cup Rest
      /\ H' = e /\ Rest' = Rest /\ All(todo') = {e} \cup Rest /\ H \in Tasks
      /\ \A t : Top(t) <=> t = "wire"
      /\ \A t : Top(t)' <=> t = "wire"
      /\ "failed" \notin H.f
  BY <1>1, WireFacts
<1>6. /\ H.f \in SUBSET Flags /\ "discard_release" \notin e.f /\ "discard_svp" \notin e.f
      /\ "failed" \notin e.f
  BY <1>1, <1>3, <1>4, <1>5, TaskFields, TagFlagsIs
<1>7. curs' = curs /\ discardp' = discardp BY <1>1, <1>4 DEF TagCursors, WireOn
<1>8. /\ conn'.inTrans <=> conn.inTrans
      /\ conn'.manual <=> conn.manual
      /\ conn'.err <=> conn.err
      /\ conn'.ignored <=> conn.ignored
      /\ conn'.svp <=> conn.svp
      /\ conn'.point <=> conn.point
      /\ conn'.op = "none"
  BY <1>1, <1>3, <1>4 DEF Tagged
<1>9. LastReleased BY <1>3, <1>4 DEF LastReleased
<1>10. /\ srv'.st = srv.st /\ Len(srv'.svps) = Len(srv.svps) - 1 /\ Len(srv.svps) \in Nat
       /\ \A j \in 1..Len(srv'.svps) : srv'.svps[j] = srv.svps[j]
       /\ Indices(srv', "user") = {i \in Indices(srv, "user") : i <= Len(srv'.svps)}
       /\ \A h \in Handles : /\ srv'.port[h].st = srv.port[h].st
                             /\ srv'.port[h].hold <=> srv.port[h].hold
                             /\ srv'.port[h].lvl <= srv.port[h].lvl
                             /\ srv'.port[h].lvl <= Len(srv'.svps)
                             /\ srv.port[h].lvl \in Nat /\ srv'.port[h].lvl \in Nat
  BY <1>4, <1>9, ReleasedFacts
<1>11. SvpCmd("release", "query").op = "release" /\ Cmd("begin").op = "begin"
       /\ Cmd("commit").op = "commit" /\ Cmd("rollback").op = "rollback"
  BY CmdType, SvpCmdType DEF CmdNames, Kinds, Svps
<1>12. Steady(e)
  <2>1. ~IsEnd(H.q) /\ ~One(H.q, Cmd("begin")) BY <1>3, <1>11 DEF IsEnd, One
  <2> QED BY <1>1, <1>2, <1>3, <1>7, <1>8, <1>10, <2>1 DEF Steady
<1>13. e.q = << >> BY <1>1, <1>3 DEF One
<1>14. WireInv'
  <2>1. Succeeded' BY <1>2, <1>5, <1>6, <1>8 DEF Succeeded
  <2> QED BY <1>5, <1>6, <1>8, <1>13, <2>1 DEF WireInv
<1>15. Base' = Base /\ Base' = Len(srv'.svps) /\ ~OnQuery'
  <2>1. ~OnQuery' BY <1>5, <1>6 DEF OnQuery
  <2> QED BY <1>4, <1>10, <2>1 DEF Base
<1>16. SvpInv'
  <2>1. conn.svp => Base > 0 /\ srv.svps[Base].name = "exec" BY <1>1, <1>3, LiveParts DEF SvpInv
  <2>2. conn.point => Has("stmt_end") \/ Has("stmt_clean") BY <1>1, LiveParts DEF SvpInv
  <2>3. conn.svp => srv'.svps[Base'].name = "exec" /\ Base' > 0 BY <1>10, <1>15, <2>1
  <2>4. conn'.point => Has("stmt_end")' \/ Has("stmt_clean")' BY <1>1, <1>8, <2>2, WireSame
  <2> QED BY <1>5, <1>8, <1>15, <2>3, <2>4 DEF SvpInv
<1>17. LevelInv'
  <2> SUFFICES ASSUME NEW h \in Handles, srv'.port[h].st = "trans"
               PROVE  /\ srv'.st # "IDLE" /\ srv'.port[h].lvl <= Base'
                      /\ srv'.port[h].hold => \A i \in Indices(srv', "user") : srv'.port[h].lvl < i
                      /\ conn'.point /\ curs[h].open /\ ~curs[h].perm => srv'.port[h].lvl < Base'
    BY <1>7 DEF LevelInv
  <2>1. /\ srv.port[h].lvl <= Base
        /\ srv.port[h].hold => \A i \in Indices(srv, "user") : srv.port[h].lvl < i
        /\ conn.point /\ curs[h].open /\ ~curs[h].perm => srv.port[h].lvl < Base
    BY <1>1, <1>5, <1>10, LiveParts DEF LevelInv
  <2>2. \A i \in Indices(srv', "user") : i \in Indices(srv, "user") /\ i \in Nat BY <1>10 DEF Indices
  <2>3. Base \in Nat BY <1>10, <1>15
  <2>4. PICK m \in Nat, n \in Nat : m = srv.port[h].lvl /\ n = srv'.port[h].lvl /\ n <= m BY <1>10
  <2>5. n <= Base /\ (m < Base => n < Base) BY <1>10, <1>15, <2>3, <2>4
  <2>6. \A i \in Nat : m < i => n < i BY <2>4
  <2>7. n < Base \/ ~(conn.point /\ curs[h].open /\ ~curs[h].perm) BY <2>1, <2>4, <2>5
  <2>8. srv.port[h].hold => \A i \in Indices(srv', "user") : n < i BY <2>1, <2>2, <2>4, <2>6
  <2> QED BY <1>3, <1>8, <1>10, <1>15, <2>4, <2>5, <2>7, <2>8
<1>18. \A d : d.op = "close" => (Pending(d)' <=> Pending(d))
  <2> SUFFICES ASSUME NEW d, d.op = "close"
               PROVE  Pending(d)' <=> Pending(d)
    OBVIOUS
  <2>1. /\ Pending(d) <=> Head(H.q) = d \/ (Tail(H.q) # << >> /\ Head(Tail(H.q)) = d)
        /\ Pending(d)' <=> /\ e.q # << >>
                           /\ Head(e.q) = d \/ (Tail(e.q) # << >> /\ Head(Tail(e.q)) = d)
    BY <1>1, PendingWire
  <2> QED BY <1>3, <1>11, <1>13, <2>1 DEF One
<1> QED BY <1>1, <1>3, <1>6, <1>10, <1>12, <1>14, <1>16, <1>17, <1>18, SteadyWire
\* It succeeds.
LEMMA QuickWent ==
  ASSUME IInv, NEW c, QuickHead(c), NEW r, NEW e, Went(r, e)
  PROVE  /\ WireOn(e) /\ conn.alive /\ e.q = Tail(H.q) /\ "failed" \notin e.f /\ conn'.op = conn.op
         /\ \A x \in Flags : x \in e.f <=> x \in H.f
         /\ srv'.st = srv.st
         /\ conn'.err <=> conn.err
         /\ H' = e /\ Rest' = Rest /\ \A t : Top(t)' <=> t = "wire"
<1>1. /\ WireOn(e) /\ e.q = Tail(H.q) /\ conn.alive /\ srv' = r.srv
      /\ r \in Replies(srv, Head(H.q)) /\ r.tag # "ERROR"
  BY WentIs
<1>2. r \in Replies(srv, c) /\ Quick(c) /\ Head(H.q) = c BY <1>1 DEF QuickHead
<1>3. Silent(r) /\ r.srv.st = srv.st BY <1>1, <1>2, QuickReply
<1>4. r.tag = "OTHER" /\ ~r.notice BY <1>3 DEF Silent, Says
<1>5. Head(H.q).op \notin {"begin", "commit", "rollback"} BY <1>2, QuickIs
<1>6. /\ Steady(e) /\ e.q = Tail(H.q) /\ "failed" \notin e.f /\ conn'.op = conn.op
      /\ \A x \in Flags : x \in e.f <=> x \in H.f
  BY <1>1, <1>3, <1>4, <1>5, OtherSteady
<1>7. conn'.err <=> conn.err BY <1>6 DEF Steady
<1>8. H' = e /\ Rest' = Rest /\ \A t : Top(t)' <=> t = "wire" BY <1>1, WireFacts
<1> QED BY <1>1, <1>3, <1>6, <1>7, <1>8
\* After it, and before the release of the internal savepoint.
QueryNext(c) ==
  /\ "discard_release" \in H.f /\ "discard_svp" \notin H.f
  /\ Two(H.q, c, SvpCmd("release", "query")) /\ Quick(c) /\ Maybe(c)
LEMMA QueryHead ==
  ASSUME QueryOn, NEW c, QueryNext(c)
  PROVE  /\ QuickHead(c) /\ QuickLast /\ ~ForStmt /\ H.q # << >> /\ Head(H.q) = c
         /\ One(Tail(H.q), SvpCmd("release", "query")) /\ Top("wire")
         /\ {"query_rollback", "ignore_abort", "discard_release"} \subseteq H.f
         /\ "discard_svp" \notin H.f /\ srv.st = "INTRANS" /\ conn.op = "none"
<1>1. /\ Top("wire") /\ H.q # << >> /\ srv.st = "INTRANS" /\ conn.op = "none"
      /\ {"query_rollback", "ignore_abort"} \subseteq H.f
  BY DEF QueryOn, InUse
<1>2. /\ Quick(c) /\ Head(H.q) = c /\ One(Tail(H.q), SvpCmd("release", "query"))
      /\ "discard_release" \in H.f /\ "discard_svp" \notin H.f
  BY DEF QueryNext, Two
<1>3. ~ForStmt BY <1>2, QuickNotStmt
<1> QED BY <1>1, <1>2, <1>3 DEF QuickHead, QuickLast
LEMMA QueryWent ==
  ASSUME IInv, QueryOn, NEW c, QueryNext(c), NEW r, NEW e, Went(r, e)
  PROVE  IInv'
<1>1. /\ QuickHead(c) /\ QuickLast /\ ~ForStmt /\ H.q # << >> /\ Head(H.q) = c
      /\ One(Tail(H.q), SvpCmd("release", "query")) /\ Top("wire")
      /\ {"query_rollback", "ignore_abort", "discard_release"} \subseteq H.f
      /\ "discard_svp" \notin H.f /\ srv.st = "INTRANS" /\ conn.op = "none"
  BY QueryHead
<1>2. /\ WireOn(e) /\ conn.alive /\ e.q = Tail(H.q) /\ "failed" \notin e.f /\ conn'.op = conn.op
      /\ \A x \in Flags : x \in e.f <=> x \in H.f
      /\ srv'.st = srv.st
      /\ H' = e /\ Rest' = Rest /\ \A t : Top(t)' <=> t = "wire"
  BY <1>1, QuickWent
<1>3. ~conn.err BY <1>2, QueryFacts
<1>4. ~ForStmt' BY <1>1, <1>2 DEF ForStmt, Only, In
<1>5. WireInv'
  <2>1. /\ {"query_rollback", "ignore_abort", "discard_release"} \subseteq e.f
        /\ "discard_svp" \notin e.f
    BY <1>1, <1>2 DEF Flags
  <2>2. One(e.q, SvpCmd("release", "query")) /\ e.q # << >> BY <1>1, <1>2 DEF One
  <2>3. QueryWire' BY <1>1, <1>2, <1>4, <2>1, <2>2 DEF QueryWire, InUse
  <2> QED BY <1>1, <1>2, <2>2, <2>3 DEF WireInv
<1>6. CASE c.op = "close" BY <1>1, <1>3, <1>5, <1>6, ClosedNow
<1>7. CASE c.op # "close" BY <1>1, <1>5, <1>7, QuickKeeps
<1> QED BY <1>6, <1>7
\* A close waits alone, or for the end of its commit.
LEMMA OneClosed ==
  ASSUME IInv, todo # << >>, Only(Ends), NEW k \in Rest, k.t = "closed", NEW m \in Rest
  PROVE  m = k \/ m.t \in {"close_eof", "commit_send", "transact_end", "set_auto"}
<1>1. PICK s : s = Tail(todo) OBVIOUS
<1>2. s \in Seq(Tasks) /\ Ordered(s) /\ k \in All(s) /\ m \in All(s)
  <2>1. Sound(todo) BY TypesOf
  <2>2. Sound(s) BY <1>1, <2>1, StackFacts
  <2> QED BY <1>1, <2>2 DEF Sound, Rest
<1>3. PICK i \in 1..Len(s) : s[i] = k BY <1>2 DEF All
<1>4. PICK j \in 1..Len(s) : s[j] = m BY <1>2 DEF All
<1>5. Len(s) \in Nat BY <1>2
<1>6. i = j => m = k BY <1>3, <1>4
<1>7. i < j => m.t \in Lower(k.t) BY <1>2, <1>3, <1>4, <1>5 DEF Ordered
<1>8. j < i => k.t \in Lower(m.t) BY <1>2, <1>3, <1>4, <1>5 DEF Ordered
<1>9. m.t \in Ends BY DEF Only
<1>10. m.t \in Lower("closed") => m.t \in {"close_eof", "commit_send", "transact_end", "set_auto"}
  BY DEF Lower, Talk, Clears, Discs
<1>11. "closed" \notin Lower(m.t) BY <1>9 DEF Lower, Talk, Clears, Discs, Ends
<1> QED BY <1>5, <1>6, <1>7, <1>8, <1>10, <1>11
\* It fails: the cursor was lost with the part of the transaction that was rolled back.
LEMMA QueryStopped ==
  ASSUME IInv, QueryOn, NEW c, QueryNext(c), NEW r, NEW e, Stopped(r, e)
  PROVE  IInv'
<1>1. /\ QuickHead(c) /\ QuickLast /\ ~ForStmt /\ H.q # << >> /\ Head(H.q) = c
      /\ One(Tail(H.q), SvpCmd("release", "query")) /\ Top("wire")
      /\ {"query_rollback", "ignore_abort", "discard_release"} \subseteq H.f
      /\ "discard_svp" \notin H.f /\ srv.st = "INTRANS" /\ conn.op = "none"
  BY QueryHead
<1>2. conn.alive /\ r \in Replies(srv, c) /\ r.tag = "ERROR" BY <1>1, StoppedIs
<1>3. ~Sure(c) /\ FailedTrans(srv, r.srv) BY <1>1, <1>2, QuickReply DEF Silent, Says
<1>4. Only(Ends) /\ \E k \in Rest : k.t = "closed" /\ k.h = c.h /\ curs[k.h].doubt /\ ~curs[k.h].hold
  BY <1>3 DEF QueryNext, Maybe
<1>5. PICK k \in Rest : k.t = "closed" /\ k.h = c.h /\ curs[k.h].doubt /\ ~curs[k.h].hold BY <1>4
<1>6. todo # << >> /\ Sound(todo) /\ StackInv /\ Rest \subseteq All(todo) /\ H.t = "wire"
      /\ \A t : Top(t) <=> t = "wire"
  <2>1. todo # << >> /\ Sound(todo) /\ StackInv /\ H.t = "wire" BY <1>1, TypesOf DEF Top, H
  <2> QED BY <2>1, StackFacts DEF Top, H
<1>7. srv.port[k.h].st = "none" BY <1>3, <1>5 DEF Sure
<1>8. curs[k.h].open BY <1>2, <1>5, <1>6, LiveParts DEF CloseInv
<1>9. \A g \in Handles : ~(curs[g].open /\ curs[g].hold)
  <2>1. k \in All(todo) /\ k.t \in {"close", "closed"} BY <1>5, <1>6
  <2> QED BY <1>2, <1>5, <1>8, <2>1, LiveParts DEF IgnInv
<1>10. ~Has("commit_send") BY <1>2, <1>5, <1>6, LiveParts DEF CloseInv
<1>11. ~Has("close_eof") BY <1>6, <1>10 DEF StackInv, Under, Has
<1>12. ~Has("transact_end")
  <2>1. ~IsEnd(H.q) BY <1>1 DEF IsEnd, One
  <2>2. ~Ending BY <1>6, <1>10, <2>1 DEF Ending
  <2> QED BY <1>1, <1>2, <2>2, LiveParts DEF RetInv
<1>13. \A m \in Rest : m = k \/ m.t = "set_auto"
  <2> SUFFICES ASSUME NEW m \in Rest, m # k PROVE m.t = "set_auto" OBVIOUS
  <2>1. m.t \in {"close_eof", "commit_send", "transact_end", "set_auto"} BY <1>4, <1>5, <1>6, OneClosed
  <2> QED BY <1>6, <1>10, <1>11, <1>12, <2>1 DEF Has
<1>14. ~In("opened") BY <1>5, <1>13 DEF In
<1> QED BY <1>1, <1>2, <1>3, <1>5, <1>7, <1>9, <1>13, <1>14, StoppedStep
\* A command that is not protected and cannot fail.
SoloQuick(c) ==
  /\ Top("wire") /\ conn.op = "none" /\ NoQuery /\ One(H.q, c) /\ Quick(c) /\ Sure(c) /\ ~conn.err
LEMMA SoloHead ==
  ASSUME IInv, conn.alive, NEW c, SoloQuick(c)
  PROVE  /\ QuickHead(c) /\ QuickLast /\ H.q # << >> /\ Tail(H.q) = << >>
         /\ H.f \cap {"query_rollback", "discard_svp", "discard_release"} = {}
<1>1. /\ Top("wire") /\ H.q # << >> /\ Head(H.q) = c /\ Tail(H.q) = << >> /\ Quick(c) /\ ~conn.err
      /\ H.f \cap {"query_rollback", "discard_svp", "discard_release"} = {}
  BY DEF SoloQuick, One, NoQuery
<1>2. ~Unsettled BY <1>1 DEF Unsettled, Top
<1>3. srv.st # "INERROR" BY <1>1, <1>2, LiveParts DEF StatusInv, Mirrors
<1> QED BY <1>1, <1>3 DEF QuickHead, QuickLast
LEMMA SoloStopped ==
  ASSUME IInv, conn.alive, NEW c, SoloQuick(c), NEW r, NEW e
  PROVE  ~Stopped(r, e)
<1> SUFFICES ASSUME Stopped(r, e)
             PROVE  FALSE
  OBVIOUS
<1>1. QuickHead(c) /\ Sure(c) BY SoloHead DEF SoloQuick
<1>2. r \in Replies(srv, c) /\ r.tag = "ERROR" BY <1>1, StoppedIs DEF QuickHead
<1> QED BY <1>1, <1>2, QuickReply DEF Silent, Says
LEMMA SoloWent ==
  ASSUME IInv, NEW c, SoloQuick(c), NEW r, NEW e, Went(r, e)
  PROVE  IInv'
<1>1. conn.alive BY WentIs
<1>2. /\ QuickHead(c) /\ QuickLast /\ H.q # << >> /\ Tail(H.q) = << >>
      /\ H.f \cap {"query_rollback", "discard_svp", "discard_release"} = {}
  BY <1>1, SoloHead
<1>3. conn.op = "none" /\ ~conn.err BY DEF SoloQuick
<1>4. /\ e.q = Tail(H.q) /\ "failed" \notin e.f /\ conn'.op = conn.op
      /\ \A x \in Flags : x \in e.f <=> x \in H.f
      /\ H' = e /\ \A t : Top(t)' <=> t = "wire"
  BY <1>2, QuickWent
<1>5. WireInv'
  <2>1. e.f \cap {"query_rollback", "discard_svp", "discard_release"} = {} BY <1>2, <1>4 DEF Flags
  <2>2. Succeeded' BY <1>4, <2>1 DEF Succeeded
  <2> QED BY <1>2, <1>3, <1>4, <2>2 DEF WireInv
<1>6. CASE c.op = "close" BY <1>2, <1>3, <1>5, <1>6, ClosedNow
<1>7. CASE c.op # "close" BY <1>2, <1>5, <1>7, QuickKeeps
<1> QED BY <1>6, <1>7
(* The internal savepoint of a statement *)
SvpOn == Top("wire") /\ H.q # << >> /\ SvpWire
LEMMA SvpFacts ==
  ASSUME IInv, conn.alive, SvpOn
  PROVE  /\ H.f = {} /\ srv.st = "INTRANS" /\ conn.op = "savepoint" /\ ~conn.point
         /\ Mirrors /\ ~conn.err /\ conn.inTrans /\ ~OnQuery /\ srv \in Servers
         /\ Base = Len(srv.svps) /\ Len(srv.svps) \in Nat
<1>1. /\ Top("wire") /\ H.q # << >> /\ H.f = {} /\ srv.st = "INTRANS"
      /\ conn.op = "savepoint" /\ ~conn.point
  BY DEF SvpOn, SvpWire, InUse
<1>2. ~Unsettled /\ ~OnQuery
  <2>1. ~Top("query_rollback") /\ ~Top("update") BY <1>1 DEF Top
  <2> QED BY <1>1, <2>1 DEF Unsettled, OnQuery
<1>3. Mirrors BY <1>2, LiveParts DEF StatusInv
<1>4. srv \in Servers BY TypesOf
<1> QED BY <1>1, <1>2, <1>3, <1>4, ServerFields DEF Mirrors, Matches, Base
\* What follows the savepoint.
LEMMA AfterIs ==
  ASSUME NEW q, After(q)
  PROVE  /\ In("stmt_end")
         /\ q = << >> => ~ForStmt
         /\ q # << >> => ForStmt /\ Body(q) /\ Head(q).op \notin EndKinds
<1>1. In("svp_sent") => ~ForStmt BY DEF In, ForStmt, Only
<1> QED BY <1>1 DEF After, ForSvp, ForStmt
\* It does not fail.
LEMMA SvpReply ==
  ASSUME IInv, conn.alive, SvpOn, NEW r \in Replies(srv, Head(H.q))
  PROVE  /\ ~r.notice
         /\ conn.svp => r.tag = "RELEASE" /\ Len(srv.svps) > 0 /\ r.srv = Released(srv, Len(srv.svps))
         /\ ~conn.svp => /\ r.tag = "SAVEPOINT"
                         /\ r.srv \in Servers /\ r.srv.st = "INTRANS" /\ r.srv.port = srv.port
                         /\ Len(r.srv.svps) = Len(srv.svps) + 1
                         /\ r.srv.svps[Len(srv.svps) + 1].name = "exec"
                         /\ \A j \in 1..Len(srv.svps) : r.srv.svps[j] = srv.svps[j]
<1>1. /\ srv.st = "INTRANS" /\ srv \in Servers /\ ~OnQuery /\ Base = Len(srv.svps)
      /\ Len(srv.svps) \in Nat
  BY SvpFacts
<1>2. CASE conn.svp
  <2>1. Len(srv.svps) > 0 /\ srv.svps[Len(srv.svps)].name = "exec" BY <1>1, <1>2, LiveParts DEF SvpInv
  <2>2. Indices(srv, "exec") # {} /\ Latest(srv, "exec") = Len(srv.svps) BY <1>1, <2>1, LatestIsLast
  <2>3. r \in Replies(srv, SvpCmd("release", "exec")) BY <1>2 DEF SvpOn, SvpWire
  <2> QED BY <1>1, <1>2, <2>1, <2>2, <2>3, ReleaseReplyIs DEF Svps
<1>3. CASE ~conn.svp
  <2>1. r \in Replies(srv, SvpCmd("savepoint", "exec")) BY <1>3 DEF SvpOn, SvpWire, SvpQuery
  <2> QED BY <1>1, <1>3, <2>1, SvpReplyIs DEF Svps
<1> QED BY <1>2, <1>3
LEMMA SvpStopped ==
  ASSUME IInv, conn.alive, SvpOn, NEW r, NEW e
  PROVE  ~Stopped(r, e)
<1> SUFFICES ASSUME Stopped(r, e)
             PROVE  FALSE
  OBVIOUS
<1>1. r \in Replies(srv, Head(H.q)) /\ r.tag = "ERROR" BY StoppedIs
<1> QED BY <1>1, SvpReply
\* The savepoint of the last protected statement is released.
LEMMA SvpReleased ==
  ASSUME IInv, SvpOn, conn.svp, NEW r, NEW e, Went(r, e)
  PROVE  IInv'
<1>1. /\ WireOn(e) /\ e.q = Tail(H.q) /\ e.f = TagFlags(H.f, r.tag) /\ conn.alive
      /\ Tagged(conn, H.f, r.tag, r.notice) /\ srv' = r.srv /\ curs' = TagCursors(r.tag)
      /\ r \in Replies(srv, Head(H.q))
  BY WentIs
<1>2. /\ H.f = {} /\ srv.st = "INTRANS" /\ conn.op = "savepoint" /\ ~conn.point
      /\ Mirrors /\ ~conn.err /\ conn.inTrans /\ ~OnQuery /\ srv \in Servers
      /\ Base = Len(srv.svps) /\ Len(srv.svps) \in Nat
  BY <1>1, SvpFacts
<1>3. /\ Head(H.q) = SvpCmd("release", "exec") /\ SvpQuery(Tail(H.q)) BY DEF SvpOn, SvpWire
<1>4. /\ r.tag = "RELEASE" /\ ~r.notice /\ Len(srv.svps) > 0
      /\ srv' = Released(srv, Len(srv.svps))
  BY <1>1, SvpReply
<1>5. /\ todo # << >> /\ H.t = "wire" /\ Sound(todo) /\ StackInv /\ All(todo) = {H} \cup Rest
      /\ H' = e /\ Rest' = Rest /\ All(todo') = {e} \cup Rest /\ H \in Tasks /\ e.t = "wire"
      /\ \A t : Top(t) <=> t = "wire"
      /\ \A t : Top(t)' <=> t = "wire"
  <2>1. e.t = "wire" BY <1>1 DEF WireOn
  <2> QED BY <1>1, <2>1, WireFacts
<1>6. e.f = {} BY <1>1, <1>2 DEF TagFlags
<1>7. curs' = curs /\ discardp' = discardp /\ last' = last /\ ret' = ret
  BY <1>1, <1>4 DEF TagCursors, WireOn
<1>8. /\ conn'.inTrans <=> conn.inTrans
      /\ conn'.manual <=> conn.manual
      /\ conn'.err <=> conn.err
      /\ conn'.ignored <=> conn.ignored
      /\ ~conn'.svp
      /\ ~conn'.point
      /\ conn'.op = "savepoint"
  BY <1>1, <1>2, <1>4 DEF Tagged
<1>9. LastReleased BY <1>2, <1>4 DEF LastReleased
<1>10. /\ srv'.st = srv.st /\ Len(srv'.svps) = Len(srv.svps) - 1 /\ Len(srv.svps) \in Nat
       /\ \A j \in 1..Len(srv'.svps) : srv'.svps[j] = srv.svps[j]
       /\ Indices(srv', "user") = {i \in Indices(srv, "user") : i <= Len(srv'.svps)}
       /\ \A h \in Handles : /\ srv'.port[h].st = srv.port[h].st
                             /\ srv'.port[h].hold <=> srv.port[h].hold
                             /\ srv'.port[h].lvl <= srv.port[h].lvl
                             /\ srv'.port[h].lvl <= Len(srv'.svps)
                             /\ srv.port[h].lvl \in Nat /\ srv'.port[h].lvl \in Nat
  BY <1>2, <1>9, ReleasedFacts
<1>11. /\ SvpCmd("release", "exec").op = "release" /\ SvpCmd("savepoint", "exec").op = "savepoint"
       /\ Cmd("begin").op = "begin" /\ Cmd("commit").op = "commit" /\ Cmd("rollback").op = "rollback"
       /\ \A h \in Handles : Fetch(h).op = "fetch"
  BY CmdType, SvpCmdType, FetchType DEF CmdNames, Kinds, Svps
<1>12. Steady(e)
  <2>1. ~IsEnd(H.q) /\ ~One(H.q, Cmd("begin")) BY <1>3, <1>11 DEF IsEnd, One
  <2> QED BY <1>1, <1>2, <1>7, <1>8, <1>10, <2>1 DEF Steady
<1>13. e.q # << >> /\ Head(e.q) = SvpCmd("savepoint", "exec") /\ After(Tail(e.q))
  BY <1>1, <1>3 DEF SvpQuery
<1>14. After(Tail(e.q))'
  <2>1. PICK q : q = Tail(e.q) OBVIOUS
  <2>2. CASE q = << >>
    <3>1. ForSvp BY <1>13, <2>1, <2>2 DEF After
    <3>2. ForSvp' BY <1>5, <3>1 DEF ForSvp, Only, In
    <3> QED BY <2>1, <2>2, <3>2 DEF After
  <2>3. CASE q # << >>
    <3>1. ForStmt /\ Body(q) /\ Head(q).op \notin EndKinds BY <1>13, <2>1, <2>3 DEF After
    <3>2. ForStmt' BY <1>5, <3>1 DEF ForStmt, Only, In
    <3>3. Indices(srv, "user") = {} => Indices(srv', "user") = {} BY <1>10
    <3>4. Body(q)' BY <1>2, <1>5, <1>7, <1>8, <1>10, <3>1, <3>3, BodyKept
    <3> QED BY <2>1, <2>3, <3>1, <3>2, <3>4 DEF After
  <2> QED BY <2>2, <2>3
<1>15. WireInv'
  <2>1. SvpQuery(e.q)' BY <1>13, <1>14 DEF SvpQuery
  <2>2. SvpWire' BY <1>2, <1>5, <1>6, <1>8, <1>10, <2>1 DEF SvpWire, InUse
  <2> QED BY <1>5, <1>6, <1>8, <1>13, <2>2 DEF WireInv
<1>16. ~OnQuery' /\ Base' = Len(srv'.svps)
  <2>1. ~OnQuery' BY <1>5, <1>6 DEF OnQuery
  <2> QED BY <2>1 DEF Base
<1>17. SvpInv' /\ LevelInv'
  <2>1. SvpInv' BY <1>5, <1>8, <1>16 DEF SvpInv
  <2> SUFFICES ASSUME NEW h \in Handles, srv'.port[h].st = "trans"
               PROVE  /\ srv'.st # "IDLE" /\ srv'.port[h].lvl <= Base'
                      /\ srv'.port[h].hold => \A i \in Indices(srv', "user") : srv'.port[h].lvl < i
    BY <1>8, <2>1 DEF LevelInv
  <2>2. srv.port[h].hold => \A i \in Indices(srv, "user") : srv.port[h].lvl < i
    BY <1>1, <1>10, LiveParts DEF LevelInv
  <2>3. \A i \in Indices(srv', "user") : i \in Indices(srv, "user") /\ i \in Nat BY <1>10 DEF Indices
  <2>4. PICK m \in Nat, n \in Nat : m = srv.port[h].lvl /\ n = srv'.port[h].lvl /\ n <= m BY <1>10
  <2>5. \A i \in Nat : m < i => n < i BY <2>4
  <2>6. srv.port[h].hold => \A i \in Indices(srv', "user") : n < i BY <2>2, <2>3, <2>4, <2>5
  <2> QED BY <1>2, <1>10, <1>16, <2>4, <2>6
<1>18. \A d : d.op = "close" => (Pending(d)' <=> Pending(d))
  <2> SUFFICES ASSUME NEW d, d.op = "close"
               PROVE  Pending(d)' <=> Pending(d)
    OBVIOUS
  <2>1. /\ Pending(d) <=> Head(H.q) = d \/ (Tail(H.q) # << >> /\ Head(Tail(H.q)) = d)
        /\ Pending(d)' <=> /\ e.q # << >>
                           /\ Head(e.q) = d \/ (Tail(e.q) # << >> /\ Head(Tail(e.q)) = d)
    BY <1>1, PendingWire
  <2>2. ~Pending(d) BY <1>1, <1>3, <1>11, <1>13, <2>1
  <2>3. Tail(e.q) # << >> => Head(Tail(e.q)) # d BY <1>13, AfterIs, BodyIs
  <2> QED BY <1>11, <1>13, <2>1, <2>2, <2>3
<1>19. e.q # << >> /\ \A h \in Handles : ~One(e.q, Fetch(h)) BY <1>11, <1>13 DEF One
<1> QED BY <1>1, <1>6, <1>10, <1>12, <1>15, <1>17, <1>18, <1>19, SteadyWire
\* The savepoint is set, and the statement is protected.
LEMMA SvpSet ==
  ASSUME IInv, SvpOn, ~conn.svp, NEW r, NEW e, Went(r, e)
  PROVE  IInv'
<1>1. /\ WireOn(e) /\ e.q = Tail(H.q) /\ e.f = TagFlags(H.f, r.tag) /\ conn.alive
      /\ Tagged(conn, H.f, r.tag, r.notice) /\ srv' = r.srv /\ curs' = TagCursors(r.tag)
      /\ r \in Replies(srv, Head(H.q))
  BY WentIs
<1>2. /\ H.f = {} /\ srv.st = "INTRANS" /\ conn.op = "savepoint" /\ ~conn.point
      /\ Mirrors /\ ~conn.err /\ conn.inTrans /\ ~OnQuery /\ srv \in Servers
      /\ Base = Len(srv.svps) /\ Len(srv.svps) \in Nat
  BY <1>1, SvpFacts
<1>3. Head(H.q) = SvpCmd("savepoint", "exec") /\ After(Tail(H.q)) BY DEF SvpOn, SvpWire, SvpQuery
<1>4. /\ r.tag = "SAVEPOINT" /\ ~r.notice
      /\ srv' \in Servers /\ srv'.st = "INTRANS" /\ srv'.port = srv.port
      /\ Len(srv'.svps) = Len(srv.svps) + 1
      /\ srv'.svps[Len(srv.svps) + 1].name = "exec"
      /\ \A j \in 1..Len(srv.svps) : srv'.svps[j] = srv.svps[j]
  BY <1>1, SvpReply
<1>5. /\ todo # << >> /\ H.t = "wire" /\ Sound(todo) /\ StackInv /\ All(todo) = {H} \cup Rest
      /\ H' = e /\ Rest' = Rest /\ All(todo') = {e} \cup Rest /\ H \in Tasks /\ e.t = "wire"
      /\ \A t : Top(t) <=> t = "wire"
      /\ \A t : Top(t)' <=> t = "wire"
  <2>1. e.t = "wire" BY <1>1 DEF WireOn
  <2> QED BY <1>1, <2>1, WireFacts
<1>6. e.f = {} BY <1>1, <1>2 DEF TagFlags
<1>7. curs' = curs /\ discardp' = discardp /\ last' = last /\ ret' = ret
  BY <1>1, <1>4 DEF TagCursors, WireOn
<1>8. /\ conn'.inTrans <=> conn.inTrans
      /\ conn'.manual <=> conn.manual
      /\ conn'.err <=> conn.err
      /\ conn'.ignored <=> conn.ignored
      /\ conn'.svp
      /\ conn'.point
      /\ conn'.op = "none"
  BY <1>1, <1>2, <1>4 DEF Tagged
<1>9. /\ SvpCmd("savepoint", "exec").op = "savepoint"
      /\ Cmd("begin").op = "begin" /\ Cmd("commit").op = "commit" /\ Cmd("rollback").op = "rollback"
  BY CmdType, SvpCmdType DEF CmdNames, Kinds, Svps
<1>10. Steady(e)
  <2>1. ~IsEnd(H.q) /\ ~One(H.q, Cmd("begin")) BY <1>3, <1>9 DEF IsEnd, One
  <2> QED BY <1>1, <1>2, <1>4, <1>7, <1>8, <2>1 DEF Steady
<1>11. /\ In("stmt_end") /\ e.q = Tail(H.q)
       /\ e.q = << >> => ~ForStmt
       /\ e.q # << >> => ForStmt /\ Body(e.q) /\ Head(e.q).op \notin EndKinds
  BY <1>1, <1>3, AfterIs
<1>12. Indices(srv', "user") = Indices(srv, "user") BY <1>2, <1>4, UserSame
<1>13. WireInv'
  <2>1. CASE e.q = << >>
    <3>1. Succeeded' BY <1>5, <1>6 DEF Succeeded
    <3> QED BY <1>5, <1>6, <1>8, <2>1, <3>1 DEF WireInv
  <2>2. CASE e.q # << >>
    <3>1. ForStmt' BY <1>5, <1>11, <2>2 DEF ForStmt, Only, In
    <3>2. PICK q : q = e.q OBVIOUS
    <3>3. Body(q)' BY <1>2, <1>4, <1>5, <1>7, <1>11, <1>12, <2>2, <3>2, BodyKept
    <3>4. Inside(q)' BY <1>4 DEF Inside
    <3>5. SoloWire' BY <1>5, <1>6, <3>1, <3>2, <3>3, <3>4 DEF SoloWire, NoQuery
    <3> QED BY <1>5, <1>6, <1>8, <2>2, <3>5 DEF WireInv
  <2> QED BY <2>1, <2>2
<1>14. ~OnQuery' /\ Base' = Len(srv.svps) + 1
  <2>1. ~OnQuery' BY <1>5, <1>6 DEF OnQuery
  <2> QED BY <1>4, <2>1 DEF Base
<1>15. SvpInv'
  <2>1. srv'.svps[Base'].name = "exec" /\ Base' > 0 BY <1>2, <1>4, <1>14
  <2>2. Has("stmt_end")' BY <1>5, <1>11 DEF Has, In
  <2> QED BY <1>5, <1>14, <2>1, <2>2 DEF SvpInv
<1>16. LevelInv'
  <2> SUFFICES ASSUME NEW h \in Handles, srv'.port[h].st = "trans"
               PROVE  /\ srv'.st # "IDLE" /\ srv'.port[h].lvl < Base'
                      /\ srv'.port[h].hold => \A i \in Indices(srv', "user") : srv'.port[h].lvl < i
    <3>1. \A h \in Handles : srv'.port[h].lvl \in Nat BY <1>4, ServerFields, PortFields
    <3> QED BY <1>2, <1>14, <3>1 DEF LevelInv
  <2>1. /\ srv.port[h].lvl <= Len(srv.svps)
        /\ srv.port[h].hold => \A i \in Indices(srv, "user") : srv.port[h].lvl < i
    BY <1>1, <1>2, <1>4, LiveParts DEF LevelInv
  <2>2. srv.port[h].lvl \in Nat BY <1>2, ServerFields, PortFields
  <2> QED BY <1>2, <1>4, <1>12, <1>14, <2>1, <2>2
<1>17. \A d : d.op = "close" => (Pending(d)' <=> Pending(d))
  <2> SUFFICES ASSUME NEW d, d.op = "close"
               PROVE  Pending(d)' <=> Pending(d)
    OBVIOUS
  <2>1. /\ Pending(d) <=> Head(H.q) = d \/ (Tail(H.q) # << >> /\ Head(Tail(H.q)) = d)
        /\ Pending(d)' <=> /\ e.q # << >>
                           /\ Head(e.q) = d \/ (Tail(e.q) # << >> /\ Head(Tail(e.q)) = d)
    BY <1>1, PendingWire
  <2>2. e.q # << >> => ~(Head(e.q) = d \/ (Tail(e.q) # << >> /\ Head(Tail(e.q)) = d)) BY <1>11, BodyIs
  <2> QED BY <1>3, <1>9, <1>11, <2>1, <2>2
<1>18. ForStmt => e.q # << >> /\ \A h \in Handles : ~One(e.q, Fetch(h)) BY <1>11, BodyIs
<1> QED BY <1>1, <1>4, <1>6, <1>10, <1>13, <1>15, <1>16, <1>17, <1>18, SteadyWire
(* Any command of a query *)
LEMMA WireCases ==
  ASSUME IInv, conn.alive, Top("wire"), H.q # << >>
  PROVE  \/ \E op \in Kinds : Alone(op)
         \/ \E h \in Handles, hold \in BOOLEAN : DeclareWire(h, hold)
         \/ \E k \in Rest : /\ k.t = "opened" /\ conn.op = "none" /\ NoQuery /\ ForStmt /\ InUse
                            /\ One(H.q, Fetch(k.h)) /\ srv.port[k.h].st # "none"
         \/ BeginsWire
         \/ \E c \in Cmds : SoloQuick(c)
         \/ QueryOn /\ \/ \E c \in Cmds : QueryWire1(c) \/ QueryNext(c)
                       \/ QueryLast
         \/ SvpOn
<1>1. IF conn.op = "none" THEN SoloWire \/ BeginWire \/ QueryWire ELSE SvpWire
  BY LiveParts DEF TalkInv, WireInv
<1>2. CASE conn.op # "none" BY <1>1, <1>2 DEF SvpOn
<1>3. CASE conn.op = "none" /\ SoloWire
  <2>1. conn.op = "none" /\ NoQuery BY <1>3 DEF SoloWire
  <2>2. CASE "ignore_abort" \notin H.f /\ ForStmt /\ Body(H.q) /\ Inside(H.q)
    <3>1. ASSUME NEW op \in Kinds, IsOp(H.q, op)
          PROVE  Alone(op)
      BY <2>1, <2>2, <3>1, StmtAlone
    <3>2. ASSUME NEW h \in Handles, NEW hold \in BOOLEAN, IsOpen(H.q, h, hold)
          PROVE  DeclareWire(h, hold)
      BY <2>1, <2>2, <3>2 DEF DeclareWire
    <3> QED BY <2>2, <3>1, <3>2 DEF Body
  <2>3. CASE \E k \in Rest : /\ k.t = "opened" /\ ForStmt /\ One(H.q, Fetch(k.h))
                             /\ InUse /\ srv.port[k.h].st # "none"
    BY <2>1, <2>3
  <2>4. CASE "ignore_abort" \notin H.f /\ One(H.q, Cmd("begin")) /\ ~conn.inTrans /\ ForBegin
    BY <2>1, <2>4 DEF BeginsWire, NoMore, NoQuery, One, ForBegin
  <2>5. CASE "ignore_abort" \notin H.f /\ IsEnd(H.q) /\ ForEnd BY <2>1, <2>5, EndAlone
  <2>6. CASE \E c \in Cmds : One(H.q, c) /\ Quick(c) /\ Sure(c) /\ ~conn.err BY <2>1, <2>6 DEF SoloQuick
  <2> QED BY <1>3, <2>2, <2>3, <2>4, <2>5, <2>6 DEF SoloWire
<1>4. CASE conn.op = "none" /\ BeginWire BY <1>4 DEF BeginWire, BeginsWire, NoMore
<1>5. CASE conn.op = "none" /\ QueryWire
  <2>1. QueryOn BY <1>5 DEF QueryOn, QueryWire
  <2> QED BY <1>5, <2>1 DEF QueryWire, QueryWire1, QueryNext, QueryLast
<1> QED BY <1>1, <1>2, <1>3, <1>4, <1>5
LEMMA QueryReplies ==
  ASSUME IInv, QueryOn, NEW r, NEW e, Stopped(r, e)
  PROVE  ~QueryLast /\ \A c \in Cmds : ~QueryWire1(c)
<1>1. conn.alive /\ r \in Replies(srv, Head(H.q)) /\ r.tag = "ERROR" BY StoppedIs
<1>2. ~QueryLast BY <1>1, QueryReply
<1>3. ASSUME NEW c \in Cmds, QueryWire1(c)
      PROVE  FALSE
  <2>1. r \in Replies(srv, SvpCmd("savepoint", "query")) BY <1>1, <1>3 DEF QueryWire1
  <2>2. srv.st = "INTRANS" /\ srv \in Servers BY TypesOf DEF QueryOn, InUse
  <2> QED BY <1>1, <2>1, <2>2, SvpReplyIs DEF Svps
<1> QED BY <1>2, <1>3
LEMMA WireErrorStep ==
  ASSUME IInv, WireError
  PROVE  IInv'
<1>1. PICK r, e : Stopped(r, e) BY WireErrorIs
<1>2. Top("wire") /\ H.q # << >> /\ conn.alive BY <1>1 DEF Stopped
<1>3. ASSUME NEW op \in Kinds, Alone(op) PROVE IInv' BY <1>1, <1>3, AloneStopped
<1>4. ASSUME NEW h \in Handles, NEW hold \in BOOLEAN, DeclareWire(h, hold) PROVE IInv'
  BY <1>1, <1>4, DeclareStopped
<1>5. ASSUME NEW k \in Rest, k.t = "opened", conn.op = "none", NoQuery, ForStmt, InUse,
             One(H.q, Fetch(k.h)), srv.port[k.h].st # "none"
      PROVE  IInv'
  BY <1>1, <1>2, <1>5, FetchWire
<1>6. ASSUME BeginsWire PROVE IInv' BY <1>1, <1>2, <1>6, BeginsStopped
<1>7. ASSUME NEW c \in Cmds, SoloQuick(c) PROVE IInv' BY <1>1, <1>2, <1>7, SoloStopped
<1>8. ASSUME QueryOn, NEW c \in Cmds, QueryNext(c) PROVE IInv' BY <1>1, <1>8, QueryStopped
<1>9. ASSUME QueryOn, QueryLast \/ \E c \in Cmds : QueryWire1(c) PROVE IInv' BY <1>1, <1>9, QueryReplies
<1>10. ASSUME SvpOn PROVE IInv' BY <1>1, <1>2, <1>10, SvpStopped
<1> QED BY <1>2, <1>3, <1>4, <1>5, <1>6, <1>7, <1>8, <1>9, <1>10, WireCases
LEMMA WireOkStep ==
  ASSUME IInv, WireOk
  PROVE  IInv'
<1>1. PICK r, e : Went(r, e) BY WireOkIs
<1>2. Top("wire") /\ H.q # << >> /\ conn.alive BY <1>1 DEF Went
<1>3. ASSUME NEW op \in Kinds, Alone(op) PROVE IInv' BY <1>1, <1>3, AloneWent
<1>4. ASSUME NEW h \in Handles, NEW hold \in BOOLEAN, DeclareWire(h, hold) PROVE IInv'
  BY <1>1, <1>4, DeclareWent
<1>5. ASSUME NEW k \in Rest, k.t = "opened", conn.op = "none", NoQuery, ForStmt, InUse,
             One(H.q, Fetch(k.h)), srv.port[k.h].st # "none"
      PROVE  IInv'
  BY <1>1, <1>2, <1>5, FetchWire
<1>6. ASSUME BeginsWire PROVE IInv' BY <1>1, <1>6, BeginsWent
<1>7. ASSUME NEW c \in Cmds, SoloQuick(c) PROVE IInv' BY <1>1, <1>7, SoloWent
<1>8. ASSUME QueryOn, NEW c \in Cmds, QueryNext(c) PROVE IInv' BY <1>1, <1>8, QueryWent
<1>9. ASSUME QueryOn, NEW c \in Cmds, QueryWire1(c) PROVE IInv' BY <1>1, <1>9, QuerySaved
<1>10. ASSUME QueryOn, QueryLast PROVE IInv' BY <1>1, <1>10, QueryReleased
<1>11. ASSUME SvpOn PROVE IInv' BY <1>1, <1>11, SvpSet, SvpReleased
<1> QED BY <1>2, <1>3, <1>4, <1>5, <1>6, <1>7, <1>8, <1>9, <1>10, <1>11, WireCases
--------------------
(* The calls of the application *)
\* What is known between two calls.
LEMMA QuietLive ==
  ASSUME IInv, conn.alive, Quiet
  PROVE  /\ All(todo) = {} /\ (\A t : ~Has(t) /\ ~Top(t)) /\ ~OnQuery /\ ~conn.committing
         /\ Mirrors /\ Matches /\ conn.op = "none" /\ ~conn.point
         /\ srv.st # "IDLE" => conn.manual
         /\ conn.svp => srv.st # "IDLE" /\ Base > 0 /\ srv.svps[Base].name = "exec"
         /\ Base = Len(srv.svps)
         /\ discardp # << >> => conn.err
         /\ \A h \in Handles :
              /\ ~Closing(h) /\ ~Opening(h)
              /\ curs[h].open /\ curs[h].perm => curs[h].hold /\ srv.port[h].st = "held"
              /\ curs[h].open /\ ~curs[h].perm =>
                   /\ srv.st # "IDLE"
                   /\ \/ srv.port[h].st = "trans" /\ (srv.port[h].hold <=> curs[h].hold)
                      \/ srv.port[h].st = "none" /\ curs[h].doubt /\ ~curs[h].hold
              /\ srv.port[h].st # "none" /\ ~curs[h].open =>
                   \/ srv.port[h].st = "trans" /\ ~srv.port[h].hold
                   \/ srv.port[h].st = "held" /\ Marked(h)
              /\ srv.port[h].st = "trans" =>
                   /\ srv.st # "IDLE" /\ srv.port[h].lvl <= Len(srv.svps)
                   /\ srv.port[h].hold => \A i \in Indices(srv, "user") : srv.port[h].lvl < i
         /\ conn.ignored => \A h \in Handles : ~(curs[h].open /\ curs[h].hold)
         /\ \A j \in 1..Len(discardp) : discardp[j].type = "p" =>
              /\ discardp[j].h \in Handles /\ ~curs[discardp[j].h].open
              /\ srv.port[discardp[j].h].st = "held"
              /\ \A i \in 1..Len(discardp) :
                    i # j /\ discardp[i].type = "p" => discardp[i].h # discardp[j].h
<1>1. /\ All(todo) = {} /\ (\A t : ~Has(t) /\ ~Top(t)) /\ ~OnQuery /\ ~Unsettled BY QuietFacts
<1>2. ~conn.committing BY <1>1, TypesOf DEF StackInv
<1>3. Mirrors /\ Matches /\ conn.op = "none" /\ ~conn.point
  BY <1>1, LiveParts DEF StatusInv, Mirrors, TalkInv, SvpInv
<1>4. srv.st # "IDLE" => conn.manual BY <1>1, LiveParts DEF StatusInv, NewTrans
<1>5. Base = Len(srv.svps) BY <1>1 DEF Base
<1>6. conn.svp => srv.st # "IDLE" /\ Base > 0 /\ srv.svps[Base].name = "exec"
  BY <1>3, LiveParts DEF SvpInv, StatusInv, Matches
<1>7. discardp # << >> => conn.err BY <1>1, LiveParts DEF DiscInv
<1>8. ASSUME NEW h \in Handles
      PROVE  /\ ~Closing(h) /\ ~Opening(h)
             /\ curs[h].open /\ curs[h].perm => curs[h].hold /\ srv.port[h].st = "held"
             /\ curs[h].open /\ ~curs[h].perm =>
                  /\ srv.st # "IDLE"
                  /\ \/ srv.port[h].st = "trans" /\ (srv.port[h].hold <=> curs[h].hold)
                     \/ srv.port[h].st = "none" /\ curs[h].doubt /\ ~curs[h].hold
             /\ srv.port[h].st # "none" /\ ~curs[h].open =>
                  \/ srv.port[h].st = "trans" /\ ~srv.port[h].hold
                  \/ srv.port[h].st = "held" /\ Marked(h)
  <2>1. ~Closing(h) /\ ~Opening(h) BY <1>1 DEF Closing, Opening
  <2>2. curs[h].open /\ curs[h].perm => curs[h].hold /\ srv.port[h].st = "held"
    BY <2>1, LiveParts DEF PermInv
  <2>3. curs[h].open /\ ~curs[h].perm =>
          /\ srv.st # "IDLE"
          /\ \/ srv.port[h].st = "trans" /\ (srv.port[h].hold <=> curs[h].hold)
             \/ srv.port[h].st = "none" /\ curs[h].doubt /\ ~curs[h].hold
    BY <1>1, <1>2, <2>1, LiveParts DEF OpenInv
  <2>4. srv.port[h].st # "none" /\ ~curs[h].open =>
          \/ srv.port[h].st = "trans" /\ ~srv.port[h].hold
          \/ srv.port[h].st = "held" /\ Marked(h)
    BY <2>1, LiveParts DEF PortInv
  <2> QED BY <2>1, <2>2, <2>3, <2>4
<1>9. \A h \in Handles : srv.port[h].st = "trans" =>
        /\ srv.st # "IDLE" /\ srv.port[h].lvl <= Len(srv.svps)
        /\ srv.port[h].hold => \A i \in Indices(srv, "user") : srv.port[h].lvl < i
  BY <1>5, LiveParts DEF LevelInv
<1>10. conn.ignored => \A h \in Handles : ~(curs[h].open /\ curs[h].hold) BY LiveParts DEF IgnInv
<1>11. \A j \in 1..Len(discardp) : discardp[j].type = "p" =>
         /\ discardp[j].h \in Handles /\ ~curs[discardp[j].h].open
         /\ srv.port[discardp[j].h].st = "held"
         /\ \A i \in 1..Len(discardp) :
               i # j /\ discardp[i].type = "p" => discardp[i].h # discardp[j].h
  BY <1>1, LiveParts DEF DiscInv
<1> QED BY <1>1, <1>2, <1>3, <1>4, <1>5, <1>6, <1>7, <1>8, <1>9, <1>10, <1>11
\* A call that changes nothing but the stack, and clears the last error.
CallTasks == {"send", "commit", "abort", "begin", "close", "request_start", "exec_ext",
              "exec_end", "opened", "stmt_end", "transact_end", "set_auto"}
SameConn ==
  /\ conn' \in Conns /\ conn'.op = conn.op
  /\ conn'.alive <=> conn.alive
  /\ conn'.auto <=> conn.auto
  /\ conn'.inTrans <=> conn.inTrans
  /\ conn'.manual <=> conn.manual
  /\ conn'.err <=> conn.err
  /\ conn'.svp <=> conn.svp
  /\ conn'.point <=> conn.point
  /\ conn'.committing <=> conn.committing
  /\ conn'.ignored => conn.ignored
Called ==
  /\ todo' # << >> /\ Sound(todo') /\ Truthful(todo') /\ H' \in All(todo')
  /\ UNCHANGED <<srv, curs, discardp, ret>> /\ last' \in LastType /\ SameConn
  /\ \A k \in All(todo') : /\ k.t \in CallTasks
                           /\ k.t \in HandleTasks => k.h \in Handles
                           /\ \A t \in Under(k.t) : \E m \in All(todo') : m.t = t
LEMMA CallLive ==
  ASSUME IInv, conn.alive, Quiet, Called, SendInv', OpeningInv', ExtInv',
         H'.t = "close" /\ conn.err /\ curs[H'.h].hold => curs[H'.h].perm,
         \A k \in All(todo') : k.t = "close" /\ curs[k.h].doubt /\ ~curs[k.h].hold =>
            \A g \in Handles : ~(curs[g].open /\ curs[g].hold),
         \A k \in All(todo') : k.t = "transact_end" => H'.t \in {"commit", "abort"}
  PROVE  IInv'
<1>1. /\ todo' # << >> /\ Sound(todo') /\ Truthful(todo') /\ H' \in All(todo')
      /\ srv' = srv /\ curs' = curs /\ discardp' = discardp /\ ret' = ret
      /\ last' \in LastType /\ conn' \in Conns /\ conn'.op = conn.op
      /\ conn'.alive <=> conn.alive
      /\ conn'.auto <=> conn.auto
      /\ conn'.inTrans <=> conn.inTrans
      /\ conn'.manual <=> conn.manual
      /\ conn'.err <=> conn.err
      /\ conn'.svp <=> conn.svp
      /\ conn'.point <=> conn.point
      /\ conn'.committing <=> conn.committing
      /\ conn'.ignored => conn.ignored
      /\ \A k \in All(todo') : k.t \in CallTasks
  BY DEF Called, SameConn
<1>2. /\ All(todo) = {} /\ (\A t : ~Has(t) /\ ~Top(t)) /\ ~OnQuery /\ ~conn.committing
      /\ Mirrors /\ Matches /\ conn.op = "none" /\ ~conn.point
      /\ srv.st # "IDLE" => conn.manual
      /\ conn.svp => srv.st # "IDLE" /\ Base > 0 /\ srv.svps[Base].name = "exec"
      /\ Base = Len(srv.svps)
      /\ discardp # << >> => conn.err
  BY QuietLive
<1>3. \A h \in Handles :
        /\ ~Closing(h) /\ ~Opening(h)
        /\ curs[h].open /\ curs[h].perm => curs[h].hold /\ srv.port[h].st = "held"
        /\ curs[h].open /\ ~curs[h].perm =>
             /\ srv.st # "IDLE"
             /\ \/ srv.port[h].st = "trans" /\ (srv.port[h].hold <=> curs[h].hold)
                \/ srv.port[h].st = "none" /\ curs[h].doubt /\ ~curs[h].hold
        /\ srv.port[h].st # "none" /\ ~curs[h].open =>
             \/ srv.port[h].st = "trans" /\ ~srv.port[h].hold
             \/ srv.port[h].st = "held" /\ Marked(h)
        /\ srv.port[h].st = "trans" =>
             /\ srv.st # "IDLE" /\ srv.port[h].lvl <= Len(srv.svps)
             /\ srv.port[h].hold => \A i \in Indices(srv, "user") : srv.port[h].lvl < i
  BY QuietLive
<1>4. /\ conn.ignored => \A h \in Handles : ~(curs[h].open /\ curs[h].hold)
      /\ \A j \in 1..Len(discardp) : discardp[j].type = "p" =>
           /\ discardp[j].h \in Handles /\ ~curs[discardp[j].h].open
           /\ srv.port[discardp[j].h].st = "held"
           /\ \A i \in 1..Len(discardp) :
                 i # j /\ discardp[i].type = "p" => discardp[i].h # discardp[j].h
  BY QuietLive
<1>5. \A t : Top(t)' => t \in CallTasks /\ t = H'.t BY <1>1 DEF Top, H
<1>6. \A t : t \notin CallTasks => ~Top(t)' /\ ~Has(t)' /\ \A k \in All(todo') : k.t # t
  BY <1>1, <1>5 DEF Has
<1>7. ~Unsettled' /\ ~OnQuery' /\ ~Busy'
  <2>1. ~Unsettled' /\ ~OnQuery' BY <1>6 DEF Unsettled, OnQuery, CallTasks
  <2>2. ~Busy' BY <1>1 DEF Busy, Chores, Discs, Clears, CallTasks
  <2> QED BY <2>1, <2>2
<1>8. Mirrors' /\ Matches' /\ (conn'.err => conn'.inTrans)
  <2>1. conn.err => conn.inTrans BY LiveParts DEF StatusInv
  <2> QED BY <1>1, <1>2, <2>1 DEF Mirrors, Matches
<1>9. StackInv'
  <2>1. ~\E k \in All(todo') : k.t = "on_commit_end" BY <1>1 DEF CallTasks
  <2> QED BY <1>1, <1>2, <2>1, StackNew DEF Called
<1>10. BaseInv'
  <2>1. TypeOK'
    <3>1. /\ srv \in Servers /\ curs \in [Handles -> Cursors] /\ ret \in {"ok", "error"}
          /\ discardp \in Seq([type : {"s", "p"}, h : Handles \cup {NoHandle}])
      BY TypesOf
    <3> QED BY <1>1, <3>1 DEF TypeOK, Sound, LastType
  <2>2. Gone' BY <1>1 DEF Gone
  <2> QED BY <1>9, <2>1, <2>2 DEF BaseInv
<1>11. StatusInv'
  <2>1. ~Has("closed")' BY <1>6 DEF CallTasks
  <2>2. conn.manual => conn.inTrans BY LiveParts DEF StatusInv
  <2> QED BY <1>1, <1>2, <1>7, <1>8, <2>1, <2>2 DEF StatusInv, Matches
<1>12. TalkInv'
  <2>1. ~Top("wire")' /\ ~Top("query_rollback")' BY <1>6 DEF CallTasks
  <2> QED BY <1>1, <1>2, <2>1 DEF TalkInv, WireInv
<1>13. SvpInv' /\ LevelInv'
  <2>1. ~Top("stmt_rollback")' /\ ~Top("stmt_clean")' BY <1>6 DEF CallTasks
  <2>2. Base' = Base BY <1>1, <1>2, <1>7 DEF Base
  <2>3. SvpInv' BY <1>1, <1>2, <1>7, <2>1, <2>2 DEF SvpInv
  <2>4. LevelInv' BY <1>1, <1>2, <1>3, <2>2 DEF LevelInv
  <2> QED BY <2>3, <2>4
<1>14. PermInv' /\ OpenInv' /\ PortInv'
  <2>1. PermInv' BY <1>1, <1>3 DEF PermInv
  <2>2. OpenInv' BY <1>1, <1>3 DEF OpenInv
  <2>3. \A h \in Handles : Marked(h) => Marked(h)' BY <1>1 DEF Marked
  <2>4. PortInv' BY <1>1, <1>3, <2>3 DEF PortInv
  <2> QED BY <2>1, <2>2, <2>4
<1>15. CloseInv' /\ IgnInv'
  <2>1. \A k \in All(todo') : k.t \notin {"closed", "moved", "close_eof", "commit_send"}
    BY <1>1 DEF CallTasks
  <2>2. ~Has("close_eof")' /\ ~Has("commit_send")' BY <1>6 DEF CallTasks
  <2>3. CloseInv' BY <1>1, <1>5, <2>1, <2>2 DEF CloseInv
  <2>4. IgnInv' BY <1>1, <1>4, <2>1 DEF IgnInv
  <2> QED BY <2>3, <2>4
<1>16. DiscInv'
  <2>1. \A k \in All(todo') : k.t \notin {"discard", "discard_free"} BY <1>1 DEF CallTasks
  <2> QED BY <1>1, <1>2, <1>4, <2>1 DEF DiscInv
<1>17. RetInv'
  <2>1. ~Top("moved")' /\ ~Has("svp_sent")' BY <1>6 DEF CallTasks
  <2>2. Has("transact_end")' => Ending'
    <3>1. Has("transact_end")' => H'.t \in {"commit", "abort"} BY DEF Has
    <3> QED BY <1>1, <3>1 DEF Ending, Top, H
  <2> QED BY <1>1, <2>1, <2>2 DEF RetInv
<1> QED BY <1>1, <1>10, <1>11, <1>12, <1>13, <1>14, <1>15, <1>16, <1>17, LiveFrom DEF IInv
LEMMA CallingIs ==
  ASSUME IInv, NEW op \in ApiCalls, Calling(op)
  PROVE  last' \in LastType /\ last'.op = op
<1>1. srv \in Servers BY TypesOf
<1>2. srv.st \in {"IDLE", "INTRANS", "INERROR"} /\ srv.w \in Nat BY <1>1 DEF Servers
<1> QED BY <1>2 DEF Calling, LastType
LEMMA ConnUnchanged ==
  ASSUME IInv, conn' = conn
  PROVE  SameConn
<1>1. conn \in Conns BY TypesOf
<1> QED BY <1>1 DEF SameConn
LEMMA ErrorCleared ==
  ASSUME IInv, conn' = [conn EXCEPT !.ignored = FALSE]
  PROVE  SameConn
<1>1. conn \in Conns BY TypesOf
<1>2. PICK c \in Conns : c = conn BY <1>1
<1>3. conn' = [c EXCEPT !.ignored = FALSE] BY <1>2
<1>4. /\ [c EXCEPT !.ignored = FALSE] \in Conns
      /\ [c EXCEPT !.ignored = FALSE].op = c.op
      /\ [c EXCEPT !.ignored = FALSE].alive <=> c.alive
      /\ [c EXCEPT !.ignored = FALSE].auto <=> c.auto
      /\ [c EXCEPT !.ignored = FALSE].inTrans <=> c.inTrans
      /\ [c EXCEPT !.ignored = FALSE].manual <=> c.manual
      /\ [c EXCEPT !.ignored = FALSE].err <=> c.err
      /\ [c EXCEPT !.ignored = FALSE].svp <=> c.svp
      /\ [c EXCEPT !.ignored = FALSE].point <=> c.point
      /\ [c EXCEPT !.ignored = FALSE].committing <=> c.committing
      /\ ~[c EXCEPT !.ignored = FALSE].ignored
  BY Zenon DEF Conns
<1> QED BY <1>2, <1>3, <1>4 DEF SameConn
\* Neither a query nor the opening of a cursor.
LEMMA NoSend ==
  ASSUME \A k \in All(todo') : k.t \notin {"send", "opened", "request_start", "exec_ext"},
         todo' # << >>, H' \in All(todo')
  PROVE  SendInv' /\ OpeningInv' /\ ExtInv'
<1>1. ~Top("send")' BY DEF Top, H
<1> QED BY <1>1 DEF SendInv, OpeningInv, ExtInv
LEMMA CloseCursorStep ==
  ASSUME IInv, Prudent, NEW h \in Handles, CloseCursor(h)
  PROVE  IInv'
<1>1. /\ Quiet /\ conn.alive /\ curs[h].open
      /\ conn.err /\ curs[h].hold => curs[h].perm
      /\ curs[h].doubt => \A g \in Handles \ {h} : ~(curs[g].open /\ curs[g].hold)
      /\ todo' = <<CallH("close", h)>> /\ conn' = conn
      /\ UNCHANGED <<srv, curs, discardp, ret>>
  BY DEF CloseCursor, Prudent
<1>2. PICK a : a = CallH("close", h) OBVIOUS
<1>3. a \in Tasks /\ a.t = "close" /\ a.h = h BY <1>2, CallHType DEF TaskNames
<1>4. Sound(todo') /\ todo' # << >> /\ H' = a /\ All(todo') = {a} /\ Truthful(todo')
  <2>1. todo' = <<a>> BY <1>1, <1>2
  <2>2. Sound(<<a>>) /\ <<a>> # << >> /\ Head(<<a>>) = a /\ All(<<a>>) = {a} /\ Truthful(<<a>>)
    BY <1>3, Stack1
  <2> QED BY <2>1, <2>2 DEF H
<1>5. last' \in LastType
  <2>1. Calling("close") /\ "close" \in ApiCalls BY DEF CloseCursor, ApiCalls
  <2> QED BY <2>1, CallingIs
<1>6. SameConn BY <1>1, ConnUnchanged
<1>7. Called BY <1>1, <1>3, <1>4, <1>5, <1>6 DEF Called, CallTasks, Under
<1>8. SendInv' /\ OpeningInv' /\ ExtInv' BY <1>3, <1>4, NoSend
<1> QED BY <1>1, <1>3, <1>4, <1>7, <1>8, CallLive
\* A call that does nothing more.
LEMMA QuietFrom ==
  ASSUME todo' = << >>, TypeOK', conn'.op = "none", ~conn'.point, ~conn'.committing, Gone',
         conn'.alive =>
           /\ Mirrors'
           /\ conn'.err \/ conn'.svp \/ conn'.manual => conn'.inTrans
           /\ srv'.st # "IDLE" => conn'.manual
           /\ conn'.svp /\ srv'.st # "IDLE" =>
                Len(srv'.svps) > 0 /\ srv'.svps[Len(srv'.svps)].name = "exec"
           /\ discardp' # << >> => conn'.err
           /\ PermInv' /\ OpenInv' /\ PortInv' /\ LevelInv' /\ DiscInv'
           /\ conn'.ignored => \A h \in Handles : ~(curs'[h].open /\ curs'[h].hold)
  PROVE  IInv'
<1>1. All(todo') = {} /\ Sound(todo') /\ Truthful(todo') BY NoneSound
<1>2. \A t : ~Top(t)' /\ ~Has(t)' BY <1>1 DEF Top, Has
<1>3. ~Unsettled' /\ ~OnQuery' /\ ~Busy' BY <1>1, <1>2 DEF Unsettled, OnQuery, Busy
<1>4. BaseInv'
  <2>1. StackInv' BY <1>1, StackNew
  <2> QED BY <2>1 DEF BaseInv
<1>5. ASSUME conn'.alive PROVE LiveInv'
  <2>1. StatusInv' BY <1>1, <1>2, <1>3, <1>5 DEF StatusInv, Mirrors, Matches
  <2>2. TalkInv' BY <1>2 DEF TalkInv, SendInv, WireInv
  <2>3. SvpInv' BY <1>2, <1>3, <1>5 DEF SvpInv, Base
  <2>4. CloseInv' /\ OpeningInv' BY <1>1, <1>2 DEF CloseInv, OpeningInv
  <2>5. IgnInv' /\ RetInv' /\ ExtInv' BY <1>1, <1>2, <1>5 DEF IgnInv, RetInv, ExtInv
  <2> QED BY <1>1, <1>5, <2>1, <2>2, <2>3, <2>4, <2>5, LiveFrom
<1> QED BY <1>4, <1>5 DEF IInv
LEMMA StillQuiet ==
  ASSUME IInv, conn.alive, Quiet, todo' = << >>, UNCHANGED <<srv, curs, discardp, ret>>,
         last' \in LastType, SameConn
  PROVE  IInv'
<1>1. /\ srv' = srv /\ curs' = curs /\ discardp' = discardp /\ ret' = ret
      /\ conn' \in Conns /\ conn'.op = conn.op
      /\ conn'.alive <=> conn.alive
      /\ conn'.auto <=> conn.auto
      /\ conn'.inTrans <=> conn.inTrans
      /\ conn'.manual <=> conn.manual
      /\ conn'.err <=> conn.err
      /\ conn'.svp <=> conn.svp
      /\ conn'.point <=> conn.point
      /\ conn'.committing <=> conn.committing
      /\ conn'.ignored => conn.ignored
  BY DEF SameConn
<1>2. /\ All(todo) = {} /\ (\A t : ~Has(t) /\ ~Top(t)) /\ ~OnQuery /\ ~conn.committing
      /\ Mirrors /\ Matches /\ conn.op = "none" /\ ~conn.point
      /\ srv.st # "IDLE" => conn.manual
      /\ conn.svp => srv.st # "IDLE" /\ Base > 0 /\ srv.svps[Base].name = "exec"
      /\ Base = Len(srv.svps)
      /\ discardp # << >> => conn.err
      /\ conn.ignored => \A h \in Handles : ~(curs[h].open /\ curs[h].hold)
  BY QuietLive
<1>3. todo' = todo BY DEF Quiet
<1>4. TypeOK'
  <2>1. TypeOK BY TypesOf
  <2> QED BY <1>1, <1>3, <2>1 DEF TypeOK, LastType
<1>5. Mirrors' /\ (conn'.err \/ conn'.svp \/ conn'.manual => conn'.inTrans)
  <2>1. conn.err \/ conn.svp \/ conn.manual => conn.inTrans BY LiveParts DEF StatusInv
  <2> QED BY <1>1, <1>2, <2>1 DEF Mirrors, Matches
<1>6. PermInv' /\ OpenInv' /\ PortInv'
  <2>1. \A h : (Closing(h)' <=> Closing(h)) /\ (Opening(h)' <=> Opening(h)) /\ (Marked(h)' <=> Marked(h))
    BY <1>1, <1>3 DEF Closing, Opening, Marked
  <2>2. \A t : Top(t)' <=> Top(t) BY <1>3 DEF Top
  <2>3. Unsettled' <=> Unsettled BY <1>2, <2>2 DEF Unsettled
  <2>4. PermInv /\ OpenInv /\ PortInv BY LiveParts
  <2> QED BY <1>1, <1>2, <1>3, <2>1, <2>3, <2>4 DEF PermInv, OpenInv, PortInv
<1>7. LevelInv' /\ DiscInv'
  <2>1. Base' = Base
    <3>1. ~OnQuery' BY <1>2, <1>3 DEF OnQuery, Top
    <3> QED BY <1>1, <1>2, <3>1 DEF Base
  <2>2. LevelInv /\ DiscInv BY LiveParts
  <2>3. LevelInv' BY <1>1, <1>2, <2>1, <2>2 DEF LevelInv
  <2>4. DiscInv' BY <1>1, <1>2, <1>3, <2>2, QuietLive DEF DiscInv
  <2> QED BY <2>3, <2>4
<1>8. Gone' BY <1>1 DEF Gone
<1> QED BY <1>1, <1>2, <1>4, <1>5, <1>6, <1>7, <1>8, QuietFrom
LEMMA EndTranStep ==
  ASSUME IInv, NEW op \in {"commit", "rollback"}, EndTran(op)
  PROVE  IInv'
<1>1. /\ Quiet /\ conn.alive /\ conn' = [conn EXCEPT !.ignored = FALSE]
      /\ todo' = If((~conn.auto \/ conn.manual) /\ conn.inTrans,
                    <<Call(IF op = "commit" THEN "commit" ELSE "abort"), Call("transact_end")>>)
      /\ UNCHANGED <<srv, curs, discardp, ret>>
  BY DEF EndTran
<1>2. last' \in LastType
  <2>1. Calling(op) /\ op \in ApiCalls BY DEF EndTran, ApiCalls, Kinds
  <2> QED BY <2>1, CallingIs
<1>3. SameConn BY <1>1, ErrorCleared
<1>4. CASE (~conn.auto \/ conn.manual) /\ conn.inTrans
  <2>1. PICK a, b : /\ a = Call(IF op = "commit" THEN "commit" ELSE "abort")
                    /\ b = Call("transact_end")
    OBVIOUS
  <2>2. a \in Tasks /\ a.t \in {"commit", "abort"} /\ b \in Tasks /\ b.t = "transact_end"
    BY <2>1, CallType DEF TaskNames
  <2>3. Sound(todo') /\ todo' # << >> /\ H' = a /\ All(todo') = {a, b} /\ Truthful(todo')
    <3>1. todo' = <<a, b>> BY <1>1, <1>4, <2>1 DEF If
    <3>2. b.t \in Lower(a.t) /\ ~Awaits(a) /\ ~Works(a) /\ a.t # "return"
      BY <2>2 DEF Lower, Talk, Clears, Discs, Awaits, Works
    <3>3. /\ Sound(<<a, b>>) /\ <<a, b>> # << >> /\ Head(<<a, b>>) = a /\ All(<<a, b>>) = {a, b}
          /\ Truthful(<<a, b>>)
      BY <2>2, <3>2, Stack2
    <3> QED BY <3>1, <3>3 DEF H
  <2>4. Called BY <1>1, <1>2, <1>3, <2>2, <2>3 DEF Called, CallTasks, Under, HandleTasks
  <2>5. SendInv' /\ OpeningInv' /\ ExtInv' BY <2>2, <2>3, NoSend
  <2> QED BY <1>1, <2>2, <2>3, <2>4, <2>5, CallLive
<1>5. CASE ~((~conn.auto \/ conn.manual) /\ conn.inTrans)
  <2>1. todo' = << >> BY <1>1, <1>5 DEF If
  <2> QED BY <1>1, <1>2, <1>3, <2>1, StillQuiet
<1> QED BY <1>4, <1>5
LEMMA Pair ==
  ASSUME NEW a \in Tasks, NEW b \in Tasks
  PROVE  <<a>> \o <<b>> = <<a, b>>
<1> DEFINE q == << >>
<1>1. q \in Seq(Tasks) /\ <<b>> \in Seq(Tasks) /\ <<a, b>> \in Seq(Tasks) OBVIOUS
<1>2. <<a, b>> \o q = <<a, b>> /\ <<b>> \o q = <<b>> BY <1>1, NoCat
<1> HIDE DEF q
<1>3. <<a, b>> \o q = <<a>> \o (<<b>> \o q) BY <1>1, Cat2
<1> QED BY <1>2, <1>3
LEMMA SetAutocommitStep ==
  ASSUME IInv, SetAutocommit
  PROVE  IInv'
<1>1. /\ Quiet /\ conn.alive /\ conn' = [conn EXCEPT !.ignored = FALSE]
      /\ todo' = If(conn.inTrans, <<Call("commit")>>) \o <<Call("set_auto")>>
      /\ UNCHANGED <<srv, curs, discardp, ret>>
  BY DEF SetAutocommit
<1>2. last' \in LastType
  <2>1. Calling("commit") /\ "commit" \in ApiCalls BY DEF SetAutocommit, ApiCalls, Kinds
  <2> QED BY <2>1, CallingIs
<1>3. SameConn BY <1>1, ErrorCleared
<1>4. PICK a, b : a = Call("commit") /\ b = Call("set_auto") OBVIOUS
<1>5. a \in Tasks /\ a.t = "commit" /\ b \in Tasks /\ b.t = "set_auto" BY <1>4, CallType DEF TaskNames
<1>6. /\ Sound(todo') /\ todo' # << >> /\ H' \in All(todo') /\ All(todo') \subseteq {a, b}
      /\ Truthful(todo')
  <2>1. CASE conn.inTrans
    <3>1. todo' = <<a>> \o <<b>> BY <1>1, <1>4, <2>1 DEF If
    <3>2. b.t \in Lower(a.t) /\ ~Awaits(a) /\ ~Works(a) /\ a.t # "return"
      BY <1>5 DEF Lower, Talk, Clears, Discs, Awaits, Works
    <3>3. /\ Sound(<<a, b>>) /\ <<a, b>> # << >> /\ Head(<<a, b>>) = a /\ All(<<a, b>>) = {a, b}
          /\ Truthful(<<a, b>>)
      BY <1>5, <3>2, Stack2
    <3>4. <<a>> \o <<b>> = <<a, b>> BY <1>5, Pair
    <3> QED BY <3>1, <3>3, <3>4 DEF H
  <2>2. CASE ~conn.inTrans
    <3>1. todo' = << >> \o <<b>> BY <1>1, <1>4, <2>2 DEF If
    <3>2. << >> \o <<b>> = <<b>> BY <1>5
    <3>3. Sound(<<b>>) /\ <<b>> # << >> /\ Head(<<b>>) = b /\ All(<<b>>) = {b} /\ Truthful(<<b>>)
      BY <1>5, Stack1
    <3> QED BY <3>1, <3>2, <3>3 DEF H
  <2> QED BY <2>1, <2>2
<1>7. Called BY <1>1, <1>2, <1>3, <1>5, <1>6 DEF Called, CallTasks, Under, HandleTasks
<1>8. SendInv' /\ OpeningInv' /\ ExtInv' BY <1>5, <1>6, NoSend
<1> QED BY <1>1, <1>5, <1>6, <1>7, <1>8, CallLive
\* Nothing is committed first: between two calls every transaction is manual.
LEMMA ExecFirst ==
  ASSUME IInv, conn.alive, Quiet, NEW op \in Kinds
  PROVE  /\ CommitFirst(Cmd(op)) = << >>
         /\ ExecEnd(Cmd(op)) \in Tasks /\ ExecEnd(Cmd(op)).t = "exec_end"
         /\ ~conn.inTrans => ExecEnd(Cmd(op)).f = {}
<1>1. CommitFirst(Cmd(op)) = << >>
  <2>1. conn.inTrans => conn.manual BY QuietLive DEF Matches
  <2> QED BY <2>1 DEF CommitFirst, If
<1>2. PICK f : f = IF conn.inTrans /\ CommitFirst(Cmd(op)) = << >> THEN {"was_in"} ELSE {} OBVIOUS
<1>3. f \in SUBSET Flags /\ (~conn.inTrans => f = {}) BY <1>2 DEF Flags
<1>4. PICK k : k = Call("exec_end") OBVIOUS
<1>5. k \in Tasks /\ k.t = "exec_end" BY <1>4, CallType DEF TaskNames
<1>6. ExecEnd(Cmd(op)) = [k EXCEPT !.f = f] BY <1>2, <1>4 DEF ExecEnd
<1>7. [k EXCEPT !.f = f] \in Tasks /\ [k EXCEPT !.f = f].t = "exec_end" /\ [k EXCEPT !.f = f].f = f
  BY <1>3, <1>5, TaskF
<1> QED BY <1>1, <1>3, <1>6, <1>7
\* A call that sends the query of a statement.
LEMMA StmtCalled ==
  ASSUME IInv, conn.alive, Quiet, NEW a \in Tasks, H' = a, a.t = "send", todo' # << >>, conn' = conn,
         "stmt" \in a.f, a.f \cap {"rollback_on_error", "ignore_abort", "end_with_commit"} = {},
         NEW q, q = a.q, Body(q)', ForStmt',
         "begin" \in a.f => ~conn.inTrans, "begin" \notin a.f => Inside(q)'
  PROVE  SendInv'
<1>1. conn.op = "none" /\ ~conn.point BY QuietLive
<1>2. H'.q = q /\ H'.f = a.f OBVIOUS
<1>3. StmtSend'
  <2>1. "stmt" \in H'.f /\ H'.f \cap {"rollback_on_error", "ignore_abort", "end_with_commit"} = {} BY <1>2
  <2>2. Body(H.q)' BY <1>2
  <2>3. IF "begin" \in H'.f THEN ~conn'.inTrans ELSE Inside(H.q)' BY <1>2
  <2> QED BY <1>1, <2>1, <2>2, <2>3 DEF StmtSend
<1> QED BY <1>1, <1>3 DEF SendInv
\* The stack of a call that sends the query of a statement.
LEMMA StmtStack ==
  ASSUME NEW a \in Tasks, NEW b \in Tasks, NEW c \in Tasks,
         a.t = "send", b.t \in {"exec_end", "opened"}, c.t = "stmt_end", todo' = <<a, b, c>>
  PROVE  /\ Sound(todo') /\ todo' # << >> /\ H' = a /\ Rest' = {b, c} /\ All(todo') = {a, b, c}
         /\ Truthful(todo')
<1>1. PICK s : s = <<a, b, c>> OBVIOUS
<1>2. /\ b.t \in Lower(a.t) /\ c.t \in Lower(a.t) /\ c.t \in Lower(b.t)
      /\ ~Awaits(a) /\ ~Works(a) /\ a.t # "return" /\ ~Awaits(b) /\ ~Works(b) /\ b.t # "return"
  BY DEF Lower, Talk, Clears, Discs, Ends, Awaits, Works
<1>3. Sound(s) /\ s # << >> /\ Head(s) = a /\ Truthful(s) BY <1>1, <1>2, Stack3
<1>4. All(s) = {a, b, c} BY <1>1, <1>2, Stack3
<1>5. All(Tail(s)) = {b, c}
  <2>1. Tail(s) = <<b, c>> BY <1>1
  <2>2. All(<<b, c>>) = {b, c} BY <1>2, Stack2
  <2> QED BY <2>1, <2>2
<1> QED BY <1>1, <1>3, <1>4, <1>5 DEF H, Rest
LEMMA ExecDirectStep ==
  ASSUME IInv, NEW op \in DirectOps, ExecDirect(op)
  PROVE  IInv'
<1>1. op \in Kinds BY OptionAssumption
<1>2. PICK f : f = {"stmt"} \cup IF IssueBegin(StmtType(Cmd(op)), FALSE) THEN {"begin"} ELSE {} OBVIOUS
<1>3. PICK q : q = <<Cmd(op)>> OBVIOUS
<1>4. /\ Quiet /\ conn.alive /\ Calling(op) /\ UNCHANGED <<conn, srv, curs, discardp, ret>>
      /\ todo' = CommitFirst(Cmd(op)) \o <<Send(q, f), ExecEnd(Cmd(op)), Call("stmt_end")>>
  BY <1>2, <1>3 DEF ExecDirect
<1>5. PICK a, b, c : a = Send(q, f) /\ b = ExecEnd(Cmd(op)) /\ c = Call("stmt_end") OBVIOUS
<1>6. Cmd(op) \in Cmds /\ Cmd(op).op = op BY <1>1, CmdType DEF CmdNames
<1>7. q \in Seq(Cmds) /\ One(q, Cmd(op)) /\ Head(q).op = op BY <1>3, <1>6 DEF One
<1>8. /\ f \in SUBSET Flags /\ "stmt" \in f
      /\ f \cap {"rollback_on_error", "ignore_abort", "end_with_commit"} = {}
      /\ "begin" \in f => ~conn.inTrans
      /\ "begin" \notin f => conn.inTrans \/ conn.auto \/ op = "special"
  <2>1. StmtType(Cmd(op)) = "special" => op = "special" BY <1>6 DEF StmtType
  <2> QED BY <1>2, <2>1 DEF IssueBegin, Flags
<1>9. /\ a \in Tasks /\ a.t = "send" /\ a.q = q /\ a.f = f
      /\ b \in Tasks /\ b.t = "exec_end" /\ (~conn.inTrans => b.f = {})
      /\ c \in Tasks /\ c.t = "stmt_end"
  <2>1. a \in Tasks /\ a.t = "send" /\ a.q = q /\ a.f = f BY <1>5, <1>7, <1>8, SendType
  <2>2. b \in Tasks /\ b.t = "exec_end" /\ (~conn.inTrans => b.f = {}) BY <1>1, <1>4, <1>5, ExecFirst
  <2>3. c \in Tasks /\ c.t = "stmt_end" BY <1>5, CallType DEF TaskNames
  <2> QED BY <2>1, <2>2, <2>3
<1>10. /\ Sound(todo') /\ todo' # << >> /\ H' = a /\ Rest' = {b, c} /\ All(todo') = {a, b, c}
       /\ Truthful(todo')
  <2>1. PICK s : s = <<a, b, c>> OBVIOUS
  <2>2. CommitFirst(Cmd(op)) = << >> BY <1>1, <1>4, ExecFirst
  <2>3. s \in Seq(Tasks) BY <1>9, <2>1
  <2>4. << >> \o s = s BY <2>3, NoCat
  <2>5. todo' = <<a, b, c>> BY <1>4, <1>5, <2>1, <2>2, <2>4
  <2> QED BY <1>9, <2>5, StmtStack
<1>11. last' \in LastType /\ last'.op = op BY <1>1, <1>4, CallingIs DEF ApiCalls
<1>12. Called
  <2>1. SameConn BY <1>4, ConnUnchanged
  <2> QED BY <1>4, <1>9, <1>10, <1>11, <2>1 DEF Called, CallTasks, Under, HandleTasks
<1>13. SendInv'
  <2>1. ForStmt' BY <1>9, <1>10 DEF ForStmt, Only, In
  <2>2. Body(q)'
    <3>1. srv'.st = "IDLE" => NewTrans'
      <4>1. srv.st = "IDLE" => ~conn.inTrans BY <1>4, QuietLive DEF Matches
      <4> QED BY <1>4, <1>9, <1>10, <4>1 DEF NewTrans
    <3>2. ~conn'.point BY <1>4, QuietLive
    <3>3. IsOp(q, op)' BY <1>7, <1>11, <3>1, <3>2 DEF IsOp
    <3> QED BY <1>1, <3>3 DEF Body
  <2>3. "begin" \notin f => Inside(q)'
    <3>1. srv.st = "IDLE" => ~conn.inTrans BY <1>4, QuietLive DEF Matches
    <3>2. op # "declare" BY <1>1 DEF Kinds
    <3> QED BY <1>4, <1>7, <1>8, <3>1, <3>2 DEF Inside
  <2> QED BY <1>4, <1>8, <1>9, <1>10, <2>1, <2>2, <2>3, StmtCalled
<1>14. OpeningInv' /\ ExtInv' BY <1>9, <1>10 DEF OpeningInv, ExtInv
<1> QED BY <1>4, <1>9, <1>10, <1>12, <1>13, <1>14, CallLive
LEMMA CatalogStep ==
  ASSUME IInv, Catalog
  PROVE  IInv'
<1>1. PICK f : f = {"stmt", "inner", "read_only"} OBVIOUS
<1>2. PICK q : q = <<Cmd("read")>> OBVIOUS
<1>3. PICK a, b : a = Send(q, f) /\ b = Call("stmt_end") OBVIOUS
<1>4. /\ Quiet /\ conn.alive /\ Calling("catalog") /\ UNCHANGED <<conn, srv, curs, discardp, ret>>
      /\ todo' = <<a, b>>
  BY <1>1, <1>2, <1>3 DEF Catalog
<1>5. Cmd("read") \in Cmds /\ Cmd("read").op = "read" BY CmdType DEF CmdNames, Kinds
<1>6. q \in Seq(Cmds) /\ One(q, Cmd("read")) /\ Head(q).op = "read" BY <1>2, <1>5 DEF One
<1>7. /\ f \in SUBSET Flags /\ "stmt" \in f
      /\ f \cap {"rollback_on_error", "ignore_abort", "end_with_commit"} = {} /\ "begin" \notin f
  BY <1>1 DEF Flags
<1>8. /\ a \in Tasks /\ a.t = "send" /\ a.q = q /\ a.f = f
      /\ b \in Tasks /\ b.t = "stmt_end"
  BY <1>3, <1>6, <1>7, SendType, CallType DEF TaskNames
<1>9. /\ Sound(todo') /\ todo' # << >> /\ H' = a /\ Rest' = {b} /\ All(todo') = {a, b}
      /\ Truthful(todo')
  <2>1. b.t \in Lower(a.t) /\ ~Awaits(a) /\ ~Works(a) /\ a.t # "return"
    BY <1>8 DEF Lower, Talk, Clears, Discs, Ends, Awaits, Works
  <2>2. /\ Sound(<<a, b>>) /\ <<a, b>> # << >> /\ Head(<<a, b>>) = a /\ All(<<a, b>>) = {a, b}
        /\ Truthful(<<a, b>>)
    BY <1>8, <2>1, Stack2
  <2>3. Tail(<<a, b>>) = <<b>> /\ All(<<b>>) = {b} BY <1>8, Stack1
  <2> QED BY <1>4, <2>2, <2>3 DEF H, Rest
<1>10. last' \in LastType /\ last'.op = "catalog" BY <1>4, CallingIs DEF ApiCalls
<1>11. Called
  <2>1. SameConn BY <1>4, ConnUnchanged
  <2> QED BY <1>4, <1>8, <1>9, <1>10, <2>1 DEF Called, CallTasks, Under, HandleTasks
<1>12. SendInv'
  <2>1. ForStmt' BY <1>8, <1>9 DEF ForStmt, Only, In
  <2>2. Body(q)'
    <3>1. IsOp(q, "read")' BY <1>6, <1>10 DEF IsOp, EndKinds
    <3> QED BY <3>1 DEF Body, Kinds
  <2>3. Inside(q)' BY <1>6 DEF Inside
  <2> QED BY <1>4, <1>7, <1>8, <1>9, <2>1, <2>2, <2>3, StmtCalled
<1>13. OpeningInv' /\ ExtInv' BY <1>8, <1>9 DEF OpeningInv, ExtInv
<1> QED BY <1>4, <1>8, <1>9, <1>11, <1>12, <1>13, CallLive
LEMMA NoUserSvps ==
  ASSUME srv \in Servers, UserSvps(srv) = 0
  PROVE  Indices(srv, "user") = {}
<1>1. Len(srv.svps) \in Nat BY DEF Servers
<1>2. IsFiniteSet(1..Len(srv.svps)) BY <1>1, FS_Interval
<1>3. IsFiniteSet(Indices(srv, "user")) BY <1>2, FS_Subset DEF Indices
<1> QED BY <1>3, FS_EmptySet DEF UserSvps
LEMMA OpenCursorStep ==
  ASSUME IInv, Prudent, NEW h \in Handles, NEW hold \in BOOLEAN, OpenCursor(h, hold)
  PROVE  IInv'
<1>1. PICK f : f = {"stmt"} \cup IF IssueBegin("other", TRUE) THEN {"begin"} ELSE {} OBVIOUS
<1>2. PICK q : q = <<Declare(h, hold), Fetch(h)>> OBVIOUS
<1>3. PICK a, b, c : a = Send(q, f) /\ b = OpenedTask(h, hold) /\ c = Call("stmt_end") OBVIOUS
<1>4. /\ Quiet /\ conn.alive /\ Calling("open") /\ UNCHANGED <<conn, srv, curs, discardp, ret>>
      /\ ~curs[h].open
      /\ hold => ~(UserSvps(srv) > 0) /\ ~conn.ignored
      /\ todo' = <<a, b, c>>
  <2>1. "hold_in_savepoint" \notin Risky /\ "stale_ignored" \notin Risky BY DEF Prudent
  <2>2. todo' = <<a, b, c>> BY <1>1, <1>2, <1>3, Zenon DEF OpenCursor, Declare, Fetch, OpenedTask
  <2> QED BY <2>1, <2>2 DEF OpenCursor
<1>5. /\ Declare(h, hold) \in Cmds /\ Declare(h, hold).op = "declare"
      /\ Fetch(h) \in Cmds
  BY DeclareType, CursCmdType DEF Fetch, CmdNames
<1>6. q \in Seq(Cmds) /\ Two(q, Declare(h, hold), Fetch(h)) /\ Head(q).op = "declare"
  BY <1>2, <1>5 DEF Two, One
<1>7. /\ f \in SUBSET Flags /\ "stmt" \in f
      /\ f \cap {"rollback_on_error", "ignore_abort", "end_with_commit"} = {}
      /\ "begin" \in f <=> ~conn.inTrans
  BY <1>1 DEF IssueBegin, Flags
<1>8. /\ a \in Tasks /\ a.t = "send" /\ a.q = q /\ a.f = f
      /\ b \in Tasks /\ b.t = "opened" /\ b.h = h /\ ("on" \in b.f <=> hold)
      /\ c \in Tasks /\ c.t = "stmt_end"
  <2>1. a \in Tasks /\ a.t = "send" /\ a.q = q /\ a.f = f BY <1>3, <1>6, <1>7, SendType
  <2>2. b \in Tasks /\ b.t = "opened" /\ b.h = h /\ ("on" \in b.f <=> hold) BY <1>3, OpenedType
  <2>3. c \in Tasks /\ c.t = "stmt_end" BY <1>3, CallType DEF TaskNames
  <2> QED BY <2>1, <2>2, <2>3
<1>9. /\ Sound(todo') /\ todo' # << >> /\ H' = a /\ Rest' = {b, c} /\ All(todo') = {a, b, c}
      /\ Truthful(todo')
  BY <1>4, <1>8, StmtStack
<1>10. last' \in LastType /\ last'.op = "open" BY <1>4, CallingIs DEF ApiCalls
<1>11. Called
  <2>1. SameConn BY <1>4, ConnUnchanged
  <2> QED BY <1>4, <1>8, <1>9, <1>10, <2>1 DEF Called, CallTasks, Under, HandleTasks
<1>12. ForStmt' /\ Top("send")' BY <1>8, <1>9 DEF ForStmt, Only, In, Top, H
<1>13. ~(srv.port[h].st = "trans" /\ srv.port[h].hold) BY <1>4, QuietLive
<1>14. SendInv'
  <2>1. IsOpen(q, h, hold)'
    <3>1. hold => Indices(srv', "user") = {}
      <4>1. srv \in Servers /\ srv' = srv BY <1>4, TypesOf
      <4>2. Len(srv.svps) \in Nat BY <4>1 DEF Servers
      <4>3. UserSvps(srv) \in Nat
        <5>1. IsFiniteSet(1..Len(srv.svps)) BY <4>2, FS_Interval
        <5>2. IsFiniteSet(Indices(srv, "user")) BY <5>1, FS_Subset DEF Indices
        <5> QED BY <5>2, FS_CardinalityType DEF UserSvps
      <4>4. hold => UserSvps(srv) = 0 BY <1>4, <4>3
      <4> QED BY <4>1, <4>4, NoUserSvps
    <3>2. OpenedTask(h, hold) \in Rest' BY <1>3, <1>9
    <3> QED BY <1>4, <1>6, <1>10, <1>13, <3>1, <3>2 DEF IsOpen
  <2>2. Body(q)' BY <2>1 DEF Body
  <2>3. "begin" \notin f => Inside(q)'
    <3>1. conn.inTrans => srv.st # "IDLE" BY <1>4, QuietLive DEF Matches
    <3> QED BY <1>4, <1>7, <3>1 DEF Inside
  <2> QED BY <1>4, <1>7, <1>8, <1>9, <1>12, <2>2, <2>3, StmtCalled
<1>15. OpeningInv'
  <2>1. \A k \in All(todo') : k.t = "opened" => k = b BY <1>8, <1>9
  <2>2. ~Failed1' BY <1>8, <1>9, <1>12 DEF Failed1, Top, H
  <2> QED BY <1>4, <1>8, <1>10, <1>12, <1>13, <2>1, <2>2 DEF OpeningInv
<1>16. ExtInv' BY <1>8, <1>9 DEF ExtInv
<1> QED BY <1>4, <1>8, <1>9, <1>11, <1>14, <1>15, <1>16, CallLive
\* The stack of a call that executes a prepared statement.
LEMMA ExtStack ==
  ASSUME NEW a \in Tasks, NEW b \in Tasks, NEW c \in Tasks, NEW d \in Tasks,
         a.t = "request_start", b.t = "exec_ext", c.t = "exec_end", d.t = "stmt_end",
         NEW s, s = <<a, b, c, d>>
  PROVE  /\ Sound(s) /\ s # << >> /\ Head(s) = a /\ All(s) = {a, b, c, d} /\ Truthful(s)
<1>1. /\ b.t \in Lower(a.t) /\ c.t \in Lower(a.t) /\ d.t \in Lower(a.t)
      /\ c.t \in Lower(b.t) /\ d.t \in Lower(b.t) /\ d.t \in Lower(c.t)
      /\ ~Awaits(a) /\ ~Works(a) /\ a.t # "return" /\ ~Awaits(b) /\ ~Works(b) /\ b.t # "return"
      /\ ~Awaits(c) /\ ~Works(c) /\ c.t # "return"
  BY DEF Lower, Talk, Clears, Discs, Awaits, Works
<1>2. Sound(s) /\ s # << >> /\ Head(s) = a /\ Truthful(s) BY <1>1, Stack4
<1>3. All(s) = {a, b, c, d} BY <1>1, Stack4
<1> QED BY <1>2, <1>3
\* What SC_execute pushes for a prepared statement.
PreparedStack(op, q, e, a, b, c, d) ==
  /\ One(q, Cmd(op)) /\ e.t = "begin" /\ a.t = "request_start" /\ a.q = q
  /\ b.t = "exec_ext" /\ b.q = q /\ c.t = "exec_end" /\ d.t = "stmt_end"
  /\ Sound(todo') /\ todo' # << >> /\ Truthful(todo')
  /\ \/ IssueBegin(StmtType(Cmd(op)), FALSE) /\ H' = e /\ All(todo') = {e, a, b, c, d}
     \/ ~IssueBegin(StmtType(Cmd(op)), FALSE) /\ H' = a /\ All(todo') = {a, b, c, d}
LEMMA ExecPreparedIs ==
  ASSUME IInv, Prudent, NEW op \in PreparedOps, ExecPrepared(op)
  PROVE  /\ op \in Kinds \ EndKinds /\ Quiet /\ conn.alive /\ Calling(op)
         /\ UNCHANGED <<conn, srv, curs, discardp, ret>>
         /\ \E q \in Seq(Cmds), e, a, b, c, d \in Tasks : PreparedStack(op, q, e, a, b, c, d)
<1>1. op \in Kinds BY OptionAssumption
<1>2. PICK e, q, a, b, c, d :
        /\ e = Call("begin") /\ q = <<Cmd(op)>>
        /\ a = [Call("request_start") EXCEPT !.q = q] /\ b = [Call("exec_ext") EXCEPT !.q = q]
        /\ c = ExecEnd(Cmd(op)) /\ d = Call("stmt_end")
  OBVIOUS
<1>3. PICK s : s = <<a, b, c, d>> OBVIOUS
<1>4. PICK u : u = If(IssueBegin(StmtType(Cmd(op)), FALSE), <<e>>) OBVIOUS
<1>5. /\ Quiet /\ conn.alive /\ Calling(op) /\ UNCHANGED <<conn, srv, curs, discardp, ret>>
      /\ op \notin EndKinds /\ todo' = CommitFirst(Cmd(op)) \o u \o s
  <2>1. "prepared_end" \notin Risky BY DEF Prudent
  <2>2. todo' = CommitFirst(Cmd(op)) \o u \o s BY <1>2, <1>3, <1>4, Zenon DEF ExecPrepared
  <2> QED BY <2>1, <2>2 DEF ExecPrepared
<1>6. Cmd(op) \in Cmds BY <1>1, CmdType DEF CmdNames
<1>7. q \in Seq(Cmds) /\ One(q, Cmd(op)) BY <1>2, <1>6 DEF One
<1>8. /\ e \in Tasks /\ e.t = "begin"
      /\ a \in Tasks /\ a.t = "request_start" /\ a.q = q
      /\ b \in Tasks /\ b.t = "exec_ext" /\ b.q = q
      /\ c \in Tasks /\ c.t = "exec_end"
      /\ d \in Tasks /\ d.t = "stmt_end"
  <2>1. /\ Call("request_start") \in Tasks /\ Call("request_start").t = "request_start"
        /\ Call("exec_ext") \in Tasks /\ Call("exec_ext").t = "exec_ext"
        /\ e \in Tasks /\ e.t = "begin" /\ d \in Tasks /\ d.t = "stmt_end"
    BY <1>2, CallType DEF TaskNames
  <2>2. a \in Tasks /\ a.t = "request_start" /\ a.q = q BY <1>2, <1>7, <2>1, TaskQ
  <2>3. b \in Tasks /\ b.t = "exec_ext" /\ b.q = q BY <1>2, <1>7, <2>1, TaskQ
  <2>4. c \in Tasks /\ c.t = "exec_end" BY <1>1, <1>2, <1>5, ExecFirst
  <2> QED BY <2>1, <2>2, <2>3, <2>4
<1>9. /\ Sound(s) /\ s # << >> /\ Head(s) = a /\ All(s) = {a, b, c, d} /\ Truthful(s)
  BY <1>3, <1>8, ExtStack
<1>10. CommitFirst(Cmd(op)) = << >> BY <1>1, <1>5, ExecFirst
<1>11. /\ Sound(todo') /\ todo' # << >> /\ Truthful(todo')
       /\ \/ IssueBegin(StmtType(Cmd(op)), FALSE) /\ H' = e /\ All(todo') = {e, a, b, c, d}
          \/ ~IssueBegin(StmtType(Cmd(op)), FALSE) /\ H' = a /\ All(todo') = {a, b, c, d}
  <2>1. CASE IssueBegin(StmtType(Cmd(op)), FALSE)
    <3>1. << >> \o <<e>> = <<e>> BY <1>8, NoCat
    <3>2. todo' = <<e>> \o s BY <1>4, <1>5, <1>10, <2>1, <3>1 DEF If
    <3>3. /\ \A k \in All(s) : k.t \in Lower(e.t)
          /\ ~Awaits(e) /\ ~Works(e) /\ e.t # "return"
      BY <1>8, <1>9 DEF Lower, Talk, Clears, Discs, Awaits, Works
    <3>4. /\ Sound(<<e>> \o s) /\ <<e>> \o s # << >> /\ Head(<<e>> \o s) = e
          /\ All(<<e>> \o s) = {e} \cup All(s) /\ Truthful(<<e>> \o s)
      BY <1>8, <1>9, <3>3, Pushed
    <3> QED BY <1>9, <2>1, <3>2, <3>4 DEF H
  <2>2. CASE ~IssueBegin(StmtType(Cmd(op)), FALSE)
    <3>1. << >> \o << >> = << >> /\ << >> \o s = s BY <1>9, NoCat, NoCmds DEF Sound
    <3>2. todo' = s BY <1>4, <1>5, <1>10, <2>2, <3>1 DEF If
    <3> QED BY <1>9, <2>2, <3>2 DEF H
  <2> QED BY <2>1, <2>2
<1> QED BY <1>1, <1>5, <1>7, <1>8, <1>11 DEF PreparedStack
LEMMA ExecPreparedStep ==
  ASSUME IInv, Prudent, NEW op \in PreparedOps, ExecPrepared(op)
  PROVE  IInv'
<1>1. /\ op \in Kinds \ EndKinds /\ Quiet /\ conn.alive /\ Calling(op)
      /\ UNCHANGED <<conn, srv, curs, discardp, ret>>
  BY ExecPreparedIs
<1>2. PICK q \in Seq(Cmds), e, a, b, c, d \in Tasks : PreparedStack(op, q, e, a, b, c, d)
  BY ExecPreparedIs
<1>3. last' \in LastType /\ last'.op = op BY <1>1, CallingIs DEF ApiCalls
<1>4. Called
  <2>1. SameConn BY <1>1, ConnUnchanged
  <2>2. H' \in All(todo') /\ \A k \in All(todo') : k \in {e, a, b, c, d} BY <1>2 DEF PreparedStack
  <2> QED BY <1>1, <1>2, <1>3, <2>1, <2>2 DEF PreparedStack, Called, CallTasks, Under, HandleTasks
<1>5. SendInv' /\ OpeningInv' BY <1>2 DEF PreparedStack, SendInv, OpeningInv, Top, H
<1>6. ExtInv'
  <2>1. CASE IssueBegin(StmtType(Cmd(op)), FALSE)
    <3>1. Beginning' BY <1>2, <2>1 DEF PreparedStack, Beginning, Top, H
    <3> QED BY <1>1, <1>2, <1>3, <2>1, <3>1 DEF PreparedStack, ExtInv
  <2>2. CASE ~IssueBegin(StmtType(Cmd(op)), FALSE)
    <3>1. conn.inTrans => srv.st # "IDLE" BY <1>1, QuietLive DEF Matches
    <3>2. Cmd(op).op = op BY <1>1, CmdType DEF CmdNames
    <3>3. ~conn.auto /\ op # "special" => srv.st # "IDLE" BY <2>2, <3>1, <3>2 DEF IssueBegin, StmtType
    <3> QED BY <1>1, <1>2, <1>3, <2>2, <3>3 DEF PreparedStack, ExtInv
  <2> QED BY <2>1, <2>2
<1> QED BY <1>1, <1>2, <1>4, <1>5, <1>6, CallLive DEF PreparedStack
LEMMA FreePreparedStep ==
  ASSUME IInv, FreePrepared
  PROVE  IInv'
<1>1. PICK f : f = {"ignore_abort", "rollback_on_error"} OBVIOUS
<1>2. PICK q : q = <<Cmd("deallocate")>> OBVIOUS
<1>3. PICK a, e : a = Send(q, f) /\ e = [type |-> "s", h |-> NoHandle] OBVIOUS
<1>4. /\ Quiet /\ conn.alive /\ Calling("free") /\ UNCHANGED <<conn, srv, curs, ret>>
      /\ discardp' = discardp \o If(conn.err, <<e>>)
      /\ todo' = If(~conn.err, <<a>>)
  BY <1>1, <1>2, <1>3 DEF FreePrepared
<1>5. last' \in LastType /\ last'.op = "free" BY <1>4, CallingIs DEF ApiCalls
<1>6. SameConn BY <1>4, ConnUnchanged
<1> DEFINE D == [type : {"s", "p"}, h : Handles \cup {NoHandle}]
<1>7. discardp \in Seq(D) /\ e \in D BY <1>3, TypesOf
<1> HIDE DEF D
<1>8. CASE ~conn.err
  <2>1. discardp' = discardp /\ todo' = <<a>>
    <3>1. discardp \o << >> = discardp BY <1>7, NoCat
    <3> QED BY <1>4, <1>8, <3>1 DEF If
  <2>2. Cmd("deallocate") \in Cmds /\ Cmd("deallocate").op = "deallocate" BY CmdType DEF CmdNames
  <2>3. q \in Seq(Cmds) /\ One(q, Cmd("deallocate")) BY <1>2, <2>2 DEF One
  <2>4. f \in SUBSET Flags BY <1>1 DEF Flags
  <2>5. a \in Tasks /\ a.t = "send" /\ a.q = q /\ a.f = f BY <1>3, <2>3, <2>4, SendType
  <2>6. /\ Sound(todo') /\ todo' # << >> /\ H' = a /\ Rest' = {} /\ All(todo') = {a}
        /\ Truthful(todo')
    <3>1. /\ Sound(<<a>>) /\ <<a>> # << >> /\ Head(<<a>>) = a /\ All(Tail(<<a>>)) = {}
          /\ All(<<a>>) = {a} /\ Truthful(<<a>>)
      BY <2>5, Stack1
    <3> QED BY <2>1, <3>1 DEF H, Rest
  <2>7. Called BY <1>4, <1>5, <1>6, <2>1, <2>5, <2>6 DEF Called, CallTasks, Under, HandleTasks
  <2>8. SendInv'
    <3>1. Quick(Cmd("deallocate"))' BY <2>6 DEF Quick
    <3>2. Maybe(Cmd("deallocate"))' BY <2>2 DEF Maybe, Sure
    <3>3. PICK c : c = Cmd("deallocate") OBVIOUS
    <3>4. c \in Cmds /\ One(q, c) /\ Quick(c)' /\ Maybe(c)' BY <2>2, <2>3, <3>1, <3>2, <3>3
    <3>5. QuickSend' BY <1>1, <1>4, <1>8, <2>5, <2>6, <3>4 DEF QuickSend
    <3>6. conn'.op = "none" BY <1>4, QuietLive
    <3> QED BY <3>5, <3>6 DEF SendInv
  <2>9. OpeningInv' /\ ExtInv' BY <2>5, <2>6 DEF OpeningInv, ExtInv
  <2> QED BY <1>4, <2>5, <2>6, <2>7, <2>8, <2>9, CallLive
<1>9. CASE conn.err
  <2>1. discardp' = discardp \o <<e>> /\ todo' = << >> BY <1>4, <1>9 DEF If
  <2>2. /\ discardp' \in Seq(D) /\ Len(discardp') = Len(discardp) + 1 /\ Len(discardp) \in Nat
        /\ \A j \in 1..Len(discardp) : discardp'[j] = discardp[j]
        /\ discardp'[Len(discardp) + 1] = e
    BY <1>7, <2>1
  <2>3. \A j \in 1..Len(discardp') : discardp'[j].type = "p" =>
           j \in 1..Len(discardp) /\ discardp'[j] = discardp[j]
    <3>1. e.type = "s" BY <1>3
    <3> QED BY <2>2, <3>1
  <2>4. /\ All(todo) = {} /\ ~OnQuery /\ ~conn.committing /\ (\A t : ~Has(t) /\ ~Top(t))
        /\ Mirrors /\ Matches /\ conn.op = "none" /\ ~conn.point
        /\ srv.st # "IDLE" => conn.manual
        /\ conn.svp => srv.st # "IDLE" /\ Base > 0 /\ srv.svps[Base].name = "exec"
        /\ Base = Len(srv.svps)
        /\ conn.ignored => \A h \in Handles : ~(curs[h].open /\ curs[h].hold)
    BY <1>4, QuietLive
  <2>5. \A h \in Handles :
              /\ ~Closing(h) /\ ~Opening(h)
              /\ curs[h].open /\ curs[h].perm => curs[h].hold /\ srv.port[h].st = "held"
              /\ curs[h].open /\ ~curs[h].perm =>
                   /\ srv.st # "IDLE"
                   /\ \/ srv.port[h].st = "trans" /\ (srv.port[h].hold <=> curs[h].hold)
                      \/ srv.port[h].st = "none" /\ curs[h].doubt /\ ~curs[h].hold
              /\ srv.port[h].st # "none" /\ ~curs[h].open =>
                   \/ srv.port[h].st = "trans" /\ ~srv.port[h].hold
                   \/ srv.port[h].st = "held" /\ Marked(h)
              /\ srv.port[h].st = "trans" =>
                   /\ srv.st # "IDLE" /\ srv.port[h].lvl <= Len(srv.svps)
                   /\ srv.port[h].hold => \A i \in Indices(srv, "user") : srv.port[h].lvl < i
    BY <1>4, QuietLive
  <2>6. \A j \in 1..Len(discardp) : discardp[j].type = "p" =>
              /\ discardp[j].h \in Handles /\ ~curs[discardp[j].h].open
              /\ srv.port[discardp[j].h].st = "held"
              /\ \A i \in 1..Len(discardp) :
                    i # j /\ discardp[i].type = "p" => discardp[i].h # discardp[j].h
    BY <1>4, QuietLive
  <2>7. conn' = conn /\ srv' = srv /\ curs' = curs /\ ret' = ret BY <1>4
  <2>8. TypeOK'
    <3>1. conn \in Conns /\ srv \in Servers /\ curs \in [Handles -> Cursors] /\ ret \in {"ok", "error"}
      BY TypesOf
    <3>2. todo' \in Seq(Tasks) BY <2>1, NoCmds
    <3> QED BY <1>5, <2>2, <2>7, <3>1, <3>2 DEF TypeOK, LastType, D
  <2>9. Mirrors' /\ (conn'.err \/ conn'.svp \/ conn'.manual => conn'.inTrans)
    <3>1. conn.err \/ conn.svp \/ conn.manual => conn.inTrans BY <1>4, LiveParts DEF StatusInv
    <3> QED BY <2>4, <2>7, <3>1 DEF Mirrors, Matches
  <2>10. PermInv' /\ OpenInv' /\ PortInv'
    <3>1. \A h : Marked(h) => Marked(h)' BY <2>2 DEF Marked
    <3>2. PermInv' BY <2>5, <2>7 DEF PermInv
    <3>3. OpenInv' BY <2>5, <2>7 DEF OpenInv
    <3>4. PortInv' BY <2>5, <2>7, <3>1 DEF PortInv
    <3> QED BY <3>2, <3>3, <3>4
  <2>11. LevelInv'
    <3>1. Base' = Base
      <4>1. ~OnQuery' BY <2>1 DEF OnQuery, Top
      <4> QED BY <2>4, <2>7, <4>1 DEF Base
    <3> QED BY <2>4, <2>5, <2>7, <3>1 DEF LevelInv
  <2>12. DiscInv'
    <3>1. All(todo') = {} BY <2>1, NoneSound
    <3>2. \A j \in 1..Len(discardp') : discardp'[j].type = "p" =>
              /\ discardp'[j].h \in Handles /\ ~curs'[discardp'[j].h].open
              /\ srv'.port[discardp'[j].h].st = "held"
              /\ \A i \in 1..Len(discardp') :
                    i # j /\ discardp'[i].type = "p" => discardp'[i].h # discardp'[j].h
      BY <2>3, <2>6, <2>7
    <3>3. conn'.err BY <1>9, <2>7
    <3> QED BY <3>1, <3>2, <3>3 DEF DiscInv
  <2>13. Gone' BY <1>4, <2>7 DEF Gone
  <2> QED BY <1>9, <2>1, <2>4, <2>7, <2>8, <2>9, <2>10, <2>11, <2>12, <2>13, QuietFrom
<1> QED BY <1>8, <1>9
LEMMA ConnectedType ==
  ASSUME NEW c \in Conns
  PROVE  LET d == [c EXCEPT !.alive = TRUE, !.auto = TRUE, !.inTrans = FALSE, !.manual = FALSE,
                            !.err = FALSE, !.ignored = FALSE]
         IN  /\ d \in Conns /\ ~d.inTrans /\ ~d.manual /\ ~d.err /\ ~d.ignored
             /\ d.svp <=> c.svp
             /\ d.op = c.op
             /\ d.point <=> c.point
             /\ d.committing <=> c.committing
BY Zenon DEF Conns
LEMMA FreshServer ==
  /\ NewServer \in Servers /\ NewServer.st = "IDLE" /\ NewServer.svps = << >>
  /\ \A h \in Handles : NewServer.port[h].st = "none"
<1> DEFINE port == [h \in Handles |-> NoPort]
<1>1. port \in [Handles -> Ports] /\ \A h \in Handles : port[h].st = "none" BY NoPortType
<1> HIDE DEF port
<1>2. << >> \in Seq(Svp) /\ 0 \in Nat /\ "IDLE" \in StNames BY DEF StNames
<1>3. [st |-> "IDLE", w |-> 0, svps |-> << >>, port |-> port] \in Servers BY <1>1, <1>2, ServerType
<1>4. NewServer = [st |-> "IDLE", w |-> 0, svps |-> << >>, port |-> port] BY DEF NewServer, port
<1> QED BY <1>1, <1>3, <1>4
LEMMA ReconnectStep ==
  ASSUME IInv, Prudent, Reconnect
  PROVE  IInv'
<1>1. /\ Quiet /\ ~conn.svp /\ todo' = << >> /\ Calling("connect") /\ ret' = ret
      /\ conn' = [conn EXCEPT !.alive = TRUE, !.auto = TRUE, !.inTrans = FALSE, !.manual = FALSE,
                              !.err = FALSE, !.ignored = FALSE]
      /\ srv' = NewServer /\ curs' = [h \in Handles |-> NoCursor] /\ discardp' = << >>
  BY DEF Reconnect, Prudent, Quiet
<1>2. conn.op = "none" /\ ~conn.point BY <1>1, QuietLive, TypesOf DEF Gone
<1>3. ~conn.committing BY <1>1, QuietFacts, TypesOf DEF StackInv
<1>4. /\ conn' \in Conns /\ ~conn'.inTrans /\ ~conn'.manual /\ ~conn'.err /\ ~conn'.ignored
      /\ ~conn'.svp /\ conn'.op = "none" /\ ~conn'.point /\ ~conn'.committing
  <2>1. conn \in Conns BY TypesOf
  <2>2. PICK c \in Conns : c = conn BY <2>1
  <2>3. PICK d : d = [c EXCEPT !.alive = TRUE, !.auto = TRUE, !.inTrans = FALSE, !.manual = FALSE,
                               !.err = FALSE, !.ignored = FALSE]
    OBVIOUS
  <2>4. /\ d \in Conns /\ ~d.inTrans /\ ~d.manual /\ ~d.err /\ ~d.ignored
        /\ d.svp <=> c.svp
        /\ d.op = c.op
        /\ d.point <=> c.point
        /\ d.committing <=> c.committing
    BY <2>3, ConnectedType, Zenon
  <2>5. conn' = d BY <1>1, <2>2, <2>3
  <2> QED BY <1>1, <1>2, <1>3, <2>2, <2>4, <2>5
<1>5. /\ srv' \in Servers /\ srv'.st = "IDLE" /\ srv'.svps = << >>
      /\ \A h \in Handles : srv'.port[h].st = "none"
  BY <1>1, FreshServer
<1>6. curs' \in [Handles -> Cursors] /\ \A h \in Handles : ~curs'[h].open
  <2>1. NoCursor \in Cursors /\ ~NoCursor.open BY Zenon DEF Cursors, NoCursor
  <2> QED BY <1>1, <2>1
<1>7. last' \in LastType BY <1>1, CallingIs DEF ApiCalls
<1>8. TypeOK'
  <2>1. ret \in {"ok", "error"} BY TypesOf
  <2>2. todo' \in Seq(Tasks) /\ discardp' \in Seq([type : {"s", "p"}, h : Handles \cup {NoHandle}])
    BY <1>1
  <2> QED BY <1>1, <1>4, <1>5, <1>6, <1>7, <2>1, <2>2 DEF TypeOK, LastType
<1>9. Mirrors' BY <1>4, <1>5 DEF Mirrors, Matches
<1>10. PermInv' /\ OpenInv' /\ PortInv' /\ LevelInv' BY <1>5, <1>6 DEF PermInv, OpenInv, PortInv, LevelInv
<1>11. DiscInv'
  <2>1. All(todo') = {} /\ Len(discardp') = 0 /\ discardp' = << >> BY <1>1, NoneSound
  <2> QED BY <2>1 DEF DiscInv
<1>12. Gone' BY <1>4, <1>5 DEF Gone
<1> QED BY <1>1, <1>4, <1>5, <1>8, <1>9, <1>10, <1>11, <1>12, QuietFrom
\* A new connection.
LEMMA InitInv == Init => IInv
<1> SUFFICES ASSUME Init PROVE IInv OBVIOUS
<1>1. /\ conn \in Conns /\ conn.alive /\ ~conn.inTrans /\ ~conn.manual /\ ~conn.err /\ ~conn.ignored
      /\ ~conn.svp /\ conn.op = "none" /\ ~conn.point /\ ~conn.committing
  <2>1. Modes \subseteq 0..2 BY OptionAssumption
  <2> QED BY <2>1, Zenon DEF Init, Conns
<1>2. /\ srv \in Servers /\ srv.st = "IDLE" /\ srv.svps = << >>
      /\ \A h \in Handles : srv.port[h].st = "none"
  BY FreshServer DEF Init
<1>3. curs \in [Handles -> Cursors] /\ \A h \in Handles : ~curs[h].open
  <2>1. NoCursor \in Cursors /\ ~NoCursor.open BY Zenon DEF Cursors, NoCursor
  <2> QED BY <2>1 DEF Init
<1>4. todo = << >> /\ discardp = << >> /\ Len(discardp) = 0 /\ ret = "ok" BY DEF Init
<1>5. last \in LastType BY Zenon DEF Init, LastType, ApiCalls
<1>6. /\ All(todo) = {} /\ (\A t : ~Has(t) /\ ~Top(t)) /\ ~Busy /\ ~Unsettled /\ ~OnQuery
  BY <1>4, QuietFacts DEF Quiet
<1>7. Sound(todo) /\ Truthful(todo) BY <1>4, NoneSound
<1>8. TypeOK
  <2>1. discardp \in Seq([type : {"s", "p"}, h : Handles \cup {NoHandle}]) BY <1>4
  <2> QED BY <1>1, <1>2, <1>3, <1>4, <1>5, <1>7, <2>1 DEF TypeOK, Sound, LastType
<1>9. StackInv /\ Gone BY <1>1, <1>6, <1>7 DEF StackInv, Gone, Sound
<1>10. StatusInv /\ TalkInv /\ SvpInv /\ LevelInv
  <2>1. StatusInv BY <1>1, <1>2, <1>6 DEF StatusInv, Mirrors, Matches
  <2>2. TalkInv BY <1>1, <1>6 DEF TalkInv, SendInv, WireInv
  <2>3. SvpInv /\ LevelInv BY <1>1, <1>2, <1>6 DEF SvpInv, LevelInv
  <2> QED BY <2>1, <2>2, <2>3
<1>11. CursInv /\ DiscInv
  <2>1. PermInv /\ OpenInv /\ PortInv BY <1>2, <1>3 DEF PermInv, OpenInv, PortInv
  <2>2. CloseInv /\ OpeningInv /\ DiscInv BY <1>4, <1>6 DEF CloseInv, OpeningInv, DiscInv
  <2> QED BY <2>1, <2>2 DEF CursInv
<1>12. IgnInv /\ RetInv /\ ExtInv BY <1>1, <1>2, <1>6 DEF IgnInv, RetInv, ExtInv
<1> QED BY <1>7, <1>8, <1>9, <1>10, <1>11, <1>12 DEF IInv, BaseInv, LiveInv
LEMMA ApplicationStep ==
  ASSUME IInv, Prudent, Application
  PROVE  IInv'
<1>1. ASSUME NEW op \in DirectOps, ExecDirect(op) PROVE IInv' BY <1>1, ExecDirectStep
<1>2. ASSUME NEW op \in PreparedOps, ExecPrepared(op) PROVE IInv' BY <1>2, ExecPreparedStep
<1>3. CASE Catalog BY <1>3, CatalogStep
<1>4. ASSUME NEW h \in Handles, NEW hold \in BOOLEAN, OpenCursor(h, hold) PROVE IInv'
  BY <1>4, OpenCursorStep
<1>5. ASSUME NEW op \in {"commit", "rollback"}, EndTran(op) PROVE IInv' BY <1>5, EndTranStep
<1>6. CASE SetAutocommit BY <1>6, SetAutocommitStep
<1>7. CASE FreePrepared BY <1>7, FreePreparedStep
<1>8. CASE Reconnect BY <1>8, ReconnectStep
<1>9. ASSUME NEW h \in Handles, CloseCursor(h) PROVE IInv' BY <1>9, CloseCursorStep
<1> QED BY <1>1, <1>2, <1>3, <1>4, <1>5, <1>6, <1>7, <1>8, <1>9 DEF Application
LEMMA DriverStep ==
  ASSUME IInv, Driver
  PROVE  IInv'
<1>1. CASE SendQuery BY <1>1, SendQueryStep
<1>2. CASE WireOk BY <1>2, WireOkStep
<1>3. CASE WireError BY <1>3, WireErrorStep
<1>4. CASE WireLost BY <1>4, WireLostStep
<1>5. CASE WireDone BY <1>5, WireDoneStep
<1>6. CASE QueryRollback BY <1>6, QueryRollbackStep
<1>7. CASE UpdateStatus BY <1>7, UpdateStatusStep
<1>8. CASE ReturnResult BY <1>8, ReturnResultStep
<1>9. CASE ClearCursor BY <1>9, ClearCursorStep
<1>10. CASE Moved BY <1>10, MovedStep
<1>11. CASE DiscardAll BY <1>11, DiscardAllStep
<1>12. CASE DiscardOne BY <1>12, DiscardOneStep
<1>13. CASE DiscardFree BY <1>13, DiscardFreeStep
<1>14. CASE OnCommitEnd BY <1>14, OnCommitEndStep
<1>15. CASE CloseResult BY <1>15, CloseResultStep
<1>16. CASE Closed BY <1>16, ClosedStep
<1>17. CASE Begin BY <1>17, BeginStep
<1>18. CASE Commit BY <1>18, CommitStep
<1>19. CASE CloseEof BY <1>19, CloseEofStep
<1>20. CASE CommitSend BY <1>20, CommitSendStep
<1>21. CASE Abort BY <1>21, AbortStep
<1>22. CASE Opened BY <1>22, OpenedStep
<1>23. CASE RequestStart BY <1>23, RequestStartStep
<1>24. CASE SvpSent BY <1>24, SvpSentStep
<1>25. CASE ExecExtOk BY <1>25, ExecExtOkStep
<1>26. CASE ExecExtError BY <1>26, ExecExtErrorStep
<1>27. CASE ExecExtLost BY <1>27, ExecExtLostStep
<1>28. CASE FinishExec BY <1>28, FinishExecStep
<1>29. CASE EndStatement BY <1>29, EndStatementStep
<1>30. CASE StatementRollback BY <1>30, StatementRollbackStep
<1>31. CASE CleanStatement BY <1>31, CleanStatementStep
<1>32. CASE EndTransact BY <1>32, EndTransactStep
<1>33. CASE FlipAutocommit BY <1>33, FlipAutocommitStep
<1> QED BY <1>1, <1>2, <1>3, <1>4, <1>5, <1>6, <1>7, <1>8, <1>9, <1>10, <1>11, <1>12, <1>13, <1>14, <1>15,
     <1>16, <1>17, <1>18, <1>19, <1>20, <1>21, <1>22, <1>23, <1>24, <1>25, <1>26, <1>27, <1>28,
     <1>29, <1>30, <1>31, <1>32, <1>33 DEF Driver
LEMMA NoStep ==
  ASSUME IInv, UNCHANGED vars
  PROVE  IInv'
<1>1. /\ conn' = conn /\ srv' = srv /\ curs' = curs /\ discardp' = discardp /\ todo' = todo
      /\ ret' = ret /\ last' = last
  BY DEF vars
<1>2. /\ H' = H /\ Rest' = Rest /\ (\A t : Top(t)' <=> Top(t)) /\ (\A t : Has(t)' <=> Has(t))
      /\ (\A t : In(t)' <=> In(t)) /\ (\A T : Only(T)' <=> Only(T))
      /\ (OnQuery' <=> OnQuery) /\ (Unsettled' <=> Unsettled) /\ (NewTrans' <=> NewTrans)
      /\ (Busy' <=> Busy) /\ Base' = Base /\ (InUse' <=> InUse) /\ (Matches' <=> Matches)
      /\ (Mirrors' <=> Mirrors)
  <2>1. H' = H /\ Rest' = Rest BY <1>1 DEF H, Rest
  <2>2. (\A t : Top(t)' <=> Top(t)) /\ (\A t : Has(t)' <=> Has(t)) BY <1>1 DEF Top, Has
  <2>3. (\A t : In(t)' <=> In(t)) /\ (\A T : Only(T)' <=> Only(T)) BY <2>1 DEF In, Only
  <2>4. (OnQuery' <=> OnQuery) /\ (Unsettled' <=> Unsettled) BY <2>1, <2>2 DEF OnQuery, Unsettled
  <2>5. NewTrans' <=> NewTrans BY <1>1 DEF NewTrans
  <2>6. (Busy' <=> Busy) /\ Base' = Base BY <1>1, <2>4 DEF Busy, Base
  <2>7. (InUse' <=> InUse) /\ (Matches' <=> Matches) BY <1>1 DEF InUse, Matches
  <2>8. Mirrors' <=> Mirrors BY <1>1, <2>7 DEF Mirrors
  <2> QED BY <2>1, <2>2, <2>3, <2>4, <2>5, <2>6, <2>7, <2>8
<1>3. BaseInv'
  <2>1. TypeOK' <=> TypeOK BY <1>1 DEF TypeOK
  <2>2. StackInv' <=> StackInv BY <1>1, <1>2 DEF StackInv
  <2>3. Gone' <=> Gone BY <1>1 DEF Gone
  <2> QED BY <2>1, <2>2, <2>3 DEF IInv, BaseInv
<1>4. /\ \A c : (Pending(c)' <=> Pending(c)) /\ (Quick(c)' <=> Quick(c)) /\ (Maybe(c)' <=> Maybe(c))
                /\ (Sure(c)' <=> Sure(c))
      /\ \A h : (Closing(h)' <=> Closing(h)) /\ (Opening(h)' <=> Opening(h))
                /\ (Marked(h)' <=> Marked(h))
      /\ (ForStmt' <=> ForStmt) /\ (ForBegin' <=> ForBegin) /\ (ForEnd' <=> ForEnd)
      /\ (ForSvp' <=> ForSvp)
  <2>1. \A c : Sure(c)' <=> Sure(c) BY <1>1 DEF Sure
  <2>2. \A c : (Pending(c)' <=> Pending(c)) /\ (Quick(c)' <=> Quick(c)) BY <1>1, <1>2 DEF Pending, Quick
  <2>3. \A c : Maybe(c)' <=> Maybe(c) BY <1>1, <1>2, <2>1 DEF Maybe
  <2>4. \A h : (Closing(h)' <=> Closing(h)) /\ (Opening(h)' <=> Opening(h)) /\ (Marked(h)' <=> Marked(h))
    BY <1>1 DEF Closing, Opening, Marked
  <2>5. /\ (ForStmt' <=> ForStmt) /\ (ForBegin' <=> ForBegin) /\ (ForEnd' <=> ForEnd)
        /\ (ForSvp' <=> ForSvp)
    BY <1>2 DEF ForStmt, ForBegin, ForEnd, ForSvp
  <2> QED BY <2>1, <2>2, <2>3, <2>4, <2>5
<1>5. /\ \A q : (Body(q)' <=> Body(q)) /\ (Inside(q)' <=> Inside(q)) /\ (SvpQuery(q)' <=> SvpQuery(q))
  <2>1. ASSUME NEW q PROVE Body(q)' <=> Body(q)
    <3>1. \A op : IsOp(q, op)' <=> IsOp(q, op) BY <1>1, <1>2 DEF IsOp
    <3>2. \A h, hold : IsOpen(q, h, hold)' <=> IsOpen(q, h, hold) BY <1>1, <1>2 DEF IsOpen
    <3> QED BY <3>1, <3>2 DEF Body
  <2>2. \A q : Inside(q)' <=> Inside(q) BY <1>1 DEF Inside
  <2>3. \A q : After(q)' <=> After(q) BY <1>4, <2>1 DEF After
  <2>4. \A q : SvpQuery(q)' <=> SvpQuery(q) BY <2>3 DEF SvpQuery
  <2> QED BY <2>1, <2>2, <2>4
<1>6. ASSUME conn.alive PROVE LiveInv'
  <2>1. StatusInv' /\ SvpInv' /\ LevelInv' BY <1>1, <1>2, <1>6, LiveParts DEF StatusInv, SvpInv, LevelInv
  <2>2. SendInv' <=> SendInv
    <3>1. (StmtSend' <=> StmtSend) /\ (BeginSend' <=> BeginSend) /\ (EndSend' <=> EndSend)
      BY <1>1, <1>2, <1>4, <1>5 DEF StmtSend, BeginSend, EndSend
    <3>2. SvpSend' <=> SvpSend BY <1>1, <1>2, <1>4 DEF SvpSend
    <3>3. QuickSend' <=> QuickSend BY <1>1, <1>2, <1>4 DEF QuickSend
    <3> QED BY <1>1, <1>2, <3>1, <3>2, <3>3 DEF SendInv
  <2>3. WireInv' <=> WireInv
    <3>1. (NoQuery' <=> NoQuery) /\ (Succeeded' <=> Succeeded) /\ (Failing' <=> Failing)
      BY <1>1, <1>2 DEF NoQuery, Succeeded, Failing
    <3>2. SoloWire' <=> SoloWire BY <1>1, <1>2, <1>4, <1>5, <3>1 DEF SoloWire
    <3>3. BeginWire' <=> BeginWire BY <1>1, <1>2, <1>4, <1>5 DEF BeginWire
    <3>4. QueryWire' <=> QueryWire BY <1>2, <1>4 DEF QueryWire
    <3>5. SvpWire' <=> SvpWire BY <1>1, <1>2, <1>5 DEF SvpWire
    <3> QED BY <1>1, <1>2, <3>1, <3>2, <3>3, <3>4, <3>5 DEF WireInv
  <2>4. TalkInv' BY <1>1, <1>2, <1>6, <2>2, <2>3, LiveParts DEF TalkInv
  <2>5. PermInv' /\ OpenInv' /\ PortInv'
    BY <1>1, <1>2, <1>4, <1>6, LiveParts DEF PermInv, OpenInv, PortInv
  <2>6. CloseInv' /\ IgnInv' BY <1>1, <1>2, <1>4, <1>6, LiveParts DEF CloseInv, IgnInv
  <2>7. OpeningInv'
    <3>1. Failed1' <=> Failed1 BY <1>1, <1>2 DEF Failed1
    <3> QED BY <1>1, <1>2, <1>4, <1>6, <3>1, LiveParts DEF OpeningInv
  <2>8. DiscInv' BY <1>1, <1>4, <1>6, LiveParts DEF DiscInv
  <2>9. RetInv' /\ ExtInv'
    <3>1. (Ending' <=> Ending) /\ (Beginning' <=> Beginning) BY <1>2 DEF Ending, Beginning
    <3> QED BY <1>1, <1>2, <1>6, <3>1, LiveParts DEF RetInv, ExtInv
  <2>10. Truthful(todo') BY <1>1, <1>6, LiveParts
  <2> QED BY <2>1, <2>4, <2>5, <2>6, <2>7, <2>8, <2>9, <2>10, LiveFrom
<1> QED BY <1>1, <1>3, <1>6 DEF IInv
--------------------
(* What the invariant says *)
\* No savepoint of the application is lost while a transaction goes on.
KeepsUser(s, t) == s.st = "IDLE" \/ t.st = "IDLE" \/ Indices(s, "user") \subseteq Indices(t, "user")
LEMMA CursorKeeps ==
  ASSUME NEW s \in Servers, NEW c \in Cmds, c.op \in {"declare", "fetch", "close", "move"},
         NEW r \in Replies(s, c)
  PROVE  r.srv.svps = s.svps
<1>1. Failed(s).srv.svps = s.svps BY FailedIs DEF FailedTrans
<1>2. \A x, tag : Reply(x, tag).srv = x BY ReplyIs
<1>3. \A h, p : WithPort(s, h, p).svps = s.svps BY ServerFields DEF WithPort
<1>4. CASE s.st = "INERROR" BY <1>1, <1>4 DEF Replies
<1>5. CASE s.st # "INERROR"
  <2>1. r \in CursorReplies(s, c) BY <1>5 DEF Replies, PlainReplies
  <2>2. CASE c.op = "declare" BY <1>1, <1>2, <1>3, <2>1, <2>2 DEF CursorReplies
  <2>3. CASE c.op = "close" BY <1>1, <1>2, <1>3, <2>1, <2>3 DEF CursorReplies
  <2>4. CASE c.op \in {"fetch", "move"} BY <1>1, <1>2, <2>1, <2>4 DEF CursorReplies
  <2> QED BY <2>2, <2>3, <2>4
<1> QED BY <1>4, <1>5
LEMMA ReplyKeeps ==
  ASSUME NEW s \in Servers, NEW c \in Cmds, c.op \notin {"release", "rollback_to"},
         NEW r \in Replies(s, c)
  PROVE  KeepsUser(s, r.srv)
<1>1. r.srv.svps = s.svps => Indices(s, "user") \subseteq Indices(r.srv, "user") BY DEF Indices
<1>2. FailedTrans(s, r.srv) \/ SameTrans(s, r.srv) => r.srv.svps = s.svps BY DEF FailedTrans, SameTrans
<1>3. CASE c.op \in {"declare", "fetch", "close", "move"} BY <1>1, <1>3, CursorKeeps DEF KeepsUser
<1>4. CASE c.op \in {"begin", "start"}
  <2>1. r.srv.svps = s.svps BY <1>2, <1>4, BeginReply
  <2> QED BY <1>1, <2>1 DEF KeepsUser
<1>5. CASE c.op \in {"write", "read", "special"}
  <2>1. r.srv.svps = s.svps BY <1>2, <1>5, PlainReply
  <2> QED BY <1>1, <2>1 DEF KeepsUser
<1>6. CASE c.op = "deallocate"
  <2>1. r.srv.svps = s.svps BY <1>2, <1>6, DeallocateReply
  <2> QED BY <1>1, <2>1 DEF KeepsUser
<1>7. CASE c.op \in {"commit", "rollback"}
  <2>1. s.st = "IDLE" \/ r.srv = TransEnds(s, TRUE) \/ r.srv = TransEnds(s, FALSE) BY <1>7, EndReply
  <2>2. \A b : TransEnds(s, b).st = "IDLE" BY ServerFields DEF TransEnds
  <2> QED BY <2>1, <2>2 DEF KeepsUser
<1>8. CASE c.op = "savepoint"
  <2>1. \/ FailedTrans(s, r.srv)
        \/ /\ Len(r.srv.svps) = Len(s.svps) + 1
           /\ \A j \in 1..Len(s.svps) : r.srv.svps[j] = s.svps[j]
    BY <1>8, SavepointReply
  <2>2. Len(s.svps) \in Nat BY ServerFields
  <2>3. CASE FailedTrans(s, r.srv) BY <1>1, <1>2, <2>3 DEF KeepsUser
  <2>4. CASE ~FailedTrans(s, r.srv) BY <2>1, <2>2, <2>4 DEF KeepsUser, Indices
  <2> QED BY <2>3, <2>4
<1>9. c.op \in {"begin", "start", "commit", "rollback", "savepoint", "write", "read", "special",
                "declare", "fetch", "close", "move", "deallocate"}
  BY CmdFields DEF CmdNames, Kinds
<1> QED BY <1>3, <1>4, <1>5, <1>6, <1>7, <1>8, <1>9
\* The savepoint on top is one of the driver.
LEMMA TopKeeps ==
  ASSUME NEW s \in Servers, Len(s.svps) > 0, s.svps[Len(s.svps)].name # "user"
  PROVE  KeepsUser(s, Released(s, Len(s.svps))) /\ KeepsUser(s, RolledBackTo(s, Len(s.svps)))
<1>1. PICK n \in 1..Len(s.svps) : n = Len(s.svps) BY ServerFields
<1>2. n \in Nat BY <1>1, ServerFields
<1>3. Len(Released(s, n).svps) = n - 1 /\ \A j \in 1..(n - 1) : Released(s, n).svps[j] = s.svps[j]
  BY <1>1, ReleasedTo
<1>4. Len(RolledBackTo(s, n).svps) = n /\ \A j \in 1..n : RolledBackTo(s, n).svps[j] = s.svps[j]
  BY <1>1, RolledBack
<1>5. PICK a, b : a = Released(s, n) /\ b = RolledBackTo(s, n) OBVIOUS
<1>6. \A i \in Indices(s, "user") : i \in 1..n /\ i # n /\ s.svps[i].name = "user" BY <1>1 DEF Indices
<1>7. Indices(s, "user") \subseteq Indices(a, "user") BY <1>2, <1>3, <1>5, <1>6 DEF Indices
<1>8. Indices(s, "user") \subseteq Indices(b, "user") BY <1>2, <1>4, <1>5, <1>6 DEF Indices
<1> QED BY <1>1, <1>5, <1>7, <1>8 DEF KeepsUser
LEMMA WireKeeps ==
  ASSUME IInv, conn.alive, Top("wire"), H.q # << >>, last.op \notin {"release", "rollback_to"},
         NEW r \in Replies(srv, Head(H.q))
  PROVE  KeepsUser(srv, r.srv)
<1>1. PICK c : c = Head(H.q) OBVIOUS
<1>2. c \in Cmds /\ srv \in Servers
  <2>1. Sound(todo) /\ todo # << >> /\ srv \in Servers BY TypesOf DEF Top
  <2> QED BY <1>1, <2>1, WireHead
<1>3. CASE c.op \notin {"release", "rollback_to"} BY <1>1, <1>2, <1>3, ReplyKeeps
<1>4. CASE c.op \in {"release", "rollback_to"}
  <2>1. \A q, d : One(q, d) /\ q = H.q => c = d BY <1>1 DEF One
  <2>2. /\ Cmd("begin").op = "begin" /\ Cmd("commit").op = "commit"
        /\ Cmd("rollback").op = "rollback" /\ Cmd("deallocate").op = "deallocate"
    BY CmdType DEF CmdNames, Kinds
  <2>3. ~Quick(c) /\ c # Cmd("begin") /\ ~IsEnd(H.q) /\ \A h : c # Fetch(h)
    BY <1>1, <1>4, <2>2 DEF Quick, CloseIt, CursCmd, Cmd, Fetch, IsEnd, One
  <2>4. SvpCmd("savepoint", "query").op = "savepoint" /\ SvpCmd("savepoint", "exec").op = "savepoint"
    BY SvpCmdType DEF CmdNames, Kinds, Svps
  <2>5. ~Body(H.q)
    <3>1. \A op \in Kinds : ~IsOp(H.q, op)
      <4> SUFFICES ASSUME NEW op \in Kinds, IsOp(H.q, op) PROVE FALSE OBVIOUS
      <4>1. c = Cmd(op) /\ (last.op = op \/ op = "read") BY <2>1 DEF IsOp
      <4>2. Cmd(op).op = op BY CmdType DEF CmdNames
      <4> QED BY <1>4, <4>1, <4>2
    <3>2. \A h \in Handles, hold \in BOOLEAN : ~IsOpen(H.q, h, hold)
      BY <1>1, <1>4, DeclareType DEF IsOpen, Two
    <3> QED BY <3>1, <3>2 DEF Body
  <2>6. "failed" \notin H.f /\ WireInv BY WireHead, LiveParts DEF TalkInv
  <2>7. CASE conn.op # "none"
    <3>1. SvpWire BY <2>6, <2>7 DEF WireInv
    <3>2. SvpOn BY <3>1 DEF SvpOn
    <3>3. conn.svp BY <1>1, <1>4, <2>4, <3>1 DEF SvpWire, SvpQuery
    <3>4. r.srv = Released(srv, Len(srv.svps)) /\ Len(srv.svps) > 0 BY <3>2, <3>3, SvpReply
    <3>5. srv.svps[Len(srv.svps)].name = "exec" BY <3>2, <3>3, SvpFacts, LiveParts DEF SvpInv
    <3> QED BY <1>2, <3>4, <3>5, TopKeeps
  <2>8. CASE conn.op = "none"
    <3>1. SoloWire \/ BeginWire \/ QueryWire BY <2>6, <2>8 DEF WireInv
    <3>2. ~SoloWire BY <2>1, <2>3, <2>5 DEF SoloWire
    <3>3. ~BeginWire BY <1>1, <2>3 DEF BeginWire
    <3>4. /\ InUse /\ {"query_rollback", "ignore_abort"} \subseteq H.f
          /\ "discard_release" \in H.f /\ "discard_svp" \notin H.f
          /\ One(H.q, SvpCmd("release", "query")) /\ ~ForStmt
      <4>1. QueryWire BY <3>1, <3>2, <3>3
      <4>2. \A d : ~(Two(H.q, d, SvpCmd("release", "query")) /\ Quick(d)) BY <1>1, <2>3 DEF Two
      <4>3. Head(H.q) # SvpCmd("savepoint", "query") BY <1>1, <1>4, <2>4
      <4> QED BY <4>1, <4>2, <4>3 DEF QueryWire
    <3>5. QueryOn /\ QueryLast BY <2>8, <3>4 DEF QueryOn, QueryLast
    <3>6. /\ r.srv = Released(srv, Len(srv.svps)) /\ Len(srv.svps) > 0
          /\ Base = Len(srv.svps) - 1 /\ OnQuery
      BY <3>5, QueryReply
    <3>7. srv.svps[Len(srv.svps)].name = "query"
      <4>1. srv.svps[Base + 1].name = "query" BY <3>6, LiveParts DEF SvpInv
      <4>2. Base + 1 = Len(srv.svps) BY <1>2, <3>6, ServerFields
      <4> QED BY <4>1, <4>2
    <3> QED BY <1>2, <3>6, <3>7, TopKeeps
  <2> QED BY <2>7, <2>8
<1> QED BY <1>3, <1>4
\* A step of the driver keeps them while the session is in a transaction.
LEMMA DriverKeeps ==
  ASSUME IInv, Driver, last.op \notin {"release", "rollback_to"}, conn.alive
  PROVE  srv' = srv \/ KeepsUser(srv, srv')
<1>1. srv \in Servers BY TypesOf
<1>2. CASE WireOk \/ WireError
  <2>1. Top("wire") /\ H.q # << >> /\ \E r \in Replies(srv, Head(H.q)) : srv' = r.srv
    BY <1>2 DEF WireOk, WireError, H
  <2> QED BY <2>1, WireKeeps
<1>3. CASE WireLost \/ ExecExtLost BY <1>3, FreshServer DEF WireLost, ExecExtLost, KeepsUser
<1>4. CASE ExecExtOk \/ ExecExtError
  <2>1. Top("exec_ext") /\ \E r \in Replies(srv, Head(H.q)) : srv' = r.srv
    BY <1>4 DEF ExecExtOk, ExecExtError, H
  <2>2. H \in All(todo) /\ H.t = "exec_ext" BY <2>1, StackFacts, TypesOf DEF Top, H
  <2>3. last.op \in Kinds /\ One(H.q, Cmd(last.op)) BY <2>2, LiveParts DEF ExtInv
  <2>4. Cmd(last.op) \in Cmds /\ Cmd(last.op).op = last.op BY <2>3, CmdType DEF CmdNames
  <2>5. Head(H.q) = Cmd(last.op) BY <2>3 DEF One
  <2>6. PICK c : c = Head(H.q) OBVIOUS
  <2>7. c \in Cmds /\ c.op \notin {"release", "rollback_to"} BY <2>4, <2>5, <2>6
  <2>8. \E r \in Replies(srv, c) : srv' = r.srv BY <2>1, <2>6
  <2> QED BY <1>1, <2>7, <2>8, ReplyKeeps
<1>5. CASE QueryRollback
  <2>1. PICK t : t = Released(RolledBackTo(srv, Len(srv.svps)), Len(srv.svps)) OBVIOUS
  <2>2. /\ Indices(srv, "query") # {} /\ Latest(srv, "query") = Len(srv.svps)
        /\ Indices(t, "user") = Indices(srv, "user")
    BY <1>5, <2>1, QuerySavepoint DEF QueryRollback
  <2>3. CASE srv.st = "IDLE" BY <2>3 DEF KeepsUser
  <2>4. CASE srv.st # "IDLE"
    <3>1. srv' = t BY <1>5, <2>1, <2>2, <2>4 DEF QueryRollback
    <3> QED BY <2>2, <3>1 DEF KeepsUser
  <2> QED BY <2>3, <2>4
<1>6. CASE StatementRollback
  <2>1. Top("stmt_rollback") /\ conn.svp BY <1>6, LiveParts DEF StatementRollback, SvpInv
  <2>2. CASE srv.st = "IDLE" BY <2>2 DEF KeepsUser
  <2>3. CASE srv.st # "IDLE"
    <3>1. ~OnQuery BY <2>1 DEF OnQuery, Top
    <3>2. Len(srv.svps) > 0 /\ srv.svps[Len(srv.svps)].name = "exec"
      BY <2>1, <2>3, <3>1, LiveParts DEF SvpInv, Base
    <3>3. Latest(srv, "exec") = Len(srv.svps) /\ Indices(srv, "exec") # {} BY <1>1, <3>2, LatestIsLast
    <3>4. SvpCmd("rollback_to", "exec") \in Cmds /\ SvpCmd("rollback_to", "exec").op = "rollback_to"
          /\ SvpCmd("rollback_to", "exec").svp = "exec"
      BY SvpCmdType DEF CmdNames, Kinds, Svps
    <3>5. srv' = srv \/ \E r \in Replies(srv, SvpCmd("rollback_to", "exec")) : srv' = r.srv
      BY <1>6, <2>1 DEF StatementRollback
    <3>6. PICK c : c = SvpCmd("rollback_to", "exec") OBVIOUS
    <3>7. ASSUME NEW r \in Replies(srv, c), srv' = r.srv
          PROVE  KeepsUser(srv, srv')
      <4>1. r.srv = RolledBackTo(srv, Len(srv.svps))
        BY <1>1, <2>3, <3>3, <3>4, <3>6, <3>7, RollbackToReply
      <4> QED BY <1>1, <3>2, <3>7, <4>1, TopKeeps
    <3> QED BY <3>5, <3>6, <3>7
  <2> QED BY <2>2, <2>3
<1>7. CASE SendQuery \/ WireDone \/ UpdateStatus \/ ReturnResult
  BY <1>7 DEF SendQuery, WireDone, UpdateStatus, ReturnResult
<1>8. CASE ClearCursor \/ Moved \/ DiscardAll \/ DiscardOne \/ DiscardFree \/ OnCommitEnd
  BY <1>8 DEF ClearCursor, Moved, DiscardAll, DiscardOne, DiscardFree, OnCommitEnd
<1>9. CASE CloseResult \/ Closed \/ Begin \/ Commit \/ CloseEof \/ CommitSend \/ Abort
  BY <1>9 DEF CloseResult, Closed, Begin, Commit, CloseEof, CommitSend, Abort
<1>10. CASE Opened \/ RequestStart \/ SvpSent \/ FinishExec \/ EndStatement \/ CleanStatement
            \/ EndTransact \/ FlipAutocommit
  BY <1>10 DEF Opened, RequestStart, SvpSent, FinishExec, EndStatement, CleanStatement, EndTransact,
    FlipAutocommit
<1> QED BY <1>2, <1>3, <1>4, <1>5, <1>6, <1>7, <1>8, <1>9, <1>10 DEF Driver
\* A call of the application does not reach the server.
LEMMA ApplicationKeeps ==
  ASSUME Application
  PROVE  srv' = srv \/ srv'.st = "IDLE"
<1>1. CASE Reconnect BY <1>1, FreshServer DEF Reconnect
<1>2. ASSUME NEW op, ExecDirect(op) \/ ExecPrepared(op) \/ EndTran(op) PROVE srv' = srv
  BY <1>2 DEF ExecDirect, ExecPrepared, EndTran
<1>3. ASSUME NEW h, NEW hold, OpenCursor(h, hold) \/ CloseCursor(h) PROVE srv' = srv
  BY <1>3 DEF OpenCursor, CloseCursor
<1>4. CASE Catalog \/ SetAutocommit \/ FreePrepared BY <1>4 DEF Catalog, SetAutocommit, FreePrepared
<1> QED BY <1>1, <1>2, <1>3, <1>4 DEF Application
\* Nothing but a command of the application ends a savepoint of its own.
LEMMA StepKeeps ==
  ASSUME IInv, IInv', [Next]_vars
  PROVE  srv.st # "IDLE" /\ srv'.st # "IDLE" /\ UserSvps(srv') < UserSvps(srv) =>
            last.op \in {"release", "rollback_to"}
<1> SUFFICES ASSUME srv.st # "IDLE", srv'.st # "IDLE", last.op \notin {"release", "rollback_to"}
             PROVE  ~(UserSvps(srv') < UserSvps(srv))
  OBVIOUS
<1>1. srv \in Servers /\ srv' \in Servers BY TypesOf DEF IInv, BaseInv, TypeOK
<1>2. conn.alive BY TypesOf DEF Gone
<1>3. srv' = srv \/ KeepsUser(srv, srv') BY <1>2, DriverKeeps, ApplicationKeeps DEF Next, vars
<1>4. Indices(srv, "user") \subseteq Indices(srv', "user") BY <1>3 DEF KeepsUser
<1>5. PICK A, B : A = Indices(srv, "user") /\ B = Indices(srv', "user") OBVIOUS
<1>6. IsFiniteSet(B)
  <2>1. Len(srv'.svps) \in Nat BY <1>1, ServerFields
  <2>2. IsFiniteSet(1..Len(srv'.svps)) BY <2>1, FS_Interval
  <2> QED BY <1>5, <2>2, FS_Subset DEF Indices
<1>7. IsFiniteSet(A) /\ Cardinality(A) <= Cardinality(B) BY <1>4, <1>5, <1>6, FS_Subset
<1>8. Cardinality(A) \in Nat /\ Cardinality(B) \in Nat BY <1>6, <1>7, FS_CardinalityType
<1> QED BY <1>5, <1>7, <1>8 DEF UserSvps
(* The theorems *)

\* The invariant of a connection: what the call stack, the queries under way and
\* the discard list say of the driver's copy of the status
\* (LIBPQ_update_transaction_status), of its savepoints (CC_send_query_append,
\* GenerateSvpCommand) and of its cursors (CC_on_commit, CC_on_abort, QR_close).
THEOREM Invariant ==
  ASSUME Prudent
  PROVE  Spec => []IInv
<1>1. Init => IInv BY InitInv
<1>2. IInv /\ [Next]_vars => IInv'
  <2> SUFFICES ASSUME IInv, [Next]_vars PROVE IInv' OBVIOUS
  <2>1. CASE Application BY <2>1, ApplicationStep
  <2>2. CASE Driver BY <2>2, DriverStep
  <2>3. CASE UNCHANGED vars BY <2>3, NoStep
  <2> QED BY <2>1, <2>2, <2>3 DEF Next
<1> QED BY <1>1, <1>2, PTL DEF Spec
\* The types: what CC_send_query and the functions it calls leave in the
\* connection, the cursors, the discard list and the call stack.
THEOREM ConnTransTypes ==
  ASSUME Prudent
  PROVE  Spec => []TypeOK
<1>1. IInv => TypeOK BY TypesOf
<1> QED BY <1>1, Invariant, PTL
\* The command that is next is a write only inside a transaction.
LEMMA ManualHolds == IInv => ManualMeansTrans
<1> SUFFICES ASSUME IInv, NextCmd = "write", conn.alive, ~conn.auto PROVE srv.st # "IDLE"
  BY DEF ManualMeansTrans
<1>1. /\ todo # << >> /\ H.t \in {"wire", "exec_ext"} /\ H.q # << >> /\ Head(H.q).op = "write"
  BY DEF NextCmd, H
<1>2. CASE H.t = "exec_ext"
  <2>1. H \in All(todo) BY <1>1, StackFacts, TypesOf
  <2>2. /\ last.op \in Kinds /\ One(H.q, Cmd(last.op))
        /\ last.op # "special" => srv.st # "IDLE" \/ Beginning
    BY <1>2, <2>1, LiveParts DEF ExtInv
  <2>3. last.op = "write"
    <3>1. Head(H.q) = Cmd(last.op) /\ Cmd(last.op).op = last.op BY <2>2, CmdType DEF One, CmdNames
    <3> QED BY <1>1, <3>1
  <2>4. ~Beginning BY <1>2 DEF Beginning, Top, H
  <2> QED BY <2>2, <2>3, <2>4
<1>3. CASE H.t = "wire"
  <2>1. Top("wire") BY <1>1, <1>3 DEF Top, H
  <2>2. WireInv /\ "failed" \notin H.f BY <1>1, <2>1, LiveParts, WireHead DEF TalkInv
  <2>3. /\ Cmd("begin").op = "begin" /\ Cmd("commit").op = "commit"
        /\ Cmd("rollback").op = "rollback" /\ Cmd("deallocate").op = "deallocate"
    BY CmdType DEF CmdNames, Kinds
  <2>4. \A d : One(H.q, d) => d.op = "write" BY <1>1 DEF One
  <2>5. CASE conn.op # "none" BY <1>1, <2>1, <2>2, <2>5 DEF WireInv, SvpWire, InUse
  <2>6. CASE conn.op = "none"
    <3>1. SoloWire \/ BeginWire \/ QueryWire BY <1>1, <2>1, <2>2, <2>6 DEF WireInv
    <3>2. CASE SoloWire
      <4>1. \A d : Quick(d) => d.op # "write" BY <2>3 DEF Quick, CloseIt, CursCmd, Cmd
      <4>2. \A h : Fetch(h).op # "write" BY DEF Fetch, CursCmd, Cmd
      <4>3. ~IsEnd(H.q) /\ ~One(H.q, Cmd("begin")) BY <2>3, <2>4 DEF IsEnd
      <4>4. Inside(H.q) \/ InUse BY <2>4, <3>2, <4>1, <4>2, <4>3 DEF SoloWire
      <4> QED BY <1>1, <4>4 DEF Inside, InUse
    <3>3. ~BeginWire BY <1>1, <2>3 DEF BeginWire
    <3>4. CASE QueryWire BY <3>4 DEF QueryWire, InUse
    <3> QED BY <3>1, <3>2, <3>3, <3>4
  <2> QED BY <2>5, <2>6
<1> QED BY <1>1, <1>2, <1>3
\* With autocommit off no write of the application is sent outside a transaction,
\* whatever the queries of the driver do in between: SC_execute (1842-1849) and
\* RequestStart see to the BEGIN, and the copy of the status they go by is right.
THEOREM ManualTrans ==
  ASSUME Prudent
  PROVE  Spec => []ManualMeansTrans
BY Invariant, ManualHolds, PTL
\* What the invariant says of the cursors once the call stack is empty.
LEMMA AgreeHolds == IInv => CursorsAgree
<1> SUFFICES ASSUME IInv, Quiet, conn.alive, NEW h \in Handles
             PROVE  /\ curs[h].open /\ ~curs[h].doubt => srv.port[h].st # "none"
                    /\ srv.st = "IDLE" /\ srv.port[h].st # "none" => curs[h].open
  BY DEF CursorsAgree
<1>1. /\ curs[h].open /\ curs[h].perm => srv.port[h].st = "held"
      /\ curs[h].open /\ ~curs[h].perm =>
            srv.port[h].st = "trans" \/ curs[h].doubt
      /\ srv.port[h].st # "none" /\ ~curs[h].open => srv.port[h].st = "trans" \/ Marked(h)
      /\ srv.port[h].st = "trans" => srv.st # "IDLE"
      /\ discardp # << >> => conn.err
      /\ Mirrors
  BY QuietLive
<1>2. Marked(h) => srv.st # "IDLE"
  <2>1. Marked(h) => discardp # << >> BY DEF Marked
  <2> QED BY <1>1, <2>1 DEF Mirrors
<1> QED BY <1>1, <1>2
\* Between two calls a cursor the driver holds without doubt exists on the server,
\* and outside a transaction no cursor is left there that no statement owns
\* (QR_close, CC_mark_cursors_doubtful, CC_discard_marked_objects).
THEOREM CursorsKnown ==
  ASSUME Prudent
  PROVE  Spec => []CursorsAgree
BY Invariant, AgreeHolds, PTL
\* The driver's SAVEPOINT, RELEASE and ROLLBACK TO, whether they protect a
\* statement or one of its own queries, never take a savepoint of the application
\* with them (connection.c:2797).
THEOREM SavepointsKept ==
  ASSUME Prudent
  PROVE  Spec => UserSavepointKept
<1>1. IInv /\ IInv' /\ [Next]_vars =>
        [srv.st # "IDLE" /\ srv'.st # "IDLE" /\ UserSvps(srv') < UserSvps(srv) =>
           last.op \in {"release", "rollback_to"}]_vars
  BY StepKeeps
<1> QED BY <1>1, Invariant, PTL DEF Spec, UserSavepointKept
=============================================================================
