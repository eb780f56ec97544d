-------------------------- MODULE ConnTrans_tasks --------------------------
(* The invariant of ConnTrans and the tasks of the driver, for any set of  *)
(* cursors, any calls of the application and any bounds on them.           *)
(*                                                                         *)
(* The invariant (IInv) has two halves. BaseInv holds with and without a   *)
(* session: the types, and the shape of the call stack, which task may lie *)
(* under which (Lower), and what a task needs under it (Under). LiveInv    *)
(* holds while the session lives: what the driver's copy of the status     *)
(* (StatusInv), its internal savepoint (SvpInv), the query under way       *)
(* (TalkInv) and its cursors (CursInv, OpenInv, DiscInv) say of the        *)
(* server's. In each, the copy may be behind the server only while a task  *)
(* that will bring it up to date is on the stack.                          *)
(*                                                                         *)
(* The order: the server (Replies), the operators on stacks, and one lemma *)
(* per action from the return of a result to the sending of a query. The   *)
(* commands of a query, the calls of the application and the theorems are  *)
(* in ConnTrans_proofs.                                                    *)
EXTENDS ConnTrans, SequenceTheorems, FiniteSetTheorems, WellFoundedInduction, TLAPS

\* The habits that break a property are not in Risky.
Prudent == Risky \subseteq {"catalog"}

(* The call stack. *)

All(s) == {s[i] : i \in 1..Len(s)}
H == Head(todo)
Rest == All(Tail(todo))
In(t) == \E k \in Rest : k.t = t
Has(t) == \E k \in All(todo) : k.t = t
Only(T) == \A k \in Rest : k.t \in T

Talk == {"send", "wire", "query_rollback", "update", "return"}
Discs == {"discard_all", "discard", "discard_free"}
Clears == {"clear", "moved"}
Chores == Discs \cup Clears \cup {"on_commit_end"}
Ends == {"exec_end", "stmt_end", "stmt_clean", "opened", "transact_end", "set_auto",
         "request_start", "exec_ext", "svp_sent", "close_eof", "commit_send", "closed"}

\* What may lie under a task, at any depth.
Lower(t) ==
  IF t \in Talk THEN Ends \cup Chores \cup {"update", "return"}
  ELSE IF t \in Clears THEN Ends \cup {"clear", "discard_all", "on_commit_end", "update", "return"}
  ELSE IF t \in Discs THEN Ends \cup {"on_commit_end", "update", "return"}
  ELSE IF t = "on_commit_end" THEN Ends \cup {"update", "return"}
  ELSE IF t = "begin" THEN {"request_start", "exec_ext", "exec_end", "stmt_end"}
  ELSE IF t \in {"request_start", "svp_sent"} THEN {"exec_ext", "exec_end", "stmt_end"}
  ELSE IF t = "exec_ext" THEN {"exec_end", "stmt_end"}
  ELSE IF t \in {"exec_end", "opened"} THEN {"stmt_end"}
  ELSE IF t = "stmt_rollback" THEN {"stmt_clean"}
  ELSE IF t = "abort" THEN {"stmt_clean", "transact_end"}
  ELSE IF t \in {"commit", "commit_send"} THEN {"transact_end", "set_auto"}
  ELSE IF t \in {"close_eof", "close", "closed"}
       THEN {"close_eof", "commit_send", "transact_end", "set_auto"}
  ELSE {}
Ordered(s) == \A i, j \in 1..Len(s) : i < j => s[j].t \in Lower(s[i].t)
\* What a query sent on the way to another result returns is success.
Truthful(s) == \A i, j \in 1..Len(s) :
                  i < j /\ s[i].t = "return" /\ s[j].t \in Chores \cup {"update", "return"}
                  => "ok" \in s[i].f
\* A result is returned once the status is up to date.
\* What the end of a query calls does not lead straight to the cursor it opens.
Answered(s) == \A i \in 1..Len(s) - 1 :
                  /\ s[i].t \in {"query_rollback", "update"}
                     => s[i + 1].t \in {"update", "return", "stmt_clean"}
                  /\ s[i].t \in {"clear", "moved", "discard_all", "discard", "discard_free",
                                 "on_commit_end"}
                     => s[i + 1].t # "opened"

HandleTasks == {"clear", "moved", "close", "closed", "close_eof", "opened"}
\* What a task needs under it.
Under(t) == IF t \in {"opened", "exec_end"} THEN {"stmt_end"}
            ELSE IF t = "exec_ext" THEN {"exec_end", "stmt_end"}
            ELSE IF t \in {"request_start", "svp_sent"} THEN {"exec_ext", "exec_end", "stmt_end"}
            ELSE IF t \in {"clear", "moved"} THEN {"on_commit_end"}
            ELSE IF t = "close_eof" THEN {"commit_send"}
            ELSE {}
StackInv ==
  /\ Ordered(todo) /\ Answered(todo)
  /\ \A k \in All(todo) : k.t \in HandleTasks => k.h \in Handles
  /\ conn.committing <=> Has("on_commit_end")
  /\ \A k \in All(todo) : \A t \in Under(k.t) : Has(t)

Busy == \E k \in All(todo) : k.t \in Chores

(* The transaction status. *)

Unsettled == Top("query_rollback") \/ Top("update") \/ (Top("wire") /\ H.q = << >>)
Matches == conn.inTrans <=> srv.st # "IDLE"
Mirrors == Matches /\ (conn.err <=> srv.st = "INERROR")
InUse == srv.st = "INTRANS"
NewTrans == \E k \in All(todo) : k.t = "exec_end" /\ "was_in" \notin k.f

Gone == ~conn.alive => /\ ~conn.inTrans /\ ~conn.err /\ ~conn.svp /\ ~conn.point
                       /\ conn.op = "none" /\ srv.st = "IDLE"
StatusInv ==
  /\ conn.err => conn.inTrans
  /\ ~Unsettled => Mirrors
  /\ conn.svp \/ conn.op # "none" \/ conn.manual => conn.inTrans
  /\ Has("closed") => Matches
  /\ Busy => ~conn.err /\ srv.st # "INERROR" /\ Matches
  /\ conn.committing => srv.st = "IDLE"
  /\ srv.st # "IDLE" /\ ~conn.manual => NewTrans

(* The queries. *)

One(q, c) == q # << >> /\ Head(q) = c /\ Tail(q) = << >>
Two(q, c, d) == q # << >> /\ Head(q) = c /\ One(Tail(q), d)
Declare(h, hold) == [CursCmd("declare", h) EXCEPT !.hold = hold]
Fetch(h) == CursCmd("fetch", h)
CloseIt(h) == CursCmd("close", h)
OpenedTask(h, hold) == [CallH("opened", h) EXCEPT !.f = IF hold THEN {"on"} ELSE {}]

\* The body of a statement.
IsOp(q, op) == /\ One(q, Cmd(op))
               /\ last.op = op \/ (op = "read" /\ last.op = "catalog")
               /\ op = "start" /\ srv.st = "IDLE" => NewTrans
               /\ op \in EndKinds => ~conn.point
IsOpen(q, h, hold) == /\ Two(q, Declare(h, hold), Fetch(h))
                      /\ last.op = "open" /\ ~curs[h].open /\ OpenedTask(h, hold) \in Rest
                      /\ hold => Indices(srv, "user") = {}
                      /\ ~(srv.port[h].st = "trans" /\ srv.port[h].hold)
Body(q) == \/ \E op \in Kinds : IsOp(q, op)
           \/ \E h \in Handles, hold \in BOOLEAN : IsOpen(q, h, hold)
\* one that runs in a transaction when it has to
Inside(q) == srv.st = "IDLE" => /\ Head(q).op # "declare"
                                /\ ~conn.auto => Head(q).op # "write"
ForStmt == Only({"exec_end", "opened", "stmt_end"}) /\ In("stmt_end")
ForBegin == Only({"request_start", "exec_ext", "exec_end", "stmt_end"})
ForEnd == Only({"stmt_clean", "transact_end", "set_auto"})
ForSvp == /\ Only({"svp_sent", "exec_ext", "exec_end", "stmt_end"})
          /\ In("svp_sent") /\ In("stmt_end")
IsEnd(q) == One(q, Cmd("commit")) \/ One(q, Cmd("rollback"))

\* A CLOSE, MOVE or DEALLOCATE and what it is sent for.
Quick(c) ==
  \/ c = Cmd("deallocate") /\ (Rest = {} \/ In("discard_free"))
  \/ \E k \in Rest : /\ k.t = "discard_free" /\ discardp[k.i].type = "p"
                     /\ c = CloseIt(discardp[k.i].h)
  \/ \E k \in Rest : k.t = "moved" /\ c = CursCmd("move", k.h)
  \/ \E k \in Rest : k.t = "closed" /\ c = CloseIt(k.h) /\ Only(Ends)
\* Only a cursor in doubt that would not outlive its transaction may have been lost.
Sure(c) == c.op = "deallocate" \/ srv.port[c.h].st # "none"
Maybe(c) == \/ Sure(c)
            \/ Only(Ends) /\ \E k \in Rest : /\ k.t = "closed" /\ k.h = c.h
                                                 /\ curs[k.h].doubt /\ ~curs[k.h].hold
\* The command that is still to be executed.
Pending(c) == \/ (Top("send") \/ Top("wire")) /\ H.q # << >> /\ Head(H.q) = c
              \/ Top("wire") /\ H.q # << >> /\ Tail(H.q) # << >> /\ Head(Tail(H.q)) = c

StmtSend ==
  /\ "stmt" \in H.f /\ H.f \cap {"rollback_on_error", "ignore_abort", "end_with_commit"} = {}
  /\ ForStmt /\ Body(H.q) /\ ~conn.point
  /\ IF "begin" \in H.f THEN ~conn.inTrans ELSE Inside(H.q)
BeginSend == H.f = {} /\ One(H.q, Cmd("begin")) /\ ~conn.inTrans /\ ForBegin
EndSend == H.f = {} /\ IsEnd(H.q) /\ ForEnd
SvpSend == /\ H.f = {} /\ H.q = InternalSavepoint(conn) /\ ForSvp /\ InUse
           /\ conn.op = "savepoint" /\ ~conn.point
QuickSend ==
  /\ H.f \subseteq {"rollback_on_error", "ignore_abort", "read_only"} /\ ~conn.err
  /\ \E c \in Cmds : /\ One(H.q, c) /\ Quick(c)
                     /\ IF {"rollback_on_error", "ignore_abort"} \subseteq H.f
                        THEN Maybe(c) ELSE "rollback_on_error" \notin H.f /\ Sure(c)
SendInv == Top("send") =>
  IF conn.op = "none" THEN StmtSend \/ BeginSend \/ EndSend \/ QuickSend ELSE SvpSend

NoQuery == H.f \cap {"query_rollback", "discard_svp", "discard_release"} = {}
SoloWire ==
  /\ NoQuery
  /\ \/ /\ "ignore_abort" \notin H.f
        /\ \/ ForStmt /\ Body(H.q) /\ Inside(H.q)
           \/ \E k \in Rest : /\ k.t = "opened" /\ ForStmt /\ One(H.q, Fetch(k.h))
                              /\ InUse /\ srv.port[k.h].st # "none"
           \/ One(H.q, Cmd("begin")) /\ ~conn.inTrans /\ ForBegin
           \/ IsEnd(H.q) /\ ForEnd
     \/ \E c \in Cmds : One(H.q, c) /\ Quick(c) /\ Sure(c) /\ ~conn.err
BeginWire == /\ H.f = {} /\ Head(H.q) = Cmd("begin") /\ Body(Tail(H.q))
             /\ ForStmt /\ ~conn.inTrans
QueryWire ==
  /\ InUse /\ {"query_rollback", "ignore_abort"} \subseteq H.f
  /\ \/ /\ "discard_svp" \in H.f /\ "discard_release" \notin H.f
        /\ Head(H.q) = SvpCmd("savepoint", "query")
        /\ \E c \in Cmds : Two(Tail(H.q), c, SvpCmd("release", "query")) /\ Quick(c) /\ Maybe(c)
     \/ /\ "discard_release" \in H.f /\ "discard_svp" \notin H.f
        /\ \/ \E c \in Cmds : Two(H.q, c, SvpCmd("release", "query")) /\ Quick(c) /\ Maybe(c)
           \/ One(H.q, SvpCmd("release", "query")) /\ ~ForStmt
After(q) == IF q = << >> THEN ForSvp ELSE ForStmt /\ Body(q) /\ Head(q).op \notin EndKinds
SvpQuery(q) == q # << >> /\ Head(q) = SvpCmd("savepoint", "exec") /\ After(Tail(q))
SvpWire ==
  /\ H.f = {} /\ InUse /\ conn.op = "savepoint" /\ ~conn.point
  /\ IF conn.svp THEN Head(H.q) = SvpCmd("release", "exec") /\ SvpQuery(Tail(H.q))
     ELSE SvpQuery(H.q)
Failing ==
  /\ Only(Ends) /\ ~In("svp_sent") /\ srv.st # "INTRANS"
  /\ srv.st = "INERROR" => conn.err
  /\ "query_rollback" \in H.f => /\ "discard_release" \in H.f /\ "discard_svp" \notin H.f
                                 /\ "ignore_abort" \in H.f
                                 /\ srv.st = "INERROR"
  /\ "query_rollback" \notin H.f => "discard_release" \notin H.f
  /\ "ignore_abort" \in H.f =>
       ~In("opened") /\ \A g \in Handles : ~(curs[g].open /\ curs[g].hold)
Succeeded ==
  /\ H.f \cap {"discard_svp", "discard_release"} = {}
  /\ "query_rollback" \in H.f => ~conn.err
WireInv == Top("wire") =>
  IF H.q = << >>
  THEN conn.op = "none" /\ (IF "failed" \in H.f THEN Failing ELSE Succeeded)
  ELSE /\ "failed" \notin H.f
       /\ IF conn.op = "none" THEN SoloWire \/ BeginWire \/ QueryWire ELSE SvpWire
TalkInv ==
  /\ SendInv /\ WireInv
  /\ Top("query_rollback") => srv.st = "INERROR" /\ conn.err /\ ~Busy /\ ~In("opened")
  /\ conn.op # "none" => Top("send") \/ Top("wire")

(* Savepoints and levels. *)
OnQuery == Top("query_rollback") \/ (Top("wire") /\ "discard_release" \in H.f)
Base == IF OnQuery THEN Len(srv.svps) - 1 ELSE Len(srv.svps)
SvpInv ==
  /\ OnQuery => Base >= 0 /\ srv.svps[Base + 1].name = "query" /\ srv.st # "IDLE"
  /\ conn.svp /\ srv.st # "IDLE" => Base > 0 /\ srv.svps[Base].name = "exec"
  /\ Top("stmt_rollback") => conn.svp /\ conn.point
  /\ conn.point => Has("stmt_end") \/ Has("stmt_clean")
LevelInv == \A h \in Handles : srv.port[h].st = "trans" =>
  /\ srv.st # "IDLE" /\ srv.port[h].lvl <= Base
  /\ srv.port[h].hold => \A i \in Indices(srv, "user") : srv.port[h].lvl < i
  /\ conn.point /\ curs[h].open /\ ~curs[h].perm =>
        srv.port[h].lvl < Base \/ (ret = "ok" /\ Top("stmt_end")) \/ Top("stmt_clean")

(* Cursors. *)
Closing(h) == \E k \in All(todo) : k.t = "closed" /\ k.h = h
Opening(h) == \E k \in All(todo) : k.t = "opened" /\ k.h = h
Marked(h) == \E j \in 1..Len(discardp) : discardp[j].type = "p" /\ discardp[j].h = h
PermInv == \A h \in Handles : curs[h].open /\ curs[h].perm =>
  curs[h].hold /\ (srv.port[h].st = "held" \/ Closing(h))
OpenInv == \A h \in Handles : curs[h].open /\ ~curs[h].perm =>
  IF srv.st # "IDLE"
  THEN \/ srv.port[h].st = "trans" /\ (srv.port[h].hold <=> curs[h].hold)
       \/ srv.port[h].st = "none" /\ ((curs[h].doubt /\ ~curs[h].hold) \/ Closing(h))
  ELSE /\ IF conn.committing THEN \E k \in All(todo) : k.t \in Clears /\ k.h = h
          ELSE Unsettled /\ conn.inTrans
       /\ srv.port[h].st = IF ~conn.err /\ curs[h].hold THEN "held" ELSE "none"
       /\ ~Closing(h)
PortInv == \A h \in Handles : srv.port[h].st # "none" /\ ~curs[h].open =>
  \/ srv.port[h].st = "trans" /\ (srv.port[h].hold => Opening(h))
  \/ srv.port[h].st = "held" /\ Marked(h)
CloseInv ==
  /\ \A k \in All(todo) : k.t = "closed" =>
        curs[k.h].open /\ (Pending(CloseIt(k.h)) \/ srv.port[k.h].st = "none")
  /\ \A k \in All(todo) : k.t = "moved" => curs[k.h].open /\ curs[k.h].hold /\ ~curs[k.h].perm
  /\ Top("close") /\ conn.err /\ curs[H.h].hold => curs[H.h].perm
  /\ Has("close_eof") => InUse /\ ~conn.err
  /\ Has("commit_send") => \A k \in All(todo) : k.t \in {"close", "closed"} =>
        InUse /\ ~conn.err /\ curs[k.h].hold
Failed1 == \/ Top("wire") /\ "failed" \in H.f
           \/ \E r \in All(todo) : r.t = "return" /\ "ok" \notin r.f
           \/ Top("opened") /\ ret = "error"
OpeningInv == \A k \in All(todo) : k.t = "opened" =>
  /\ ~curs[k.h].open /\ ("on" \in k.f => ~conn.ignored) /\ last.op = "open"
  /\ Failed1 => ~InUse
  /\ \/ /\ \/ ForStmt /\ (Top("send") \/ (Top("wire") /\ H.q # << >> /\ ~One(H.q, Fetch(k.h))))
           \/ Failed1
        /\ ~(srv.port[k.h].st = "trans" /\ srv.port[k.h].hold)
     \/ InUse /\ srv.port[k.h].st = "trans" /\ (srv.port[k.h].hold <=> "on" \in k.f)
CursInv == PermInv /\ OpenInv /\ PortInv /\ CloseInv /\ OpeningInv

(* Discards. *)
DiscInv ==
  /\ \A k \in All(todo) : k.t \in {"discard", "discard_free"} => k.i = Len(discardp) /\ k.i > 0
  /\ \A k \in All(todo) : k.t = "discard_free" /\ discardp[k.i].type = "p" =>
        Pending(CloseIt(discardp[k.i].h)) \/ srv.port[discardp[k.i].h].st = "none"
  /\ discardp # << >> => conn.err \/ \E k \in All(todo) : k.t \in Discs
  /\ \A j \in 1..Len(discardp) : discardp[j].type = "p" =>
        /\ discardp[j].h \in Handles /\ ~curs[discardp[j].h].open
        /\ \/ srv.port[discardp[j].h].st = "held"
           \/ /\ \E k \in All(todo) : k.t = "discard_free" /\ j = k.i
              /\ ~Pending(CloseIt(discardp[j].h))
        /\ \A i \in 1..Len(discardp) :
              i # j /\ discardp[i].type = "p" => discardp[i].h # discardp[j].h
IgnInv ==
  /\ conn.ignored => \A h \in Handles : ~(curs[h].open /\ curs[h].hold)
  /\ \A k \in All(todo) :
        k.t \in {"close", "closed"} /\ curs[k.h].open /\ curs[k.h].doubt /\ ~curs[k.h].hold =>
           \A g \in Handles : ~(curs[g].open /\ curs[g].hold)
(* Returns. *)
Ending == \/ Top("commit") \/ Has("commit_send") \/ Top("abort")
          \/ (Top("send") \/ Top("wire")) /\ IsEnd(H.q)
RetInv ==
  /\ Top("moved") => ret = "ok"
  /\ Has("transact_end") /\ ~Ending => srv.st = "IDLE"
  /\ Has("svp_sent") => /\ InUse /\ ~conn.err /\ ~Busy
                        /\ \A r \in All(todo) : r.t = "return" => "ok" \in r.f
                        /\ Top("svp_sent") => ret = "ok"
Beginning == \/ Top("begin")
             \/ (Top("send") \/ Top("wire")) /\ One(H.q, Cmd("begin"))
ExtInv == \A k \in All(todo) : k.t \in {"request_start", "exec_ext"} =>
  /\ last.op \in Kinds \ EndKinds /\ One(k.q, Cmd(last.op))
  /\ ~conn.auto /\ last.op # "special" => srv.st # "IDLE" \/ Beginning
LiveInv == /\ Truthful(todo) /\ StatusInv /\ TalkInv /\ SvpInv /\ LevelInv /\ CursInv
           /\ DiscInv /\ IgnInv /\ RetInv /\ ExtInv
BaseInv == TypeOK /\ StackInv /\ Gone
IInv == BaseInv /\ (conn.alive => LiveInv)
--------------------
(* Sequences *)

\* A task or a command put in front of a sequence.
LEMMA Cons ==
  ASSUME NEW S, NEW e \in S, NEW q \in Seq(S)
  PROVE  /\ <<e>> \o q \in Seq(S) /\ <<e>> \o q # << >>
         /\ Head(<<e>> \o q) = e /\ Tail(<<e>> \o q) = q
         /\ Len(<<e>> \o q) = Len(q) + 1
         /\ \A i \in 1..Len(q) + 1 : (<<e>> \o q)[i] = IF i = 1 THEN e ELSE q[i - 1]
<1>1. <<e>> \in Seq(S) /\ Len(<<e>>) = 1 OBVIOUS
<1>2. /\ <<e>> \o q \in Seq(S) /\ Len(<<e>> \o q) = 1 + Len(q)
      /\ \A i \in 1..(1 + Len(q)) : (<<e>> \o q)[i] = IF i <= 1 THEN <<e>>[i] ELSE q[i - 1]
  BY <1>1, ConcatProperties
<1>3. Tail(<<e>> \o q) = q
  <2> DEFINE s == <<e>> \o q
  <2>1. s # << >> /\ s \in Seq(S) BY <1>2
  <2>2. /\ Tail(s) \in Seq(S) /\ Len(Tail(s)) = Len(s) - 1
        /\ \A i \in 1..Len(Tail(s)) : Tail(s)[i] = s[i + 1]
    BY <2>1, HeadTailProperties
  <2>3. \A i \in 1..Len(q) : s[i + 1] = q[i] BY <1>2
  <2> HIDE DEF s
  <2>4. Len(Tail(s)) = Len(q) BY <1>2, <2>2 DEF s
  <2> QED BY <2>2, <2>3, <2>4, SeqEqual DEF s
<1>4. Len(q) \in Nat OBVIOUS
<1>5. Head(<<e>> \o q) = (<<e>> \o q)[1] BY <1>2, <1>4
<1> QED BY <1>1, <1>2, <1>3, <1>4, <1>5

LEMMA NoCat ==
  ASSUME NEW S, NEW q \in Seq(S)
  PROVE  << >> \o q = q /\ q \o << >> = q
BY ConcatEmptySeq

LEMMA Cat2 ==
  ASSUME NEW S, NEW a \in S, NEW b \in S, NEW q \in Seq(S)
  PROVE  <<a, b>> \o q = <<a>> \o (<<b>> \o q) /\ <<b>> \o q \in Seq(S)
<1>1. <<a>> \in Seq(S) /\ <<b>> \in Seq(S) /\ <<a, b>> \in Seq(S) OBVIOUS
<1>2. <<a, b>> = <<a>> \o <<b>>
  <2> DEFINE r == <<a>> \o <<b>>
  <2>1. /\ r \in Seq(S) /\ Len(r) = Len(<<b>>) + 1
        /\ \A i \in 1..Len(<<b>>) + 1 : r[i] = IF i = 1 THEN a ELSE <<b>>[i - 1]
    BY <1>1, Cons
  <2>2. Len(r) = 2 /\ r[1] = a /\ r[2] = b
    <3> HIDE DEF r
    <3> QED BY <2>1
  <2>3. \A i \in 1..Len(<<a, b>>) : <<a, b>>[i] = r[i]
    <3> HIDE DEF r
    <3> QED BY <2>2
  <2> QED BY <1>1, <2>1, <2>2, <2>3, SeqEqual
<1>3. <<b>> \o q \in Seq(S) BY <1>1, ConcatProperties
<1> QED BY <1>1, <1>2, <1>3, ConcatAssociative

\* The members of a sequence.
LEMMA AllCons ==
  ASSUME NEW S, NEW e \in S, NEW q \in Seq(S)
  PROVE  All(<<e>> \o q) = {e} \cup All(q)
<1> DEFINE s == <<e>> \o q
<1>1. /\ Len(s) = Len(q) + 1 /\ Len(q) \in Nat
      /\ \A i \in 1..Len(q) + 1 : s[i] = IF i = 1 THEN e ELSE q[i - 1]
  BY Cons
<1> HIDE DEF s
<1>2. ASSUME NEW x \in All(s)
      PROVE  x \in {e} \cup All(q)
  <2>1. PICK i \in 1..Len(q) + 1 : x = s[i] BY <1>1 DEF All
  <2>2. CASE i = 1 BY <1>1, <2>1, <2>2
  <2>3. CASE i # 1
    <3>1. i - 1 \in 1..Len(q) /\ s[i] = q[i - 1] BY <1>1, <2>1, <2>3
    <3> QED BY <2>1, <3>1 DEF All
  <2> QED BY <2>2, <2>3
<1>3. e \in All(s)
  <2>1. 1 \in 1..Len(s) /\ s[1] = e BY <1>1
  <2> QED BY <2>1 DEF All
<1>4. ASSUME NEW x \in All(q)
      PROVE  x \in All(s)
  <2>1. PICK i \in 1..Len(q) : x = q[i] BY DEF All
  <2>2. i + 1 \in 1..Len(s) /\ s[i + 1] = x BY <1>1, <2>1
  <2> QED BY <2>2 DEF All
<1> QED BY <1>2, <1>3, <1>4 DEF s

LEMMA AllNone == All(<< >>) = {}
BY DEF All

LEMMA HeadRest ==
  ASSUME NEW S, NEW s \in Seq(S), s # << >>
  PROVE  /\ Head(s) \in S /\ Tail(s) \in Seq(S) /\ s = <<Head(s)>> \o Tail(s)
         /\ All(s) = {Head(s)} \cup All(Tail(s))
         /\ Len(s) = Len(Tail(s)) + 1
<1>1. Head(s) \in S /\ Tail(s) \in Seq(S) BY HeadTailProperties
<1>2. s = <<Head(s)>> \o Tail(s)
  <2>1. /\ Len(Tail(s)) = Len(s) - 1 /\ Len(s) \in Nat /\ Len(s) > 0
        /\ \A i \in 1..Len(Tail(s)) : Tail(s)[i] = s[i + 1]
    BY HeadTailProperties
  <2> DEFINE r == <<Head(s)>> \o Tail(s)
  <2>2. /\ r \in Seq(S) /\ Len(r) = Len(Tail(s)) + 1
        /\ \A i \in 1..Len(Tail(s)) + 1 : r[i] = IF i = 1 THEN Head(s) ELSE Tail(s)[i - 1]
    BY <1>1, Cons
  <2> HIDE DEF r
  <2>3. ASSUME NEW i \in 1..Len(s)
        PROVE  r[i] = s[i]
    <3>1. CASE i = 1 BY <2>1, <2>2, <3>1
    <3>2. CASE i # 1
      <4>1. i - 1 \in 1..Len(Tail(s)) /\ i \in 1..Len(Tail(s)) + 1 /\ (i - 1) + 1 = i BY <2>1, <3>2
      <4> QED BY <2>1, <2>2, <3>2, <4>1
    <3> QED BY <3>1, <3>2
  <2>4. Len(r) = Len(s) BY <2>1, <2>2
  <2> QED BY <2>2, <2>3, <2>4, SeqEqual DEF r
<1>3. All(<<Head(s)>> \o Tail(s)) = {Head(s)} \cup All(Tail(s)) BY <1>1, AllCons
<1>4. Len(<<Head(s)>> \o Tail(s)) = Len(Tail(s)) + 1 BY <1>1, Cons
<1> QED BY <1>1, <1>2, <1>3, <1>4

LEMMA AllIn ==
  ASSUME NEW S, NEW s \in Seq(S), NEW k \in All(s)
  PROVE  k \in S
<1>1. PICK i \in 1..Len(s) : k = s[i] BY DEF All
<1> QED BY <1>1, ElementOfSeq

--------------------
(* The call stack *)

LEMMA OrderedCons ==
  ASSUME NEW e \in Tasks, NEW q \in Seq(Tasks), Ordered(q),
         \A k \in All(q) : k.t \in Lower(e.t)
  PROVE  Ordered(<<e>> \o q)
<1> DEFINE s == <<e>> \o q
<1>1. /\ Len(s) = Len(q) + 1 /\ Len(q) \in Nat
      /\ \A i \in 1..Len(q) + 1 : s[i] = IF i = 1 THEN e ELSE q[i - 1]
  BY Cons
<1> HIDE DEF s
<1>2. ASSUME NEW i \in 1..Len(s), NEW j \in 1..Len(s), i < j
      PROVE  s[j].t \in Lower(s[i].t)
  <2>1. j - 1 \in 1..Len(q) /\ s[j] = q[j - 1] BY <1>1, <1>2
  <2>2. CASE i = 1
    <3>1. s[i] = e /\ q[j - 1] \in All(q) BY <1>1, <2>1, <2>2 DEF All
    <3> QED BY <2>1, <3>1
  <2>3. CASE i # 1
    <3>1. i - 1 \in 1..Len(q) /\ s[i] = q[i - 1] /\ i - 1 < j - 1 BY <1>1, <1>2, <2>3
    <3> QED BY <2>1, <3>1 DEF Ordered
  <2> QED BY <2>2, <2>3
<1> QED BY <1>2 DEF Ordered, s

LEMMA OrderedRest ==
  ASSUME NEW s \in Seq(Tasks), s # << >>, Ordered(s)
  PROVE  Ordered(Tail(s)) /\ \A k \in All(Tail(s)) : k.t \in Lower(Head(s).t)
<1>1. /\ Tail(s) \in Seq(Tasks) /\ Len(Tail(s)) = Len(s) - 1 /\ Len(s) \in Nat /\ Len(s) > 0
      /\ \A i \in 1..Len(Tail(s)) : Tail(s)[i] = s[i + 1]
  BY HeadTailProperties
<1>2. ASSUME NEW i \in 1..Len(Tail(s)), NEW j \in 1..Len(Tail(s)), i < j
      PROVE  Tail(s)[j].t \in Lower(Tail(s)[i].t)
  <2>1. i + 1 \in 1..Len(s) /\ j + 1 \in 1..Len(s) /\ i + 1 < j + 1 BY <1>1, <1>2
  <2> QED BY <1>1, <2>1 DEF Ordered
<1>3. ASSUME NEW k \in All(Tail(s))
      PROVE  k.t \in Lower(Head(s).t)
  <2>1. PICK i \in 1..Len(Tail(s)) : k = Tail(s)[i] BY DEF All
  <2>2. 1 \in 1..Len(s) /\ i + 1 \in 1..Len(s) /\ 1 < i + 1 /\ Head(s) = s[1] /\ k = s[i + 1]
    BY <1>1, <2>1
  <2> QED BY <2>2 DEF Ordered
<1> QED BY <1>2, <1>3 DEF Ordered

LEMMA TruthfulCons ==
  ASSUME NEW e \in Tasks, NEW q \in Seq(Tasks), Truthful(q),
         e.t = "return" /\ (\E k \in All(q) : k.t \in Chores \cup {"update", "return"})
            => "ok" \in e.f
  PROVE  Truthful(<<e>> \o q)
<1> DEFINE s == <<e>> \o q
<1>1. /\ Len(s) = Len(q) + 1 /\ Len(q) \in Nat
      /\ \A i \in 1..Len(q) + 1 : s[i] = IF i = 1 THEN e ELSE q[i - 1]
  BY Cons
<1> HIDE DEF s
<1>2. ASSUME NEW i \in 1..Len(s), NEW j \in 1..Len(s), i < j, s[i].t = "return",
             s[j].t \in Chores \cup {"update", "return"}
      PROVE  "ok" \in s[i].f
  <2>1. j - 1 \in 1..Len(q) /\ s[j] = q[j - 1] BY <1>1, <1>2
  <2>2. CASE i = 1
    <3>1. s[i] = e /\ q[j - 1] \in All(q) BY <1>1, <2>1, <2>2 DEF All
    <3> QED BY <1>2, <2>1, <3>1
  <2>3. CASE i # 1
    <3>1. i - 1 \in 1..Len(q) /\ s[i] = q[i - 1] /\ i - 1 < j - 1 BY <1>1, <1>2, <2>3
    <3> QED BY <1>2, <2>1, <3>1 DEF Truthful
  <2> QED BY <2>2, <2>3
<1> QED BY <1>2 DEF Truthful, s

LEMMA TruthfulRest ==
  ASSUME NEW s \in Seq(Tasks), s # << >>, Truthful(s)
  PROVE  /\ Truthful(Tail(s))
         /\ Head(s).t = "return"
            /\ (\E k \in All(Tail(s)) : k.t \in Chores \cup {"update", "return"})
            => "ok" \in Head(s).f
<1>1. /\ Tail(s) \in Seq(Tasks) /\ Len(Tail(s)) = Len(s) - 1 /\ Len(s) \in Nat /\ Len(s) > 0
      /\ \A i \in 1..Len(Tail(s)) : Tail(s)[i] = s[i + 1]
  BY HeadTailProperties
<1>2. ASSUME NEW i \in 1..Len(Tail(s)), NEW j \in 1..Len(Tail(s)), i < j,
             Tail(s)[i].t = "return",
             Tail(s)[j].t \in Chores \cup {"update", "return"}
      PROVE  "ok" \in Tail(s)[i].f
  <2>1. i + 1 \in 1..Len(s) /\ j + 1 \in 1..Len(s) /\ i + 1 < j + 1 BY <1>1, <1>2
  <2> QED BY <1>1, <1>2, <2>1 DEF Truthful
<1>3. ASSUME NEW k \in All(Tail(s)), Head(s).t = "return", k.t \in Chores \cup {"update", "return"}
      PROVE  "ok" \in Head(s).f
  <2>1. PICK i \in 1..Len(Tail(s)) : k = Tail(s)[i] BY DEF All
  <2>2. 1 \in 1..Len(s) /\ i + 1 \in 1..Len(s) /\ 1 < i + 1 /\ Head(s) = s[1] /\ k = s[i + 1]
    BY <1>1, <2>1
  <2> QED BY <1>3, <2>2 DEF Truthful
<1> QED BY <1>2, <1>3 DEF Truthful

Awaits(e) == e.t \in {"query_rollback", "update"}
Works(e) == e.t \in {"clear", "moved", "discard_all", "discard", "discard_free", "on_commit_end"}
Answers(k) == k.t \in {"update", "return", "stmt_clean"}

LEMMA AnsweredCons ==
  ASSUME NEW e \in Tasks, NEW q \in Seq(Tasks), Answered(q),
         e.t \in {"query_rollback", "update"} /\ q # << >>
            => Head(q).t \in {"update", "return", "stmt_clean"},
         Works(e) /\ q # << >> => Head(q).t # "opened"
  PROVE  Answered(<<e>> \o q)
<1> DEFINE s == <<e>> \o q
<1>1. /\ Len(s) = Len(q) + 1 /\ Len(q) \in Nat
      /\ \A i \in 1..Len(q) + 1 : s[i] = IF i = 1 THEN e ELSE q[i - 1]
  BY Cons
<1> HIDE DEF s
<1>2. ASSUME NEW i \in 1..Len(s) - 1
      PROVE  /\ Awaits(s[i]) => s[i + 1].t \in {"update", "return", "stmt_clean"}
             /\ Works(s[i]) => s[i + 1].t # "opened"
  <2>1. i \in 1..Len(q) /\ i + 1 \in 1..Len(q) + 1 /\ i \in 1..Len(q) + 1 BY <1>1
  <2>2. s[i + 1] = q[i] BY <1>1, <2>1
  <2>3. CASE i = 1
    <3>1. s[i] = e /\ q # << >> /\ Head(q) = q[1] BY <1>1, <2>1, <2>3
    <3> QED BY <2>2, <2>3, <3>1 DEF Awaits
  <2>4. CASE i # 1
    <3>1. i - 1 \in 1..Len(q) - 1 /\ s[i] = q[i - 1] /\ (i - 1) + 1 = i BY <1>1, <2>1, <2>4
    <3> QED BY <2>2, <3>1 DEF Answered, Awaits, Works
  <2> QED BY <2>3, <2>4
<1> QED BY <1>2 DEF Answered, s, Awaits, Works

LEMMA AnsweredRest ==
  ASSUME NEW s \in Seq(Tasks), s # << >>, Answered(s)
  PROVE  /\ Answered(Tail(s))
         /\ Head(s).t \in {"query_rollback", "update"} /\ Tail(s) # << >>
            => Head(Tail(s)).t \in {"update", "return", "stmt_clean"}
         /\ Works(Head(s)) /\ Tail(s) # << >> => Head(Tail(s)).t # "opened"
<1>1. /\ Tail(s) \in Seq(Tasks) /\ Len(Tail(s)) = Len(s) - 1 /\ Len(s) \in Nat /\ Len(s) > 0
      /\ \A i \in 1..Len(Tail(s)) : Tail(s)[i] = s[i + 1]
  BY HeadTailProperties
<1>2. ASSUME NEW i \in 1..Len(Tail(s)) - 1
      PROVE  /\ Awaits(Tail(s)[i]) => Tail(s)[i + 1].t \in {"update", "return", "stmt_clean"}
             /\ Works(Tail(s)[i]) => Tail(s)[i + 1].t # "opened"
  <2>1. /\ i + 1 \in 1..Len(s) - 1 /\ i \in 1..Len(Tail(s)) /\ i + 1 \in 1..Len(Tail(s)) BY <1>1
  <2>2. Tail(s)[i] = s[i + 1] /\ Tail(s)[i + 1] = s[(i + 1) + 1] BY <1>1, <2>1
  <2> QED BY <2>1, <2>2 DEF Answered, Awaits, Works
<1>3. ASSUME Tail(s) # << >>
      PROVE  /\ Awaits(Head(s)) => Head(Tail(s)).t \in {"update", "return", "stmt_clean"}
             /\ Works(Head(s)) => Head(Tail(s)).t # "opened"
  <2>1. 1 \in 1..Len(s) - 1 /\ 1 \in 1..Len(Tail(s)) /\ Head(s) = s[1] /\ Head(Tail(s)) = Tail(s)[1]
    BY <1>1, <1>3
  <2>2. Tail(s)[1] = s[1 + 1] BY <1>1, <2>1
  <2> QED BY <2>1, <2>2 DEF Answered, Awaits, Works
<1> QED BY <1>2, <1>3 DEF Answered, Awaits, Works

LEMMA NoneOrdered == Ordered(<< >>) /\ Truthful(<< >>) /\ Answered(<< >>)
BY DEF Ordered, Truthful, Answered

\* A stack in order.
Sound(s) == s \in Seq(Tasks) /\ Ordered(s) /\ Answered(s)
Late == Chores \cup {"update", "return"}

LEMMA NoneSound == Sound(<< >>) /\ Truthful(<< >>) /\ All(<< >>) = {}
<1>1. << >> \in Seq(Tasks) OBVIOUS
<1> QED BY <1>1, NoneOrdered, AllNone DEF Sound

\* A task on a stack.
LEMMA Pushed ==
  ASSUME NEW e \in Tasks, NEW q, Sound(q), \A k \in All(q) : k.t \in Lower(e.t),
         Awaits(e) /\ q # << >> => Answers(Head(q)),
         Works(e) /\ q # << >> => Head(q).t # "opened"
  PROVE  /\ Sound(<<e>> \o q) /\ <<e>> \o q # << >>
         /\ Head(<<e>> \o q) = e /\ Tail(<<e>> \o q) = q
         /\ All(<<e>> \o q) = {e} \cup All(q)
         /\ Truthful(q) /\ (e.t = "return" => "ok" \in e.f \/ \A k \in All(q) : k.t \notin Late)
               => Truthful(<<e>> \o q)
<1>1. q \in Seq(Tasks) /\ Ordered(q) /\ Answered(q) BY DEF Sound
<1>2. /\ <<e>> \o q \in Seq(Tasks) /\ <<e>> \o q # << >>
      /\ Head(<<e>> \o q) = e /\ Tail(<<e>> \o q) = q
  BY <1>1, Cons
<1>3. All(<<e>> \o q) = {e} \cup All(q) BY <1>1, AllCons
<1>4. Ordered(<<e>> \o q) BY <1>1, OrderedCons
<1>5. Answered(<<e>> \o q) BY <1>1, AnsweredCons DEF Awaits, Works, Answers
<1>6. ASSUME Truthful(q), e.t = "return" => "ok" \in e.f \/ \A k \in All(q) : k.t \notin Late
      PROVE  Truthful(<<e>> \o q)
  BY <1>1, <1>6, TruthfulCons DEF Late
<1> QED BY <1>2, <1>3, <1>4, <1>5, <1>6 DEF Sound

LEMMA Two2 ==
  ASSUME NEW e \in Tasks, NEW f \in Tasks, NEW q, Sound(q)
  PROVE  <<e, f>> \o q = <<e>> \o (<<f>> \o q)
<1>1. q \in Seq(Tasks) BY DEF Sound
<1> QED BY <1>1, Cat2

\* What is known of the stack in a state.
LEMMA StackFacts ==
  ASSUME Sound(todo), todo # << >>
  PROVE  /\ H \in Tasks /\ Sound(Tail(todo))
         /\ All(todo) = {H} \cup Rest /\ H \in All(todo) /\ Rest \subseteq All(todo)
         /\ \A k \in Rest : k \in Tasks /\ k.t \in Lower(H.t)
         /\ Awaits(H) /\ Tail(todo) # << >> => Answers(Head(Tail(todo)))
         /\ Works(H) /\ Tail(todo) # << >> => Head(Tail(todo)).t # "opened"
         /\ Tail(todo) # << >> => Head(Tail(todo)) \in Rest
         /\ Truthful(todo) => /\ Truthful(Tail(todo))
                              /\ H.t = "return" /\ (\E k \in Rest : k.t \in Late) => "ok" \in H.f
<1>0. todo \in Seq(Tasks) /\ Ordered(todo) /\ Answered(todo) BY DEF Sound
<1>1. H \in Tasks /\ Tail(todo) \in Seq(Tasks) /\ All(todo) = {H} \cup Rest BY <1>0, HeadRest DEF H, Rest
<1>2. Ordered(Tail(todo)) /\ \A k \in Rest : k.t \in Lower(H.t) BY <1>0, OrderedRest DEF H, Rest
<1>3. \A k \in Rest : k \in Tasks BY <1>1, AllIn DEF Rest
<1>4. /\ Answered(Tail(todo))
      /\ Awaits(H) /\ Tail(todo) # << >> => Answers(Head(Tail(todo)))
      /\ Works(H) /\ Tail(todo) # << >> => Head(Tail(todo)).t # "opened"
  BY <1>0, AnsweredRest DEF H, Awaits, Works, Answers
<1>5. ASSUME Tail(todo) # << >>
      PROVE  Head(Tail(todo)) \in Rest
  <2>1. All(Tail(todo)) = {Head(Tail(todo))} \cup All(Tail(Tail(todo))) BY <1>1, <1>5, HeadRest
  <2> QED BY <2>1 DEF Rest
<1>6. Truthful(todo) => /\ Truthful(Tail(todo))
                        /\ H.t = "return" /\ (\E k \in Rest : k.t \in Late) => "ok" \in H.f
  BY <1>0, TruthfulRest DEF H, Rest, Late
<1> QED BY <1>1, <1>2, <1>3, <1>4, <1>5, <1>6 DEF Sound

(* What an action does to the stack. *)

LEMMA Pop ==
  ASSUME Sound(todo), todo # << >>, todo' = Tail(todo)
  PROVE  /\ Sound(todo') /\ All(todo') = Rest
         /\ todo' # << >> => H' \in Rest /\ Rest' \subseteq Rest /\ (Awaits(H) => Answers(H'))
                          /\ (Works(H) => H'.t # "opened")
         /\ Truthful(todo) => Truthful(todo')
<1>1. Sound(todo') /\ All(todo') = Rest /\ (Truthful(todo) => Truthful(todo')) BY StackFacts DEF Rest
<1>2. ASSUME todo' # << >>
      PROVE  /\ H' \in Rest /\ Rest' \subseteq Rest /\ (Awaits(H) => Answers(H'))
             /\ Works(H) => H'.t # "opened"
  <2>1. All(todo') = {Head(todo')} \cup All(Tail(todo')) BY <1>1, <1>2, HeadRest DEF Sound
  <2>2. (Awaits(H) => Answers(Head(todo'))) /\ (Works(H) => Head(todo').t # "opened") BY <1>2, StackFacts
  <2> QED BY <1>1, <2>1, <2>2 DEF H, Rest
<1> QED BY <1>1, <1>2

LEMMA Replace ==
  ASSUME NEW e \in Tasks, Sound(todo), todo # << >>, \A k \in Rest : k.t \in Lower(e.t),
         Awaits(e) /\ Tail(todo) # << >> => Answers(Head(Tail(todo))),
         Works(e) /\ Tail(todo) # << >> => Head(Tail(todo)).t # "opened",
         todo' = <<e>> \o Tail(todo)
  PROVE  /\ Sound(todo') /\ todo' # << >> /\ H' = e /\ Rest' = Rest /\ All(todo') = {e} \cup Rest
         /\ Truthful(todo) /\ (e.t = "return" => "ok" \in e.f \/ \A k \in Rest : k.t \notin Late)
               => Truthful(todo')
<1>1. /\ Sound(Tail(todo)) /\ \A k \in All(Tail(todo)) : k.t \in Lower(e.t)
      /\ Truthful(todo) => Truthful(Tail(todo))
  BY StackFacts DEF Rest
<1> QED BY <1>1, Pushed DEF H, Rest

LEMMA Replace2 ==
  ASSUME NEW e \in Tasks, NEW f \in Tasks, Sound(todo), todo # << >>,
         \A k \in Rest : k.t \in Lower(e.t) /\ k.t \in Lower(f.t), f.t \in Lower(e.t),
         Awaits(e) => Answers(f), Works(e) => f.t # "opened",
         Awaits(f) /\ Tail(todo) # << >> => Answers(Head(Tail(todo))),
         Works(f) /\ Tail(todo) # << >> => Head(Tail(todo)).t # "opened",
         todo' = <<e, f>> \o Tail(todo)
  PROVE  /\ Sound(todo') /\ todo' # << >>
         /\ H' = e /\ Rest' = {f} \cup Rest /\ All(todo') = {e, f} \cup Rest
         /\ Truthful(todo) /\ e.t # "return"
              /\ (f.t = "return" => "ok" \in f.f \/ \A k \in Rest : k.t \notin Late)
               => Truthful(todo')
<1> DEFINE q == <<f>> \o Tail(todo)
<1>1. /\ Sound(Tail(todo)) /\ \A k \in All(Tail(todo)) : k.t \in Lower(f.t)
      /\ Truthful(todo) => Truthful(Tail(todo))
  BY StackFacts DEF Rest
<1>2. /\ Sound(q) /\ q # << >> /\ Head(q) = f /\ All(q) = {f} \cup Rest
      /\ Truthful(todo) /\ (f.t = "return" => "ok" \in f.f \/ \A k \in Rest : k.t \notin Late)
               => Truthful(q)
  BY <1>1, Pushed DEF Rest
<1>3. todo' = <<e>> \o q
  <2>1. <<e, f>> \o Tail(todo) = <<e>> \o (<<f>> \o Tail(todo)) BY <1>1, Two2
  <2> QED BY <2>1
<1> HIDE DEF q
<1>4. \A k \in All(q) : k.t \in Lower(e.t) BY <1>2
<1>5. /\ Sound(todo') /\ todo' # << >> /\ Head(todo') = e /\ Tail(todo') = q
      /\ All(todo') = {e} \cup All(q)
      /\ Truthful(q) /\ e.t # "return" => Truthful(todo')
  BY <1>2, <1>3, <1>4, Pushed
<1> QED BY <1>2, <1>5 DEF H, Rest

LEMMA Replace3 ==
  ASSUME NEW d \in Tasks, NEW e \in Tasks, NEW f \in Tasks, Sound(todo), todo # << >>,
         \A k \in Rest : k.t \in Lower(d.t) /\ k.t \in Lower(e.t) /\ k.t \in Lower(f.t),
         e.t \in Lower(d.t), f.t \in Lower(d.t), f.t \in Lower(e.t),
         Awaits(d) => Answers(e), Awaits(e) => Answers(f),
         Works(d) => e.t # "opened", Works(e) => f.t # "opened",
         Awaits(f) /\ Tail(todo) # << >> => Answers(Head(Tail(todo))),
         Works(f) /\ Tail(todo) # << >> => Head(Tail(todo)).t # "opened",
         todo' = <<d>> \o (<<e, f>> \o Tail(todo))
  PROVE  /\ Sound(todo') /\ todo' # << >>
         /\ H' = d /\ Rest' = {e, f} \cup Rest /\ All(todo') = {d, e, f} \cup Rest
         /\ Truthful(todo) /\ d.t # "return" /\ e.t # "return"
              /\ (f.t = "return" => "ok" \in f.f \/ \A k \in Rest : k.t \notin Late)
               => Truthful(todo')
<1> DEFINE p == <<f>> \o Tail(todo)
           q == <<e>> \o p
<1>1. /\ Sound(Tail(todo)) /\ \A k \in All(Tail(todo)) : k.t \in Lower(f.t)
      /\ Truthful(todo) => Truthful(Tail(todo))
  BY StackFacts DEF Rest
<1>2. /\ Sound(p) /\ p # << >> /\ Head(p) = f /\ All(p) = {f} \cup Rest
      /\ Truthful(todo) /\ (f.t = "return" => "ok" \in f.f \/ \A k \in Rest : k.t \notin Late)
               => Truthful(p)
  BY <1>1, Pushed DEF Rest
<1>3. <<e, f>> \o Tail(todo) = <<e>> \o p
  <2>1. <<e, f>> \o Tail(todo) = <<e>> \o (<<f>> \o Tail(todo)) BY <1>1, Two2
  <2> QED BY <2>1
<1> HIDE DEF p
<1>4. \A k \in All(p) : k.t \in Lower(e.t) BY <1>2
<1>5. /\ Sound(q) /\ q # << >> /\ Head(q) = e /\ All(q) = {e} \cup All(p)
      /\ Truthful(p) /\ e.t # "return" => Truthful(q)
  BY <1>2, <1>4, Pushed
<1>6. todo' = <<d>> \o q BY <1>3
<1> HIDE DEF q
<1>7. \A k \in All(q) : k.t \in Lower(d.t) BY <1>2, <1>5
<1>8. /\ Sound(todo') /\ todo' # << >> /\ Head(todo') = d /\ Tail(todo') = q
      /\ All(todo') = {d} \cup All(q)
      /\ Truthful(q) /\ d.t # "return" => Truthful(todo')
  <2>1. (Awaits(d) /\ q # << >> => Answers(Head(q)))
        /\ (Works(d) /\ q # << >> => Head(q).t # "opened")
    BY <1>5
  <2>2. /\ Sound(<<d>> \o q) /\ <<d>> \o q # << >>
        /\ Head(<<d>> \o q) = d /\ Tail(<<d>> \o q) = q /\ All(<<d>> \o q) = {d} \cup All(q)
        /\ Truthful(q) /\ d.t # "return" => Truthful(<<d>> \o q)
    BY <1>5, <1>7, <2>1, Pushed
  <2> QED BY <1>6, <2>2
<1> QED BY <1>2, <1>5, <1>8 DEF H, Rest

--------------------
(* Types *)

TaskNames == {"send", "wire", "query_rollback", "update", "return",
              "begin", "commit", "close_eof", "commit_send", "abort", "close", "closed",
              "clear", "moved", "discard_all", "discard", "discard_free", "on_commit_end",
              "request_start", "svp_sent", "request_begin", "exec_ext", "exec_end", "opened",
              "stmt_end", "stmt_rollback", "stmt_clean", "transact_end", "set_auto"}
CmdNames == Kinds \cup {"declare", "fetch", "close", "move", "deallocate"}

LEMMA NoCmds == << >> \in Seq(Cmds) /\ << >> \in Seq(Tasks)
OBVIOUS

LEMMA TaskType ==
  ASSUME NEW t \in TaskNames, NEW q \in Seq(Cmds), NEW f \in SUBSET Flags,
         NEW h \in Handles \cup {NoHandle}, NEW i \in Nat
  PROVE  [t |-> t, q |-> q, f |-> f, h |-> h, i |-> i] \in Tasks
BY DEF Tasks, TaskNames

LEMMA TaskFields ==
  ASSUME NEW k \in Tasks
  PROVE  /\ k = [t |-> k.t, q |-> k.q, f |-> k.f, h |-> k.h, i |-> k.i]
         /\ k.t \in TaskNames /\ k.q \in Seq(Cmds) /\ k.f \in SUBSET Flags
         /\ k.h \in Handles \cup {NoHandle} /\ k.i \in Nat
BY DEF Tasks, TaskNames

LEMMA CallType ==
  ASSUME NEW t \in TaskNames
  PROVE  /\ Call(t) \in Tasks /\ Call(t).t = t /\ Call(t).q = << >> /\ Call(t).f = {}
         /\ Call(t) = [t |-> t, q |-> << >>, f |-> {}, h |-> NoHandle, i |-> 0]
BY TaskType, NoCmds DEF Call

\* A task with other commands, flags or handle.
LEMMA TaskF ==
  ASSUME NEW k \in Tasks, NEW f \in SUBSET Flags
  PROVE  /\ [k EXCEPT !.f = f] \in Tasks
         /\ [k EXCEPT !.f = f].t = k.t /\ [k EXCEPT !.f = f].h = k.h
         /\ [k EXCEPT !.f = f].q = k.q /\ [k EXCEPT !.f = f].f = f
<1>1. [k EXCEPT !.f = f] = [t |-> k.t, q |-> k.q, f |-> f, h |-> k.h, i |-> k.i] BY TaskFields
<1>2. [t |-> k.t, q |-> k.q, f |-> f, h |-> k.h, i |-> k.i] \in Tasks BY TaskFields, TaskType
<1> QED BY <1>1, <1>2

LEMMA TaskQ ==
  ASSUME NEW k \in Tasks, NEW q \in Seq(Cmds)
  PROVE  /\ [k EXCEPT !.q = q] \in Tasks /\ [k EXCEPT !.q = q].t = k.t
         /\ [k EXCEPT !.q = q].q = q /\ [k EXCEPT !.q = q].f = k.f
<1>1. [k EXCEPT !.q = q] = [t |-> k.t, q |-> q, f |-> k.f, h |-> k.h, i |-> k.i] BY TaskFields
<1>2. [t |-> k.t, q |-> q, f |-> k.f, h |-> k.h, i |-> k.i] \in Tasks BY TaskFields, TaskType
<1> QED BY <1>1, <1>2

LEMMA TaskH ==
  ASSUME NEW k \in Tasks, NEW h \in Handles
  PROVE  /\ [k EXCEPT !.h = h] \in Tasks /\ [k EXCEPT !.h = h].t = k.t
         /\ [k EXCEPT !.h = h].q = k.q /\ [k EXCEPT !.h = h].f = k.f
         /\ [k EXCEPT !.h = h].h = h
<1>1. [k EXCEPT !.h = h] = [t |-> k.t, q |-> k.q, f |-> k.f, h |-> h, i |-> k.i] BY TaskFields
<1>2. [t |-> k.t, q |-> k.q, f |-> k.f, h |-> h, i |-> k.i] \in Tasks BY TaskFields, TaskType
<1> QED BY <1>1, <1>2

LEMMA TaskQF ==
  ASSUME NEW k \in Tasks, NEW q \in Seq(Cmds), NEW f \in SUBSET Flags
  PROVE  /\ [k EXCEPT !.q = q, !.f = f] \in Tasks
         /\ [k EXCEPT !.q = q, !.f = f].t = k.t
         /\ [k EXCEPT !.q = q, !.f = f].q = q /\ [k EXCEPT !.q = q, !.f = f].f = f
<1> DEFINE k1 == [k EXCEPT !.q = q]
<1>1. k1 \in Tasks /\ k1.t = k.t /\ k1.q = q BY TaskQ
<1> HIDE DEF k1
<1>2. /\ [k1 EXCEPT !.f = f] \in Tasks /\ [k1 EXCEPT !.f = f].t = k.t
      /\ [k1 EXCEPT !.f = f].q = q /\ [k1 EXCEPT !.f = f].f = f
  BY <1>1, TaskF
<1> QED BY <1>2 DEF k1

LEMMA CallHType ==
  ASSUME NEW t \in TaskNames, NEW h \in Handles
  PROVE  /\ CallH(t, h) \in Tasks /\ CallH(t, h).t = t /\ CallH(t, h).h = h
         /\ CallH(t, h).q = << >> /\ CallH(t, h).f = {}
BY CallType, TaskH DEF CallH

LEMMA CallIType ==
  ASSUME NEW t \in TaskNames, NEW i \in Nat
  PROVE  /\ CallI(t, i) \in Tasks /\ CallI(t, i).t = t /\ CallI(t, i).i = i
         /\ CallI(t, i).q = << >> /\ CallI(t, i).f = {}
<1>1. CallI(t, i) = [t |-> t, q |-> << >>, f |-> {}, h |-> NoHandle, i |-> i] BY DEF CallI, Call
<1>2. [t |-> t, q |-> << >>, f |-> {}, h |-> NoHandle, i |-> i] \in Tasks BY TaskType, NoCmds
<1> QED BY <1>1, <1>2

LEMMA SendType ==
  ASSUME NEW q \in Seq(Cmds), NEW f \in SUBSET Flags
  PROVE  Send(q, f) \in Tasks /\ Send(q, f).t = "send" /\ Send(q, f).q = q /\ Send(q, f).f = f
<1>1. "send" \in TaskNames BY DEF TaskNames
<1>2. Call("send") \in Tasks /\ Call("send").t = "send" BY <1>1, CallType
<1> DEFINE k == [Call("send") EXCEPT !.q = q]
<1>3. k \in Tasks /\ k.t = "send" /\ k.q = q BY <1>2, TaskQ
<1> HIDE DEF k
<1>4. /\ [k EXCEPT !.f = f] \in Tasks /\ [k EXCEPT !.f = f].t = "send"
      /\ [k EXCEPT !.f = f].q = q /\ [k EXCEPT !.f = f].f = f
  BY <1>3, TaskF
<1> QED BY <1>4 DEF k, Send

LEMMA ReturnType ==
  ASSUME NEW ok \in {"ok", "error"}
  PROVE  Return(ok) \in Tasks /\ Return(ok).t = "return" /\ Return(ok).f = {ok}
<1>1. "return" \in TaskNames /\ {ok} \in SUBSET Flags BY DEF TaskNames, Flags
<1> QED BY <1>1, CallType, TaskF DEF Return

(* Commands. *)

LEMMA CmdType ==
  ASSUME NEW op \in CmdNames
  PROVE  /\ Cmd(op) \in Cmds /\ Cmd(op).op = op /\ Cmd(op).svp = "user" /\ Cmd(op).h = NoHandle
         /\ Cmd(op).hold = FALSE
         /\ Cmd(op) = [op |-> op, svp |-> "user", h |-> NoHandle, hold |-> FALSE]
<1>1. Cmd(op) = [op |-> op, svp |-> "user", h |-> NoHandle, hold |-> FALSE] BY DEF Cmd
<1>2. "user" \in Svps /\ FALSE \in BOOLEAN BY DEF Svps
<1>3. [op |-> op, svp |-> "user", h |-> NoHandle, hold |-> FALSE] \in Cmds
  BY <1>2, Zenon DEF Cmds, CmdNames
<1>4. Cmd(op).op = op /\ Cmd(op).svp = "user" /\ Cmd(op).h = NoHandle /\ Cmd(op).hold = FALSE
  BY Zenon DEF Cmd
<1> QED BY <1>1, <1>3, <1>4, Zenon

LEMMA CmdFields ==
  ASSUME NEW c \in Cmds
  PROVE  /\ c = [op |-> c.op, svp |-> c.svp, h |-> c.h, hold |-> c.hold]
         /\ c.op \in CmdNames /\ c.svp \in Svps /\ c.h \in Handles \cup {NoHandle}
         /\ c.hold \in BOOLEAN
BY DEF Cmds, CmdNames

LEMMA SvpCmdType ==
  ASSUME NEW op \in CmdNames, NEW s \in Svps
  PROVE  /\ SvpCmd(op, s) \in Cmds /\ SvpCmd(op, s).op = op /\ SvpCmd(op, s).svp = s
         /\ SvpCmd(op, s).hold = FALSE /\ SvpCmd(op, s).h = NoHandle
<1> DEFINE c == Cmd(op)
<1>1. /\ c \in Cmds /\ c.op = op /\ c.h = NoHandle /\ c.hold = FALSE BY CmdType, Zenon
<1>2. SvpCmd(op, s) = [c EXCEPT !.svp = s] BY Zenon DEF SvpCmd
<1> HIDE DEF c
<1>3. [c EXCEPT !.svp = s] = [op |-> c.op, svp |-> s, h |-> c.h, hold |-> c.hold] BY <1>1, CmdFields
<1>4. [op |-> c.op, svp |-> s, h |-> c.h, hold |-> c.hold] \in Cmds
  BY <1>1, CmdFields, Zenon DEF Cmds, CmdNames
<1>5. [op |-> c.op, svp |-> s, h |-> c.h, hold |-> c.hold].op = c.op
      /\ [op |-> c.op, svp |-> s, h |-> c.h, hold |-> c.hold].svp = s
      /\ [op |-> c.op, svp |-> s, h |-> c.h, hold |-> c.hold].hold = c.hold
      /\ [op |-> c.op, svp |-> s, h |-> c.h, hold |-> c.hold].h = c.h
  BY Zenon
<1> QED BY <1>1, <1>2, <1>3, <1>4, <1>5, Zenon

LEMMA CursCmdType ==
  ASSUME NEW op \in CmdNames, NEW h \in Handles
  PROVE  /\ CursCmd(op, h) \in Cmds /\ CursCmd(op, h).op = op /\ CursCmd(op, h).h = h
         /\ CursCmd(op, h).hold = FALSE
<1> DEFINE c == Cmd(op)
<1>1. c \in Cmds /\ c.op = op /\ c.hold = FALSE BY CmdType, Zenon
<1>2. CursCmd(op, h) = [c EXCEPT !.h = h] BY Zenon DEF CursCmd
<1> HIDE DEF c
<1>3. [c EXCEPT !.h = h] = [op |-> c.op, svp |-> c.svp, h |-> h, hold |-> c.hold] BY <1>1, CmdFields
<1>4. [op |-> c.op, svp |-> c.svp, h |-> h, hold |-> c.hold] \in Cmds
  BY <1>1, CmdFields, Zenon DEF Cmds, CmdNames
<1>5. [op |-> c.op, svp |-> c.svp, h |-> h, hold |-> c.hold].op = c.op
      /\ [op |-> c.op, svp |-> c.svp, h |-> h, hold |-> c.hold].hold = c.hold
      /\ [op |-> c.op, svp |-> c.svp, h |-> h, hold |-> c.hold].h = h
  BY Zenon
<1> QED BY <1>1, <1>2, <1>3, <1>4, <1>5, Zenon

LEMMA DeclareType ==
  ASSUME NEW h \in Handles, NEW hold \in BOOLEAN
  PROVE  /\ Declare(h, hold) \in Cmds /\ Declare(h, hold).op = "declare"
         /\ Declare(h, hold).h = h /\ (Declare(h, hold).hold <=> hold)
<1> DEFINE c == CursCmd("declare", h)
<1>1. c \in Cmds /\ c.op = "declare" /\ c.h = h BY CursCmdType DEF CmdNames
<1>2. Declare(h, hold) = [c EXCEPT !.hold = hold] BY Zenon DEF Declare
<1> HIDE DEF c
<1>3. [c EXCEPT !.hold = hold] = [op |-> c.op, svp |-> c.svp, h |-> c.h, hold |-> hold] BY <1>1, CmdFields
<1>4. [op |-> c.op, svp |-> c.svp, h |-> c.h, hold |-> hold] \in Cmds
  BY <1>1, CmdFields, Zenon DEF Cmds, CmdNames
<1>5. [op |-> c.op, svp |-> c.svp, h |-> c.h, hold |-> hold].op = c.op
      /\ [op |-> c.op, svp |-> c.svp, h |-> c.h, hold |-> hold].hold = hold
      /\ [op |-> c.op, svp |-> c.svp, h |-> c.h, hold |-> hold].h = c.h
  BY Zenon
<1> QED BY <1>1, <1>2, <1>3, <1>4, <1>5, Zenon

LEMMA OpenedType ==
  ASSUME NEW h \in Handles, NEW hold \in BOOLEAN
  PROVE  /\ OpenedTask(h, hold) \in Tasks /\ OpenedTask(h, hold).t = "opened"
         /\ OpenedTask(h, hold).h = h /\ ("on" \in OpenedTask(h, hold).f <=> hold)
<1> DEFINE f == IF hold THEN {"on"} ELSE {}
<1>1. f \in SUBSET Flags /\ ("on" \in f <=> hold) BY DEF Flags
<1> HIDE DEF f
<1>2. OpenedTask(h, hold) = [CallH("opened", h) EXCEPT !.f = f] BY DEF OpenedTask, f
<1>3. "opened" \in TaskNames BY DEF TaskNames
<1>4. CallH("opened", h) \in Tasks /\ CallH("opened", h).t = "opened" /\ CallH("opened", h).h = h
  BY <1>3, CallHType
<1> QED BY <1>1, <1>2, <1>4, TaskF

--------------------
(* The driver's record of the connection *)

LEMMA NoTransConn ==
  ASSUME NEW c \in Conns
  PROVE  /\ NoTrans(c) \in Conns /\ ~NoTrans(c).inTrans
         /\ (c.err => c.inTrans) => ~NoTrans(c).err
         /\ (c.manual => c.inTrans) => ~NoTrans(c).manual
         /\ NoTrans(c).alive <=> c.alive
         /\ NoTrans(c).auto <=> c.auto
         /\ NoTrans(c).committing <=> c.committing
         /\ NoTrans(c).ignored <=> c.ignored
<1>1. NoTrans(c) \in Conns
  <2>1. [c EXCEPT !.inTrans = FALSE, !.err = FALSE, !.manual = FALSE] \in Conns BY Zenon DEF Conns
  <2> QED BY <2>1, Zenon DEF NoTrans
<1> QED BY <1>1 DEF NoTrans, Conns

LEMMA SvpInitConn ==
  ASSUME NEW c \in Conns
  PROVE  /\ SvpInit(c) \in Conns /\ ~SvpInit(c).svp /\ SvpInit(c).op = "none"
         /\ SvpInit(c).alive <=> c.alive
         /\ SvpInit(c).auto <=> c.auto
         /\ SvpInit(c).inTrans <=> c.inTrans
         /\ SvpInit(c).manual <=> c.manual
         /\ SvpInit(c).err <=> c.err
         /\ SvpInit(c).committing <=> c.committing
         /\ SvpInit(c).ignored <=> c.ignored
<1>1. SvpInit(c) \in Conns BY Zenon DEF SvpInit, Conns
<1> QED BY <1>1 DEF SvpInit, Conns

LEMMA StartStmtConn ==
  ASSUME NEW c \in Conns
  PROVE  /\ StartStmt(c) \in Conns /\ ~StartStmt(c).point
         /\ StartStmt(c).svp <=> c.svp
         /\ StartStmt(c).op = c.op
         /\ StartStmt(c).alive <=> c.alive
         /\ StartStmt(c).auto <=> c.auto
         /\ StartStmt(c).inTrans <=> c.inTrans
         /\ StartStmt(c).manual <=> c.manual
         /\ StartStmt(c).err <=> c.err
         /\ StartStmt(c).committing <=> c.committing
         /\ StartStmt(c).ignored <=> c.ignored
<1>1. StartStmt(c) \in Conns BY Zenon DEF StartStmt, Conns
<1> QED BY <1>1 DEF StartStmt, Conns

\* A transaction that has ended.
LEMMA EndedConn ==
  ASSUME conn \in Conns
  PROVE  LET c == StartStmt(SvpInit(NoTrans(conn)))
         IN  /\ c \in Conns /\ ~c.inTrans /\ ~c.svp /\ c.op = "none" /\ ~c.point
             /\ (conn.err => conn.inTrans) => ~c.err
             /\ (conn.manual => conn.inTrans) => ~c.manual
             /\ c.alive <=> conn.alive
             /\ c.auto <=> conn.auto
             /\ c.committing <=> conn.committing
             /\ c.ignored <=> conn.ignored
<1> DEFINE a == NoTrans(conn)
           b == SvpInit(a)
<1>1. /\ a \in Conns /\ ~a.inTrans
      /\ (conn.err => conn.inTrans) => ~a.err
      /\ (conn.manual => conn.inTrans) => ~a.manual
      /\ a.alive <=> conn.alive
      /\ a.auto <=> conn.auto
      /\ a.committing <=> conn.committing
      /\ a.ignored <=> conn.ignored
  BY NoTransConn
<1> HIDE DEF a
<1>2. /\ b \in Conns /\ ~b.inTrans /\ ~b.svp /\ b.op = "none"
      /\ b.err <=> a.err
      /\ b.manual <=> a.manual
      /\ b.alive <=> a.alive
      /\ b.auto <=> a.auto
      /\ b.committing <=> a.committing
      /\ b.ignored <=> a.ignored
  BY <1>1, SvpInitConn
<1> HIDE DEF b
<1>3. /\ StartStmt(b) \in Conns /\ ~StartStmt(b).point
      /\ StartStmt(b).svp <=> b.svp
      /\ StartStmt(b).op = b.op
      /\ StartStmt(b).alive <=> b.alive
      /\ StartStmt(b).auto <=> b.auto
      /\ StartStmt(b).inTrans <=> b.inTrans
      /\ StartStmt(b).manual <=> b.manual
      /\ StartStmt(b).err <=> b.err
      /\ StartStmt(b).committing <=> b.committing
      /\ StartStmt(b).ignored <=> b.ignored
  BY <1>2, StartStmtConn
<1> QED BY <1>1, <1>2, <1>3 DEF a, b

LEMMA OnAbort ==
  ASSUME conn \in Conns
  PROVE  LET c == OnAbortConn
         IN  /\ c \in Conns /\ ~c.inTrans /\ ~c.svp /\ c.op = "none" /\ ~c.point
             /\ (conn.err => conn.inTrans) => ~c.err
             /\ (conn.manual => conn.inTrans) => ~c.manual
             /\ c.alive <=> conn.alive
             /\ c.auto <=> conn.auto
             /\ c.committing <=> conn.committing
             /\ c.ignored <=> conn.ignored
BY EndedConn DEF OnAbortConn

LEMMA OnCommit ==
  ASSUME conn \in Conns
  PROVE  LET c == OnCommitConn
         IN  /\ c \in Conns /\ c.committing
             /\ c.alive <=> conn.alive
             /\ ~conn.committing =>
                  /\ ~c.inTrans /\ ~c.svp /\ c.op = "none" /\ ~c.point
                  /\ (conn.err => conn.inTrans) => ~c.err
                  /\ (conn.manual => conn.inTrans) => ~c.manual
                  /\ c.auto <=> conn.auto
                  /\ c.ignored <=> conn.ignored
             /\ conn.committing => c = conn
<1>1. CASE conn.committing BY <1>1 DEF OnCommitConn
<1>2. CASE ~conn.committing
  <2> DEFINE b == StartStmt(SvpInit(NoTrans(conn)))
  <2>1. /\ b \in Conns /\ ~b.inTrans /\ ~b.svp /\ b.op = "none" /\ ~b.point
        /\ (conn.err => conn.inTrans) => ~b.err
        /\ (conn.manual => conn.inTrans) => ~b.manual
        /\ b.alive <=> conn.alive
        /\ b.auto <=> conn.auto
        /\ b.ignored <=> conn.ignored
    BY EndedConn
  <2>2. OnCommitConn = [b EXCEPT !.committing = TRUE] BY <1>2, Zenon DEF OnCommitConn
  <2> HIDE DEF b
  <2>3. [b EXCEPT !.committing = TRUE] \in Conns BY <2>1, Zenon DEF Conns
  <2> DEFINE d == [b EXCEPT !.committing = TRUE]
  <2>4. /\ d.committing
        /\ d.inTrans <=> b.inTrans
        /\ d.svp <=> b.svp
        /\ d.op = b.op
        /\ d.point <=> b.point
        /\ d.err <=> b.err
        /\ d.manual <=> b.manual
        /\ d.alive <=> b.alive
        /\ d.auto <=> b.auto
        /\ d.ignored <=> b.ignored
    BY <2>1 DEF Conns
  <2> HIDE DEF d
  <2>5. d \in Conns /\ OnCommitConn = d BY <2>2, <2>3 DEF d
  <2> QED BY <1>2, <2>1, <2>4, <2>5
<1> QED BY <1>1, <1>2

\* The connection has been lost.
LostConn == conn' = [DeadConn EXCEPT !.ignored = FALSE]
LEMMA Dead ==
  ASSUME conn \in Conns, LostConn
  PROVE  /\ conn' \in Conns /\ ~conn'.alive /\ ~conn'.inTrans /\ ~conn'.svp /\ conn'.op = "none"
         /\ ~conn'.point
         /\ (conn.err => conn.inTrans) => ~conn'.err
         /\ conn'.committing <=> conn.committing
<1> DEFINE b == OnAbortConn
           d == [b EXCEPT !.alive = FALSE]
<1>1. /\ b \in Conns /\ ~b.inTrans /\ ~b.svp /\ b.op = "none" /\ ~b.point
      /\ (conn.err => conn.inTrans) => ~b.err
      /\ b.committing <=> conn.committing
  BY OnAbort
<1> HIDE DEF b
<1>2. d \in Conns BY <1>1, Zenon DEF Conns
<1>3. /\ ~d.alive /\ ~d.inTrans /\ ~d.svp /\ d.op = "none" /\ ~d.point
      /\ d.err <=> b.err
      /\ d.committing <=> b.committing
  BY <1>1 DEF Conns
<1>4. DeadConn = d BY Zenon DEF DeadConn, d, b
<1> HIDE DEF d
<1>5. conn' = [d EXCEPT !.ignored = FALSE] BY <1>4 DEF LostConn
<1>6. conn' \in Conns BY <1>2, <1>5, Zenon DEF Conns
<1>7. /\ ~conn'.alive /\ ~conn'.inTrans /\ ~conn'.svp /\ conn'.op = "none" /\ ~conn'.point
      /\ conn'.err <=> d.err
      /\ conn'.committing <=> d.committing
  BY <1>2, <1>3, <1>5 DEF Conns
<1> QED BY <1>1, <1>3, <1>6, <1>7

--------------------
(* The server *)

PortNames == {"none", "trans", "held"}
StNames == {"IDLE", "INTRANS", "INERROR"}
Svp == [name : Svps, w : Nat]

LEMMA ServerFields ==
  ASSUME NEW s \in Servers
  PROVE  /\ s = [st |-> s.st, w |-> s.w, svps |-> s.svps, port |-> s.port]
         /\ s.st \in StNames /\ s.w \in Nat /\ s.svps \in Seq(Svp) /\ Len(s.svps) \in Nat
         /\ s.port \in [Handles -> Ports]
BY DEF Servers, StNames, Svp

LEMMA ServerType ==
  ASSUME NEW st \in StNames, NEW w \in Nat, NEW svps \in Seq(Svp), NEW port \in [Handles -> Ports]
  PROVE  [st |-> st, w |-> w, svps |-> svps, port |-> port] \in Servers
BY DEF Servers, StNames, Svp

LEMMA PortFields ==
  ASSUME NEW p \in Ports
  PROVE  /\ p = [st |-> p.st, hold |-> p.hold, lvl |-> p.lvl]
         /\ p.st \in PortNames /\ p.hold \in BOOLEAN /\ p.lvl \in Nat
BY DEF Ports, PortNames

LEMMA PortType ==
  ASSUME NEW st \in PortNames, NEW hold \in BOOLEAN, NEW lvl \in Nat
  PROVE  /\ [st |-> st, hold |-> hold, lvl |-> lvl] \in Ports
         /\ [st |-> st, hold |-> hold, lvl |-> lvl].st = st
         /\ [st |-> st, hold |-> hold, lvl |-> lvl].hold <=> hold
         /\ [st |-> st, hold |-> hold, lvl |-> lvl].lvl = lvl
<1>1. [st |-> st, hold |-> hold, lvl |-> lvl] \in Ports BY Zenon DEF Ports, PortNames
<1>2. [st |-> st, hold |-> hold, lvl |-> lvl].hold = hold BY Zenon
<1> QED BY <1>1, <1>2

LEMMA NoPortType == NoPort \in Ports /\ NoPort.st = "none" /\ ~NoPort.hold /\ NoPort.lvl = 0
<1>1. FALSE \in BOOLEAN /\ "none" \in PortNames /\ 0 \in Nat BY DEF PortNames
<1> QED BY <1>1, PortType DEF NoPort

\* A port with another level.
LEMMA PortLvl ==
  ASSUME NEW p \in Ports, NEW lvl \in Nat
  PROVE  /\ [p EXCEPT !.lvl = lvl] \in Ports
         /\ [p EXCEPT !.lvl = lvl].st = p.st
         /\ [p EXCEPT !.lvl = lvl].hold <=> p.hold
         /\ [p EXCEPT !.lvl = lvl].lvl = lvl
BY DEF Ports

\* The end of a transaction.
LEMMA TransEnded ==
  ASSUME NEW s \in Servers, NEW keep \in BOOLEAN
  PROVE  LET r == TransEnds(s, keep)
         IN  /\ r \in Servers /\ r.st = "IDLE"
             /\ \A h \in Handles :
                  LET p == s.port[h] IN
                  r.port[h].st = IF p.st = "held" \/ (keep /\ p.st = "trans" /\ p.hold)
                                 THEN "held" ELSE "none"
<1> DEFINE pt(h) == IF s.port[h].st = "held" THEN s.port[h]
                    ELSE IF keep /\ s.port[h].st = "trans" /\ s.port[h].hold
                         THEN [s.port[h] EXCEPT !.st = "held", !.lvl = 0]
                         ELSE NoPort
           port == [h \in Handles |-> pt(h)]
<1>1. ASSUME NEW h \in Handles
      PROVE  /\ pt(h) \in Ports
             /\ pt(h).st = IF s.port[h].st = "held" \/ (keep /\ s.port[h].st = "trans" /\ s.port[h].hold)
                           THEN "held" ELSE "none"
  <2>1. s.port[h] \in Ports BY ServerFields
  <2>2. 0 \in Nat /\ "held" \in PortNames BY DEF PortNames
  <2> DEFINE p == s.port[h]
  <2> HIDE DEF p
  <2>3. /\ [p EXCEPT !.st = "held", !.lvl = 0] \in Ports
        /\ [p EXCEPT !.st = "held", !.lvl = 0].st = "held"
    BY <2>1, <2>2 DEF p, Ports, PortNames
  <2> QED BY <2>1, <2>3, NoPortType DEF p
<1> HIDE DEF pt
<1>2. port \in [Handles -> Ports] BY <1>1
<1>3. TransEnds(s, keep) = [s EXCEPT !.st = "IDLE", !.w = 0, !.svps = << >>, !.port = port]
  BY Zenon DEF TransEnds, port, pt
<1> HIDE DEF port
<1> DEFINE r == [s EXCEPT !.st = "IDLE", !.w = 0, !.svps = << >>, !.port = port]
<1>4. r.st = "IDLE" /\ r.port = port BY DEF Servers
<1>5. r \in Servers
  <2>1. << >> \in Seq(Svp) OBVIOUS
  <2> QED BY <1>2, <2>1 DEF Servers, Svp
<1> HIDE DEF r
<1>6. \A h \in Handles : port[h] = pt(h) BY DEF port
<1> QED BY <1>1, <1>3, <1>4, <1>5, <1>6 DEF r

LEMMA RolledBack ==
  ASSUME NEW s \in Servers, NEW i \in 1..Len(s.svps)
  PROVE  LET r == RolledBackTo(s, i)
         IN  /\ r \in Servers /\ r.st = "INTRANS"
             /\ Len(r.svps) = i /\ \A j \in 1..i : r.svps[j] = s.svps[j]
             /\ \A h \in Handles :
                  r.port[h] = IF s.port[h].st = "trans" /\ s.port[h].lvl >= i THEN NoPort
                              ELSE s.port[h]
<1> DEFINE pt(h) == IF s.port[h].st = "trans" /\ s.port[h].lvl >= i THEN NoPort ELSE s.port[h]
           port == [h \in Handles |-> pt(h)]
           svps == SubSeq(s.svps, 1, i)
<1>1. s.svps \in Seq(Svp) /\ Len(s.svps) \in Nat /\ s.port \in [Handles -> Ports] BY ServerFields
<1>2. port \in [Handles -> Ports] BY <1>1, NoPortType
<1>3. /\ svps \in Seq(Svp) /\ Len(svps) = i
      /\ \A j \in 1..i : svps[j] = s.svps[j]
  <2>1. 1 \in 1..Len(s.svps) + 1 /\ i \in 0..Len(s.svps) /\ 1 \in Int /\ i \in Int /\ 1 <= i BY <1>1
  <2>2. /\ svps \in Seq(Svp) /\ Len(svps) = i - 1 + 1
        /\ \A j \in 1..Len(svps) : svps[j] = s.svps[1 + j - 1]
    BY <1>1, <2>1, SubSeqProperties
  <2> HIDE DEF svps
  <2>3. \A j \in 1..i : 1 + j - 1 = j OBVIOUS
  <2> QED BY <2>2, <2>3
<1>4. s.svps[i].w \in Nat
  <2>1. s.svps[i] \in Svp BY <1>1, ElementOfSeq
  <2> QED BY <2>1 DEF Svp
<1>5. RolledBackTo(s, i) = [s EXCEPT !.st = "INTRANS", !.w = s.svps[i].w, !.svps = svps, !.port = port]
  BY Zenon DEF RolledBackTo, port, pt, svps
<1>6. \A h \in Handles : port[h] = pt(h) OBVIOUS
<1> HIDE DEF port, svps
<1> DEFINE w == s.svps[i].w
<1> HIDE DEF w
<1> DEFINE r == [s EXCEPT !.st = "INTRANS", !.w = w, !.svps = svps, !.port = port]
<1>7. r.st = "INTRANS" /\ r.port = port /\ r.svps = svps BY DEF Servers
<1>8. r \in Servers
  <2>1. w \in Nat BY <1>4 DEF w
  <2> QED BY <1>2, <1>3, <2>1 DEF Servers, Svp
<1> HIDE DEF r
<1>9. RolledBackTo(s, i) = r BY <1>5 DEF r, w
<1> QED BY <1>3, <1>6, <1>7, <1>8, <1>9

LEMMA ReleasedTo ==
  ASSUME NEW s \in Servers, NEW i \in 1..Len(s.svps)
  PROVE  LET r == Released(s, i)
         IN  /\ r \in Servers /\ r.st = s.st
             /\ Len(r.svps) = i - 1 /\ \A j \in 1..(i - 1) : r.svps[j] = s.svps[j]
             /\ \A h \in Handles :
                  /\ r.port[h].st = s.port[h].st
                  /\ r.port[h].hold <=> s.port[h].hold
                  /\ r.port[h].lvl = IF s.port[h].lvl >= i THEN i - 1 ELSE s.port[h].lvl
<1> DEFINE pt(h) == IF s.port[h].lvl >= i THEN [s.port[h] EXCEPT !.lvl = i - 1] ELSE s.port[h]
           port == [h \in Handles |-> pt(h)]
           svps == SubSeq(s.svps, 1, i - 1)
<1>1. s.svps \in Seq(Svp) /\ Len(s.svps) \in Nat /\ s.port \in [Handles -> Ports] BY ServerFields
<1>2. ASSUME NEW h \in Handles
      PROVE  /\ pt(h) \in Ports /\ pt(h).st = s.port[h].st
             /\ pt(h).hold <=> s.port[h].hold
             /\ pt(h).lvl = IF s.port[h].lvl >= i THEN i - 1 ELSE s.port[h].lvl
  <2> DEFINE p == s.port[h]
             n == i - 1
  <2>1. p \in Ports /\ n \in Nat BY <1>1
  <2>2. pt(h) = IF p.lvl >= i THEN [p EXCEPT !.lvl = n] ELSE p OBVIOUS
  <2> HIDE DEF p, n, pt
  <2>3. /\ [p EXCEPT !.lvl = n] \in Ports /\ [p EXCEPT !.lvl = n].st = p.st
        /\ [p EXCEPT !.lvl = n].hold <=> p.hold
        /\ [p EXCEPT !.lvl = n].lvl = n
    BY <2>1, PortLvl
  <2> QED BY <2>1, <2>2, <2>3 DEF p, n
<1>3. port \in [Handles -> Ports] BY <1>2
<1>4. /\ svps \in Seq(Svp) /\ Len(svps) = i - 1
      /\ \A j \in 1..(i - 1) : svps[j] = s.svps[j]
  <2>1. 1 \in 1..Len(s.svps) + 1 /\ i - 1 \in 0..Len(s.svps) /\ 1 \in Int /\ i - 1 \in Int /\ 1 <= i
    BY <1>1
  <2>2. CASE i = 1
    <3>1. svps = SubSeq(s.svps, 1, 0) /\ i - 1 = 0 BY <2>2
    <3>2. SubSeq(s.svps, 1, 0) = << >> BY <1>1, SubSeqProperties, EmptySeq
    <3> QED BY <3>1, <3>2
  <2>3. CASE i # 1
    <3>1. 1 <= i - 1 /\ i - 1 \in 1..Len(s.svps) BY <1>1, <2>3
    <3>2. /\ svps \in Seq(Svp) /\ Len(svps) = (i - 1) - 1 + 1
          /\ \A j \in 1..Len(svps) : svps[j] = s.svps[1 + j - 1]
      BY <1>1, <2>1, <3>1, SubSeqProperties
    <3> HIDE DEF svps
    <3>3. (i - 1) - 1 + 1 = i - 1 /\ \A j \in 1..(i - 1) : 1 + j - 1 = j OBVIOUS
    <3> QED BY <3>2, <3>3
  <2> QED BY <2>2, <2>3
<1>5. Released(s, i) = [s EXCEPT !.svps = svps, !.port = port] BY Zenon DEF Released, port, pt, svps
<1>6. \A h \in Handles : port[h] = pt(h) OBVIOUS
<1> HIDE DEF port, svps, pt
<1> DEFINE r == [s EXCEPT !.svps = svps, !.port = port]
<1>7. r.st = s.st /\ r.port = port /\ r.svps = svps BY DEF Servers
<1>8. r \in Servers BY <1>3, <1>4 DEF Servers, Svp
<1> HIDE DEF r
<1> QED BY <1>2, <1>4, <1>5, <1>6, <1>7, <1>8 DEF r

(* Savepoints by name. *)

LEMMA LeastElement ==
  ASSUME NEW T \in SUBSET Nat, T # {}
  PROVE  \E x \in T : \A y \in T : x <= y
<1> DEFINE F == {1..n : n \in T}
           R == StrictSubsetOrdering(Nat)
<1>1. F \subseteq FiniteSubsetsOf(Nat) /\ F # {}
  <2>1. \A n \in T : 1..n \in SUBSET Nat /\ IsFiniteSet(1..n) BY FS_Interval
  <2> QED BY <2>1 DEF FiniteSubsetsOf
<1>2. IsWellFoundedOn(R, FiniteSubsetsOf(Nat)) BY FS_StrictSubsetOrderingWellFounded
<1>3. PICK s \in F : \A t \in F : ~(<<t, s>> \in R)
  <2> HIDE DEF F, R
  <2> QED BY <1>1, <1>2, WFMin
<1>4. PICK x \in T : s = 1..x OBVIOUS
<1>5. ASSUME NEW y \in T, y < x
      PROVE  FALSE
  <2>1. 1..y \subseteq 1..x /\ 1..y # 1..x /\ 1..y \in SUBSET Nat /\ 1..x \in SUBSET Nat BY <1>5
  <2>2. <<1..y, s>> \in R BY <1>4, <2>1 DEF StrictSubsetOrdering
  <2> QED BY <1>3, <2>2
<1> QED BY <1>5

LEMMA LatestIs ==
  ASSUME NEW s \in Servers, NEW n, Indices(s, n) # {}
  PROVE  Latest(s, n) \in Indices(s, n) /\ \A j \in Indices(s, n) : j <= Latest(s, n)
<1> DEFINE T == {Len(s.svps) - i : i \in Indices(s, n)}
<1>1. Len(s.svps) \in Nat /\ Indices(s, n) \subseteq 1..Len(s.svps) BY ServerFields DEF Indices
<1>2. T \in SUBSET Nat /\ T # {} BY <1>1
<1>3. PICK x \in T : \A y \in T : x <= y
  <2> HIDE DEF T
  <2> QED BY <1>2, LeastElement
<1>4. PICK i \in Indices(s, n) : x = Len(s.svps) - i OBVIOUS
<1>5. \A j \in Indices(s, n) : j <= i
  <2> SUFFICES ASSUME NEW j \in Indices(s, n) PROVE j <= i OBVIOUS
  <2>1. Len(s.svps) - j \in T OBVIOUS
  <2>2. Len(s.svps) - i <= Len(s.svps) - j BY <1>3, <1>4, <2>1
  <2> QED BY <1>1, <2>2
<1> QED BY <1>5 DEF Latest

LEMMA LatestTop ==
  ASSUME NEW s \in Servers, NEW n, NEW i \in Indices(s, n), \A j \in Indices(s, n) : j <= i
  PROVE  Latest(s, n) = i
<1>1. Latest(s, n) \in Indices(s, n) /\ \A j \in Indices(s, n) : j <= Latest(s, n) BY LatestIs
<1>2. Latest(s, n) <= i /\ i <= Latest(s, n) BY <1>1
<1>3. Len(s.svps) \in Nat /\ i \in 1..Len(s.svps) /\ Latest(s, n) \in 1..Len(s.svps)
  BY <1>1, ServerFields DEF Indices
<1> QED BY <1>2, <1>3

(* What a command does. *)

Tags == {"BEGIN", "SAVEPOINT", "ROLLBACK", "RELEASE", "COMMIT", "OTHER", "ERROR"}
SameTrans(s, t) == t \in Servers /\ t.st = s.st /\ t.svps = s.svps /\ t.port = s.port
FailedTrans(s, t) == /\ t \in Servers /\ t.st = (IF s.st = "IDLE" THEN "IDLE" ELSE "INERROR")
                     /\ t.svps = s.svps /\ t.port = s.port
\* the three parts of a reply
Says(r, tag, notice) == r.tag = tag /\ (r.notice <=> notice)

LEMMA SameSelf ==
  ASSUME NEW s \in Servers
  PROVE  SameTrans(s, s)
BY DEF SameTrans

LEMMA ReplyIs ==
  ASSUME NEW s, NEW tag
  PROVE  /\ Reply(s, tag).srv = s /\ Says(Reply(s, tag), tag, FALSE)
         /\ Warned(s, tag).srv = s /\ Says(Warned(s, tag), tag, TRUE)
<1> DEFINE u == Reply(s, tag)
           R == [srv : {s}, tag : {tag}, notice : BOOLEAN]
<1>1. u \in R /\ u.srv = s /\ u.tag = tag /\ ~u.notice BY Zenon DEF Reply
<1>2. Warned(s, tag) = [u EXCEPT !.notice = TRUE] BY DEF Warned
<1> HIDE DEF u
<1> DEFINE v == [u EXCEPT !.notice = TRUE]
<1>3. v.srv = u.srv /\ v.tag = u.tag /\ v.notice BY <1>1
<1> HIDE DEF v
<1>4. Warned(s, tag) = v BY <1>2 DEF v
<1> QED BY <1>1, <1>3, <1>4 DEF Says, u

LEMMA FailedIs ==
  ASSUME NEW s \in Servers
  PROVE  FailedTrans(s, Failed(s).srv) /\ Says(Failed(s), "ERROR", FALSE)
<1> DEFINE t == [s EXCEPT !.st = IF s.st = "IDLE" THEN "IDLE" ELSE "INERROR"]
<1>1. FailedTrans(s, t) BY DEF FailedTrans, Servers
<1>2. Failed(s) = Reply(t, "ERROR") BY DEF Failed
<1> HIDE DEF t
<1> QED BY <1>1, <1>2, ReplyIs

LEMMA BeginReply ==
  ASSUME NEW s \in Servers, NEW c \in Cmds, c.op \in {"begin", "start"}, NEW r \in Replies(s, c)
  PROVE  \/ s.st = "INERROR" /\ r.tag = "ERROR" /\ FailedTrans(s, r.srv)
         \/ /\ s.st # "INERROR" /\ r.srv \in Servers /\ r.srv.st = "INTRANS"
            /\ r.srv.svps = s.svps /\ r.srv.port = s.port
            /\ Says(r, IF c.op = "begin" THEN "BEGIN" ELSE "OTHER", s.st # "IDLE")
<1> DEFINE tag == IF c.op = "begin" THEN "BEGIN" ELSE "OTHER"
           t == [s EXCEPT !.st = "INTRANS"]
<1>1. t \in Servers /\ t.st = "INTRANS" /\ t.svps = s.svps /\ t.port = s.port BY DEF Servers
<1>2. CASE s.st = "INERROR"
  <2>1. r = Failed(s) BY <1>2 DEF Replies, PlainReplies
  <2> QED BY <1>2, <2>1, FailedIs DEF Says
<1>3. CASE s.st = "IDLE"
  <2>1. r = Reply(t, tag) BY <1>3 DEF Replies, PlainReplies
  <2> HIDE DEF t, tag
  <2>2. r.srv = t /\ Says(r, tag, FALSE) BY <2>1, ReplyIs
  <2> QED BY <1>1, <1>3, <2>2 DEF tag
<1>4. CASE s.st = "INTRANS"
  <2>1. r = Warned(s, tag) BY <1>4 DEF Replies, PlainReplies
  <2> HIDE DEF t, tag
  <2>2. r.srv = s /\ Says(r, tag, TRUE) BY <2>1, ReplyIs
  <2> QED BY <1>4, <2>2 DEF tag
<1> QED BY <1>2, <1>3, <1>4, ServerFields DEF StNames

LEMMA EndReply ==
  ASSUME NEW s \in Servers, NEW c \in Cmds, c.op \in {"commit", "rollback"}, NEW r \in Replies(s, c)
  PROVE  \/ /\ s.st = "IDLE" /\ r.srv = s
            /\ Says(r, IF c.op = "commit" THEN "COMMIT" ELSE "ROLLBACK", TRUE)
         \/ s.st = "INTRANS" /\ r.srv = TransEnds(s, TRUE) /\ Says(r, "COMMIT", FALSE)
         \/ /\ s.st # "IDLE" /\ r.srv = TransEnds(s, FALSE)
            /\ Says(r, "ROLLBACK", FALSE) \/ Says(r, "ERROR", FALSE)
<1> DEFINE tag == IF c.op = "commit" THEN "COMMIT" ELSE "ROLLBACK"
           t == TransEnds(s, TRUE)
           f == TransEnds(s, FALSE)
<1>1. \/ s.st = "IDLE" /\ r = Warned(s, tag)
      \/ s.st = "INTRANS" /\ r = Reply(t, "COMMIT")
      \/ s.st # "IDLE" /\ r = Reply(f, "ERROR")
      \/ s.st # "IDLE" /\ r = Reply(f, "ROLLBACK")
  <2>1. r \in EndReplies(s, c) BY DEF Replies
  <2>2. s.st \in StNames BY ServerFields
  <2> QED BY <2>1, <2>2 DEF EndReplies, StNames
<1> HIDE DEF tag, t, f
<1>2. CASE s.st = "IDLE" /\ r = Warned(s, tag) BY <1>2, ReplyIs DEF tag
<1>3. CASE s.st = "INTRANS" /\ r = Reply(t, "COMMIT") BY <1>3, ReplyIs DEF t
<1>4. CASE s.st # "IDLE" /\ r = Reply(f, "ERROR") BY <1>4, ReplyIs DEF f
<1>5. CASE s.st # "IDLE" /\ r = Reply(f, "ROLLBACK") BY <1>5, ReplyIs DEF f
<1> QED BY <1>1, <1>2, <1>3, <1>4, <1>5

LEMMA SavepointReply ==
  ASSUME NEW s \in Servers, NEW c \in Cmds, c.op = "savepoint", NEW r \in Replies(s, c)
  PROVE  \/ s.st # "INTRANS" /\ r.tag = "ERROR" /\ FailedTrans(s, r.srv)
         \/ /\ s.st = "INTRANS" /\ Says(r, "SAVEPOINT", FALSE)
            /\ r.srv \in Servers /\ r.srv.st = "INTRANS" /\ r.srv.port = s.port
            /\ Len(r.srv.svps) = Len(s.svps) + 1
            /\ r.srv.svps[Len(s.svps) + 1].name = c.svp
            /\ \A j \in 1..Len(s.svps) : r.srv.svps[j] = s.svps[j]
<1>1. CASE s.st # "INTRANS"
  <2>1. r = Failed(s) BY <1>1, ServerFields DEF Replies, SvpReplies, StNames
  <2> QED BY <1>1, <2>1, FailedIs DEF Says
<1>2. CASE s.st = "INTRANS"
  <2> DEFINE e == [name |-> c.svp, w |-> s.w]
             svps == Append(s.svps, e)
             t == [s EXCEPT !.svps = svps]
  <2>1. r = Reply(t, "SAVEPOINT") BY <1>2 DEF Replies, SvpReplies
  <2>2. e \in Svp /\ e.name = c.svp BY CmdFields, ServerFields DEF Svp
  <2> HIDE DEF e
  <2>3. /\ svps \in Seq(Svp) /\ Len(svps) = Len(s.svps) + 1 /\ svps[Len(s.svps) + 1] = e
        /\ \A j \in 1..Len(s.svps) : svps[j] = s.svps[j]
    BY <2>2, ServerFields, AppendProperties
  <2> HIDE DEF svps
  <2>4. t \in Servers /\ t.st = s.st /\ t.svps = svps /\ t.port = s.port BY <2>3 DEF Servers, Svp
  <2> HIDE DEF t
  <2>5. r.srv = t /\ Says(r, "SAVEPOINT", FALSE) BY <2>1, ReplyIs
  <2> QED BY <1>2, <2>2, <2>3, <2>4, <2>5
<1> QED BY <1>1, <1>2

LEMMA ReleaseReply ==
  ASSUME NEW s \in Servers, NEW c \in Cmds, c.op = "release", NEW r \in Replies(s, c)
  PROVE  \/ /\ s.st # "INTRANS" \/ Indices(s, c.svp) = {}
            /\ r.tag = "ERROR" /\ FailedTrans(s, r.srv)
         \/ /\ s.st = "INTRANS" /\ Indices(s, c.svp) # {} /\ Says(r, "RELEASE", FALSE)
            /\ r.srv = Released(s, Latest(s, c.svp))
<1>1. CASE s.st # "INTRANS" \/ Indices(s, c.svp) = {}
  <2>1. r = Failed(s) BY <1>1, ServerFields DEF Replies, SvpReplies, StNames
  <2> QED BY <1>1, <2>1, FailedIs DEF Says
<1>2. CASE s.st = "INTRANS" /\ Indices(s, c.svp) # {}
  <2>1. r = Reply(Released(s, Latest(s, c.svp)), "RELEASE") BY <1>2 DEF Replies, SvpReplies
  <2> QED BY <1>2, <2>1, ReplyIs
<1> QED BY <1>1, <1>2

LEMMA RollbackToReply ==
  ASSUME NEW s \in Servers, NEW c \in Cmds, c.op = "rollback_to", NEW r \in Replies(s, c)
  PROVE  \/ /\ s.st = "IDLE" \/ Indices(s, c.svp) = {}
            /\ r.tag = "ERROR" /\ FailedTrans(s, r.srv)
         \/ /\ s.st # "IDLE" /\ Indices(s, c.svp) # {} /\ Says(r, "ROLLBACK", FALSE)
            /\ r.srv = RolledBackTo(s, Latest(s, c.svp))
<1>1. CASE s.st = "IDLE" \/ Indices(s, c.svp) = {}
  <2>1. r = Failed(s) BY <1>1, ServerFields DEF Replies, SvpReplies, StNames
  <2> QED BY <1>1, <2>1, FailedIs DEF Says
<1>2. CASE s.st # "IDLE" /\ Indices(s, c.svp) # {}
  <2>1. r = Reply(RolledBackTo(s, Latest(s, c.svp)), "ROLLBACK") BY <1>2 DEF Replies, SvpReplies
  <2> QED BY <1>2, <2>1, ReplyIs
<1> QED BY <1>1, <1>2

\* A statement that needs no transaction and changes none.
LEMMA PlainReply ==
  ASSUME NEW s \in Servers, NEW c \in Cmds, c.op \in {"write", "read", "special"},
         NEW r \in Replies(s, c)
  PROVE  \/ r.tag = "ERROR" /\ FailedTrans(s, r.srv)
         \/ s.st # "INERROR" /\ r.tag = "OTHER" /\ SameTrans(s, r.srv)
<1>1. CASE r = Failed(s) BY <1>1, FailedIs DEF Says
<1>2. CASE r # Failed(s) /\ c.op = "special"
  <2>1. r = Reply(s, "OTHER") /\ s.st # "INERROR" BY <1>2 DEF Replies, PlainReplies
  <2> QED BY <2>1, ReplyIs, SameSelf DEF Says
<1>3. CASE r # Failed(s) /\ c.op \in {"write", "read"}
  <2> DEFINE w == IF s.st # "IDLE" /\ c.op = "write" THEN s.w + 1 ELSE s.w
             t == [s EXCEPT !.w = w]
  <2>1. s.st # "INERROR" /\ (r = Reply(t, "OTHER") \/ r = Warned(t, "OTHER"))
    BY <1>3 DEF Replies, PlainReplies
  <2>2. w \in Nat BY ServerFields
  <2> HIDE DEF w
  <2>3. SameTrans(s, t) BY <2>2 DEF SameTrans, Servers
  <2> HIDE DEF t
  <2>4. r.srv = t /\ r.tag = "OTHER" BY <2>1, ReplyIs DEF Says
  <2> QED BY <2>1, <2>3, <2>4
<1> QED BY <1>1, <1>2, <1>3

LEMMA DeallocateReply ==
  ASSUME NEW s \in Servers, NEW c \in Cmds, c.op = "deallocate", NEW r \in Replies(s, c)
  PROVE  \/ s.st = "INERROR" /\ r.tag = "ERROR" /\ FailedTrans(s, r.srv)
         \/ s.st # "INERROR" /\ Says(r, "OTHER", FALSE) /\ r.srv = s
<1>1. CASE s.st = "INERROR"
  <2>1. r = Failed(s) BY <1>1 DEF Replies, PlainReplies
  <2> QED BY <1>1, <2>1, FailedIs DEF Says
<1>2. CASE s.st # "INERROR"
  <2>1. r = Reply(s, "OTHER") BY <1>2 DEF Replies, PlainReplies
  <2> QED BY <1>2, <2>1, ReplyIs
<1> QED BY <1>1, <1>2

\* A command on a cursor that is there.
LEMMA FetchReply ==
  ASSUME NEW s \in Servers, NEW c \in Cmds, c.op \in {"fetch", "move"}, NEW r \in Replies(s, c)
  PROVE  \/ /\ s.st = "INERROR" \/ s.port[c.h].st = "none"
            /\ r.tag = "ERROR" /\ FailedTrans(s, r.srv)
         \/ /\ s.st # "INERROR" /\ s.port[c.h].st # "none" /\ Says(r, "OTHER", FALSE)
            /\ r.srv = s
<1>1. CASE s.st = "INERROR" \/ s.port[c.h].st = "none"
  <2>1. r = Failed(s) BY <1>1 DEF Replies, PlainReplies, CursorReplies
  <2> QED BY <1>1, <2>1, FailedIs DEF Says
<1>2. CASE s.st # "INERROR" /\ s.port[c.h].st # "none"
  <2>1. r = Reply(s, "OTHER") BY <1>2 DEF Replies, PlainReplies, CursorReplies
  <2> QED BY <1>2, <2>1, ReplyIs
<1> QED BY <1>1, <1>2

LEMMA WithPortIs ==
  ASSUME NEW s \in Servers, NEW h \in Handles, NEW p \in Ports
  PROVE  /\ WithPort(s, h, p) \in Servers /\ WithPort(s, h, p).st = s.st
         /\ WithPort(s, h, p).svps = s.svps
         /\ WithPort(s, h, p).port[h] = p
         /\ \A g \in Handles : g # h => WithPort(s, h, p).port[g] = s.port[g]
<1> DEFINE port == [s.port EXCEPT ![h] = p]
<1>1. port \in [Handles -> Ports] /\ port[h] = p /\ \A g \in Handles : g # h => port[g] = s.port[g]
  BY ServerFields
<1> HIDE DEF port
<1>2. WithPort(s, h, p) = [s EXCEPT !.port = port] BY DEF WithPort, port
<1> DEFINE t == [s EXCEPT !.port = port]
<1>3. t \in Servers /\ t.st = s.st /\ t.svps = s.svps /\ t.port = port BY <1>1 DEF Servers
<1> HIDE DEF t
<1>4. WithPort(s, h, p) = t BY <1>2 DEF t
<1> QED BY <1>1, <1>3, <1>4

LEMMA CloseReply ==
  ASSUME NEW s \in Servers, NEW c \in Cmds, c.op = "close", c.h \in Handles, NEW r \in Replies(s, c)
  PROVE  \/ /\ s.st = "INERROR" \/ s.port[c.h].st = "none"
            /\ r.tag = "ERROR" /\ FailedTrans(s, r.srv)
         \/ /\ s.st # "INERROR" /\ s.port[c.h].st # "none" /\ Says(r, "OTHER", FALSE)
            /\ r.srv \in Servers /\ r.srv.st = s.st /\ r.srv.svps = s.svps
            /\ r.srv.port[c.h].st = "none"
            /\ \A g \in Handles : g # c.h => r.srv.port[g] = s.port[g]
<1>1. CASE s.st = "INERROR" \/ s.port[c.h].st = "none"
  <2>1. r = Failed(s) BY <1>1 DEF Replies, PlainReplies, CursorReplies
  <2> QED BY <1>1, <2>1, FailedIs DEF Says
<1>2. CASE s.st # "INERROR" /\ s.port[c.h].st # "none"
  <2>1. r = Reply(WithPort(s, c.h, NoPort), "OTHER") BY <1>2 DEF Replies, PlainReplies, CursorReplies
  <2> DEFINE t == WithPort(s, c.h, NoPort)
  <2>2. /\ t \in Servers /\ t.st = s.st /\ t.svps = s.svps /\ t.port[c.h].st = "none"
        /\ \A g \in Handles : g # c.h => t.port[g] = s.port[g]
    BY WithPortIs, NoPortType
  <2> HIDE DEF t
  <2>3. r.srv = t /\ Says(r, "OTHER", FALSE) BY <2>1, ReplyIs DEF t
  <2> QED BY <1>2, <2>2, <2>3
<1> QED BY <1>1, <1>2

LEMMA DeclareReply ==
  ASSUME NEW s \in Servers, NEW c \in Cmds, c.op = "declare", c.h \in Handles, NEW r \in Replies(s, c)
  PROVE  \/ r.tag = "ERROR" /\ FailedTrans(s, r.srv)
         \/ /\ s.st # "INERROR" /\ s.port[c.h].st = "none" /\ Says(r, "OTHER", FALSE)
            /\ r.srv \in Servers /\ r.srv.st = s.st /\ r.srv.svps = s.svps
            /\ r.srv.port[c.h].st = IF s.st = "IDLE" THEN "held" ELSE "trans"
            /\ r.srv.port[c.h].hold <=> c.hold
            /\ r.srv.port[c.h].lvl = Len(s.svps)
            /\ \A g \in Handles : g # c.h => r.srv.port[g] = s.port[g]
<1> DEFINE st == IF s.st = "IDLE" THEN "held" ELSE "trans"
           p == [st |-> st, hold |-> c.hold, lvl |-> Len(s.svps)]
           t == WithPort(s, c.h, p)
<1>1. r = Failed(s) \/ (s.st # "INERROR" /\ s.port[c.h].st = "none" /\ r = Reply(t, "OTHER"))
  BY DEF Replies, PlainReplies, CursorReplies
<1>2. p \in Ports /\ p.st = st /\ (p.hold <=> c.hold) /\ p.lvl = Len(s.svps)
  <2>1. st \in PortNames /\ c.hold \in BOOLEAN /\ Len(s.svps) \in Nat
    BY ServerFields, CmdFields DEF PortNames
  <2> HIDE DEF st
  <2> QED BY <2>1, PortType
<1> HIDE DEF p
<1>3. /\ t \in Servers /\ t.st = s.st /\ t.svps = s.svps /\ t.port[c.h] = p
      /\ \A g \in Handles : g # c.h => t.port[g] = s.port[g]
  BY <1>2, WithPortIs
<1> HIDE DEF t
<1>4. CASE r = Failed(s) BY <1>4, FailedIs DEF Says
<1>5. CASE s.st # "INERROR" /\ s.port[c.h].st = "none" /\ r = Reply(t, "OTHER")
  <2>1. r.srv = t /\ Says(r, "OTHER", FALSE) BY <1>5, ReplyIs
  <2> QED BY <1>2, <1>3, <1>5, <2>1
<1> QED BY <1>1, <1>4, <1>5

\* Of any command.
LEMMA ReplyType ==
  ASSUME NEW s \in Servers, NEW c \in Cmds, NEW r \in Replies(s, c),
         c.op \in {"declare", "close"} => c.h \in Handles
  PROVE  r.srv \in Servers /\ r.tag \in Tags
<1>1. c.op \in CmdNames BY CmdFields
<1>2. CASE c.op \in {"begin", "start"} BY <1>2, BeginReply DEF FailedTrans, Says, Tags
<1>3. CASE c.op \in {"commit", "rollback"}
  <2>1. TransEnds(s, TRUE) \in Servers /\ TransEnds(s, FALSE) \in Servers BY TransEnded
  <2> QED BY <1>3, <2>1, EndReply DEF Says, Tags
<1>4. CASE c.op = "savepoint" BY <1>4, SavepointReply DEF FailedTrans, Says, Tags
<1>5. CASE c.op = "release"
  <2>1. Indices(s, c.svp) # {} => Released(s, Latest(s, c.svp)) \in Servers
    <3> SUFFICES ASSUME Indices(s, c.svp) # {} PROVE Released(s, Latest(s, c.svp)) \in Servers OBVIOUS
    <3>1. Latest(s, c.svp) \in 1..Len(s.svps) BY LatestIs DEF Indices
    <3> QED BY <3>1, ReleasedTo
  <2> QED BY <1>5, <2>1, ReleaseReply DEF FailedTrans, Says, Tags
<1>6. CASE c.op = "rollback_to"
  <2>1. Indices(s, c.svp) # {} => RolledBackTo(s, Latest(s, c.svp)) \in Servers
    <3> SUFFICES ASSUME Indices(s, c.svp) # {} PROVE RolledBackTo(s, Latest(s, c.svp)) \in Servers OBVIOUS
    <3>1. Latest(s, c.svp) \in 1..Len(s.svps) BY LatestIs DEF Indices
    <3> QED BY <3>1, RolledBack
  <2> QED BY <1>6, <2>1, RollbackToReply DEF FailedTrans, Says, Tags
<1>7. CASE c.op \in {"write", "read", "special"} BY <1>7, PlainReply DEF FailedTrans, SameTrans, Tags
<1>8. CASE c.op = "deallocate" BY <1>8, DeallocateReply DEF FailedTrans, Says, Tags
<1>9. CASE c.op \in {"fetch", "move"} BY <1>9, FetchReply DEF FailedTrans, Says, Tags
<1>10. CASE c.op = "close" BY <1>10, CloseReply DEF FailedTrans, Says, Tags
<1>11. CASE c.op = "declare" BY <1>11, DeclareReply DEF FailedTrans, Says, Tags
<1> QED BY <1>1, <1>2, <1>3, <1>4, <1>5, <1>6, <1>7, <1>8, <1>9, <1>10, <1>11 DEF CmdNames, Kinds

--------------------
(* New stacks *)

LEMMA Split ==
  ASSUME NEW S, NEW a \in S, NEW q \in Seq(S), NEW s \in Seq(S), Len(s) = Len(q) + 1, s[1] = a,
         \A i \in 1..Len(q) : s[i + 1] = q[i]
  PROVE  s = <<a>> \o q
<1> DEFINE r == <<a>> \o q
<1>1. /\ r \in Seq(S) /\ Len(r) = Len(q) + 1 /\ Len(q) \in Nat
      /\ \A i \in 1..Len(q) + 1 : r[i] = IF i = 1 THEN a ELSE q[i - 1]
  BY Cons
<1> HIDE DEF r
<1>2. ASSUME NEW i \in 1..Len(s)
      PROVE  s[i] = r[i]
  <2>1. CASE i = 1 BY <1>1, <2>1
  <2>2. CASE i # 1
    <3>1. i - 1 \in 1..Len(q) /\ (i - 1) + 1 = i /\ i \in 1..Len(q) + 1 BY <1>1, <2>2
    <3>2. s[i] = q[i - 1] /\ r[i] = q[i - 1] BY <1>1, <2>2, <3>1
    <3> QED BY <3>2
  <2> QED BY <2>1, <2>2
<1>3. s = r BY <1>1, <1>2, SeqEqual
<1> QED BY <1>3 DEF r

LEMMA Stack1 ==
  ASSUME NEW a \in Tasks
  PROVE  LET s == <<a>> IN
         /\ Sound(s) /\ s # << >> /\ Head(s) = a /\ All(Tail(s)) = {} /\ All(s) = {a}
         /\ Truthful(s)
<1>1. <<a>> = <<a>> \o << >> OBVIOUS
<1>2. ~(<< >> # << >>) OBVIOUS
<1> DEFINE q == << >>
<1>3. Sound(q) /\ Truthful(q) /\ All(q) = {} BY NoneSound
<1> HIDE DEF q
<1>4. (Awaits(a) /\ q # << >> => Answers(Head(q)))
      /\ (Works(a) /\ q # << >> => Head(q).t # "opened")
  BY <1>2 DEF q
<1>5. /\ Sound(<<a>> \o q) /\ <<a>> \o q # << >>
      /\ Head(<<a>> \o q) = a /\ Tail(<<a>> \o q) = q /\ All(<<a>> \o q) = {a} \cup All(q)
      /\ Truthful(<<a>> \o q)
  BY <1>3, <1>4, Pushed
<1>6. <<a>> \o q = <<a>> BY <1>1 DEF q
<1> QED BY <1>3, <1>5, <1>6

LEMMA Stack2 ==
  ASSUME NEW a \in Tasks, NEW b \in Tasks, b.t \in Lower(a.t), ~Awaits(a) /\ ~Works(a), a.t # "return"
  PROVE  LET s == <<a, b>> IN
         /\ Sound(s) /\ s # << >> /\ Head(s) = a /\ All(Tail(s)) = {b} /\ All(s) = {a, b}
         /\ Truthful(s)
<1> DEFINE q == <<b>>
<1>1. Sound(q) /\ All(q) = {b} /\ Truthful(q) BY Stack1
<1>2. <<a, b>> = <<a>> \o q
  <2>1. <<a, b>> \in Seq(Tasks) /\ q \in Seq(Tasks) /\ Len(<<a, b>>) = Len(q) + 1 OBVIOUS
  <2>2. \A i \in 1..Len(q) : <<a, b>>[i + 1] = q[i] OBVIOUS
  <2>3. <<a, b>>[1] = a OBVIOUS
  <2> DEFINE s == <<a, b>>
  <2> HIDE DEF q, s
  <2>4. s = <<a>> \o q BY <2>1, <2>2, <2>3, Split DEF s
  <2> QED BY <2>4 DEF s
<1> HIDE DEF q
<1>3. /\ Sound(<<a>> \o q) /\ <<a>> \o q # << >> /\ Head(<<a>> \o q) = a
      /\ Tail(<<a>> \o q) = q /\ All(<<a>> \o q) = {a} \cup All(q) /\ Truthful(<<a>> \o q)
  BY <1>1, Pushed
<1> QED BY <1>1, <1>2, <1>3

LEMMA Stack3 ==
  ASSUME NEW a \in Tasks, NEW b \in Tasks, NEW c \in Tasks,
         b.t \in Lower(a.t), c.t \in Lower(a.t), c.t \in Lower(b.t),
         ~Awaits(a) /\ ~Works(a), a.t # "return", ~Awaits(b) /\ ~Works(b), b.t # "return",
         NEW s, s = <<a, b, c>>
  PROVE  /\ Sound(s) /\ s # << >> /\ Head(s) = a /\ All(Tail(s)) = {b, c}
         /\ All(s) = {a, b, c} /\ Truthful(s)
<1> DEFINE q == <<b, c>>
<1>1. Sound(q) /\ All(q) = {b, c} /\ Truthful(q) BY Stack2
<1>2. s = <<a>> \o q
  <2>1. <<a, b, c>> \in Seq(Tasks) /\ q \in Seq(Tasks) /\ Len(<<a, b, c>>) = Len(q) + 1 OBVIOUS
  <2>2. \A i \in 1..Len(q) : <<a, b, c>>[i + 1] = q[i] OBVIOUS
  <2>3. <<a, b, c>>[1] = a OBVIOUS
  <2>4. s \in Seq(Tasks) /\ Len(s) = Len(q) + 1 /\ s[1] = a /\ \A i \in 1..Len(q) : s[i + 1] = q[i]
    BY <2>1, <2>2, <2>3
  <2> HIDE DEF q
  <2> QED BY <2>1, <2>4, Split
<1> HIDE DEF q
<1>3. /\ Sound(<<a>> \o q) /\ <<a>> \o q # << >> /\ Head(<<a>> \o q) = a
      /\ Tail(<<a>> \o q) = q /\ All(<<a>> \o q) = {a} \cup All(q) /\ Truthful(<<a>> \o q)
  BY <1>1, Pushed
<1> QED BY <1>1, <1>2, <1>3

LEMMA Stack4 ==
  ASSUME NEW a \in Tasks, NEW b \in Tasks, NEW c \in Tasks, NEW d \in Tasks,
         b.t \in Lower(a.t), c.t \in Lower(a.t), d.t \in Lower(a.t),
         c.t \in Lower(b.t), d.t \in Lower(b.t), d.t \in Lower(c.t),
         ~Awaits(a) /\ ~Works(a), a.t # "return", ~Awaits(b) /\ ~Works(b), b.t # "return", ~Awaits(c) /\ ~Works(c), c.t # "return",
         NEW s, s = <<a, b, c, d>>
  PROVE  /\ Sound(s) /\ s # << >> /\ Head(s) = a /\ All(Tail(s)) = {b, c, d}
         /\ All(s) = {a, b, c, d} /\ Truthful(s)
<1> DEFINE q == <<b, c, d>>
<1>1. Sound(q) /\ All(q) = {b, c, d} /\ Truthful(q)
  <2>1. q = <<b, c, d>> OBVIOUS
  <2> HIDE DEF q
  <2> QED BY <2>1, Stack3
<1>2. s = <<a>> \o q
  <2>1. <<a, b, c, d>> \in Seq(Tasks) /\ q \in Seq(Tasks) /\ Len(<<a, b, c, d>>) = Len(q) + 1 OBVIOUS
  <2>2. \A i \in 1..Len(q) : <<a, b, c, d>>[i + 1] = q[i] OBVIOUS
  <2>3. <<a, b, c, d>>[1] = a OBVIOUS
  <2>4. s \in Seq(Tasks) /\ Len(s) = Len(q) + 1 /\ s[1] = a /\ \A i \in 1..Len(q) : s[i + 1] = q[i]
    BY <2>1, <2>2, <2>3
  <2> HIDE DEF q
  <2> QED BY <2>1, <2>4, Split
<1> HIDE DEF q
<1>3. /\ Sound(<<a>> \o q) /\ <<a>> \o q # << >> /\ Head(<<a>> \o q) = a
      /\ Tail(<<a>> \o q) = q /\ All(<<a>> \o q) = {a} \cup All(q) /\ Truthful(<<a>> \o q)
  BY <1>1, Pushed
<1> QED BY <1>1, <1>2, <1>3

--------------------
(* The stack after an action *)

LEMMA SoundNow ==
  ASSUME BaseInv
  PROVE  Sound(todo)
BY DEF BaseInv, TypeOK, StackInv, Sound

\* A task that something lies on is not one that starts a C function.
LEMMA Lowers ==
  ASSUME NEW t, NEW u \in Lower(t)
  PROVE  u \in Ends \cup Chores \cup {"update", "return"}
BY DEF Lower, Ends, Chores, Discs, Clears, Talk

LEMMA PopTop ==
  ASSUME Sound(todo), todo # << >>, todo' = Tail(todo), NEW t, Top(t)'
  PROVE  /\ t \in Lower(H.t) /\ t \in Ends \cup Chores \cup {"update", "return"}
         /\ H' \in Rest /\ H'.t = t
         /\ Awaits(H) => t \in {"update", "return", "stmt_clean"}
         /\ Works(H) => t # "opened"
<1>1. todo' # << >> /\ H'.t = t BY DEF Top, H
<1>2. H' \in Rest /\ (Awaits(H) => Answers(H')) /\ (Works(H) => H'.t # "opened") BY <1>1, Pop
<1>3. H'.t \in Lower(H.t) BY <1>2, StackFacts
<1> QED BY <1>1, <1>2, <1>3, Lowers DEF Answers

LEMMA RestUnder ==
  ASSUME StackInv, Sound(todo), todo # << >>, NEW k \in Rest, NEW t \in Under(k.t)
  PROVE  In(t)
<1>1. k.t \in Lower(H.t) /\ All(todo) = {H} \cup Rest /\ k \in All(todo) BY StackFacts
<1>2. PICK m \in All(todo) : m.t = t BY <1>1 DEF StackInv, Has
<1>3. CASE m = H
  <2>1. k.t \in Lower(t) /\ t \in Under(k.t) BY <1>1, <1>2, <1>3
  <2>2. FALSE BY <2>1 DEF Under, Lower, Ends, Chores, Discs, Clears, Talk
  <2> QED BY <2>2
<1>4. CASE m \in Rest BY <1>2, <1>4 DEF In
<1> QED BY <1>1, <1>3, <1>4

LEMMA RestCommit ==
  ASSUME StackInv, Sound(todo), todo # << >>
  PROVE  In("on_commit_end") <=> conn.committing /\ H.t # "on_commit_end"
<1>1. All(todo) = {H} \cup Rest /\ \A k \in Rest : k.t \in Lower(H.t) BY StackFacts
<1>2. "on_commit_end" \notin Lower("on_commit_end") BY DEF Lower, Ends, Chores, Discs, Clears, Talk
<1> QED BY <1>1, <1>2 DEF StackInv, Has, In

\* The stack is in order after tasks N took the place of the top one.
LEMMA StackFrom ==
  ASSUME StackInv, Sound(todo), todo # << >>, Sound(todo'), NEW N, All(todo') = N \cup Rest,
         \A k \in N : k.t \in HandleTasks => k.h \in Handles,
         \A k \in N : \A t \in Under(k.t) : \E m \in N \cup Rest : m.t = t,
         conn'.committing <=> (\E k \in N : k.t = "on_commit_end") \/ In("on_commit_end")
  PROVE  StackInv'
<1>1. Rest \subseteq All(todo) BY StackFacts
<1>2. Ordered(todo') /\ Answered(todo') BY DEF Sound
<1>3. \A k \in All(todo') : k.t \in HandleTasks => k.h \in Handles BY <1>1 DEF StackInv
<1>4. conn'.committing <=> \E k \in All(todo') : k.t = "on_commit_end" BY DEF In
<1>5. ASSUME NEW k \in All(todo'), NEW t \in Under(k.t)
      PROVE  \E m \in All(todo') : m.t = t
  <2>1. CASE k \in N BY <2>1
  <2>2. CASE k \in Rest
    <3>1. In(t) BY <1>5, <2>2, RestUnder
    <3> QED BY <3>1 DEF In
  <2> QED BY <2>1, <2>2
<1> QED BY <1>2, <1>3, <1>4, <1>5 DEF StackInv, Has

LEMMA StackNew ==
  ASSUME Sound(todo'),
         \A k \in All(todo') : k.t \in HandleTasks => k.h \in Handles,
         \A k \in All(todo') : \A t \in Under(k.t) : \E m \in All(todo') : m.t = t,
         conn'.committing <=> \E k \in All(todo') : k.t = "on_commit_end"
  PROVE  StackInv'
<1>2. Ordered(todo') /\ Answered(todo') BY DEF Sound
<1> QED BY <1>2 DEF StackInv, Has

LEMMA StackPopped ==
  ASSUME StackInv, Sound(todo), todo # << >>, todo' = Tail(todo),
         conn'.committing <=> conn.committing /\ H.t # "on_commit_end"
  PROVE  StackInv'
<1>1. Sound(todo') /\ All(todo') = {} \cup Rest BY Pop
<1>2. conn'.committing <=> In("on_commit_end") BY RestCommit
<1> DEFINE N == {}
<1>3. All(todo') = N \cup Rest /\ \A k \in N : FALSE BY <1>1
<1> HIDE DEF N
<1> QED BY <1>1, <1>2, <1>3, StackFrom

\* Nothing to do: the application may call.
LEMMA QuietFacts ==
  ASSUME Quiet
  PROVE  /\ All(todo) = {} /\ \A t : ~Has(t) /\ ~Top(t)
         /\ ~Busy /\ ~Unsettled /\ ~OnQuery
<1>1. All(todo) = {} BY AllNone DEF Quiet
<1>2. \A t : ~Top(t) BY DEF Quiet, Top
<1> QED BY <1>1, <1>2 DEF Has, Busy, Unsettled, OnQuery

LEMMA TopFacts ==
  ASSUME NEW t, Top(t), BaseInv
  PROVE  /\ todo # << >> /\ H.t = t /\ Sound(todo) /\ StackInv
         /\ \A u : Top(u) <=> u = t
BY SoundNow DEF Top, H, BaseInv

LEMMA TopNext ==
  ASSUME NEW e, todo' # << >>, H' = e
  PROVE  \A u : Top(u)' <=> e.t = u
BY DEF Top, H
--------------------
(* A task that ends *)

Marks == {"closed", "clear", "moved", "opened"}
Calls == {"send", "wire", "query_rollback"}

\* No query is on its way.
LEMMA TalkNone ==
  ASSUME conn'.op = "none", \A t \in Calls : ~Top(t)'
  PROVE  TalkInv'
<1>1. ~Top("send")' /\ ~Top("wire")' /\ ~Top("query_rollback")' BY DEF Calls
<1> QED BY <1>1 DEF TalkInv, SendInv, WireInv

\* The top task ends and changes nothing but parts of the driver's record.
PoppedOnly ==
  /\ todo # << >> /\ todo' = Tail(todo)
  /\ srv' = srv /\ curs' = curs /\ discardp' = discardp /\ last'.op = last.op
  /\ H.t \notin Marks \cup Calls
       \cup {"stmt_end", "stmt_clean", "discard", "discard_free"}
  /\ conn'.op = "none"
  /\ conn'.svp => conn.svp
  /\ conn'.point => conn.point
  /\ conn'.committing => conn.committing
  /\ conn'.ignored => conn.ignored

LEMMA PoppedStatus ==
  ASSUME BaseInv, LiveInv, PoppedOnly, Mirrors', conn'.svp \/ conn'.manual => conn'.inTrans,
         srv.st # "IDLE" /\ ~conn'.manual => \E k \in Rest : k.t = "exec_end" /\ "was_in" \notin k.f
  PROVE  StatusInv'
<1>1. Sound(todo) /\ todo # << >> /\ todo' = Tail(todo) /\ srv' = srv BY SoundNow DEF PoppedOnly
<1>2. All(todo') = Rest /\ Rest \subseteq All(todo) BY <1>1, Pop, StackFacts
<1>3. srv.st \in StNames BY ServerFields DEF BaseInv, TypeOK
<1>4. (conn'.err => conn'.inTrans) /\ conn'.op = "none"
  BY <1>1, <1>3 DEF Mirrors, Matches, StNames, PoppedOnly
<1>5. Has("closed")' => Matches' BY DEF Mirrors
<1>6. Busy' => ~conn'.err /\ srv'.st # "INERROR" /\ Matches'
  <2>1. Busy' => Busy BY <1>2 DEF Busy
  <2>2. Busy => srv.st # "INERROR" BY DEF LiveInv, StatusInv
  <2> QED BY <1>1, <2>1, <2>2 DEF Mirrors
<1>7. conn'.committing => srv'.st = "IDLE" BY <1>1 DEF LiveInv, StatusInv, PoppedOnly
<1>8. srv'.st # "IDLE" /\ ~conn'.manual => NewTrans' BY <1>1, <1>2 DEF NewTrans
<1> QED BY <1>4, <1>5, <1>6, <1>7, <1>8 DEF StatusInv

LEMMA PoppedTop ==
  ASSUME BaseInv, PoppedOnly
  PROVE  /\ \A t \in Calls \cup {"stmt_rollback", "begin", "commit", "abort", "close"} : ~Top(t)'
         /\ TalkInv'
<1>1. Sound(todo) /\ todo # << >> /\ todo' = Tail(todo) /\ conn'.op = "none" BY SoundNow DEF PoppedOnly
<1>2. \A t \in Calls \cup {"stmt_rollback", "begin", "commit", "abort", "close"} : ~Top(t)'
  <2> SUFFICES ASSUME NEW t, Top(t)', t \in Calls \cup {"stmt_rollback", "begin", "commit", "abort", "close"}
               PROVE  FALSE
    OBVIOUS
  <2>1. t \in Ends \cup Chores \cup {"update", "return"} BY <1>1, PopTop
  <2> QED BY <2>1 DEF Calls, Ends, Chores, Discs, Clears
<1> QED BY <1>1, <1>2, TalkNone

LEMMA PoppedSvp ==
  ASSUME BaseInv, LiveInv, PoppedOnly
  PROVE  SvpInv' /\ LevelInv'
<1>1. /\ Sound(todo) /\ todo # << >> /\ todo' = Tail(todo) /\ srv' = srv /\ curs' = curs
      /\ H.t \notin {"wire", "query_rollback", "stmt_end", "stmt_clean"}
      /\ conn'.svp => conn.svp
      /\ conn'.point => conn.point
  BY SoundNow DEF PoppedOnly, Calls
<1>2. All(todo') = Rest /\ All(todo) = {H} \cup Rest BY <1>1, Pop, StackFacts
<1>3. ~Top("wire")' /\ ~Top("query_rollback")' /\ ~Top("stmt_rollback")' BY PoppedTop DEF Calls
<1>4. /\ ~Top("wire") /\ ~Top("query_rollback") /\ ~Top("stmt_end") /\ ~Top("stmt_clean")
  BY <1>1 DEF Top, H
<1>5. ~OnQuery /\ ~OnQuery' /\ Base = Len(srv.svps) /\ Base' = Len(srv.svps)
  BY <1>1, <1>3, <1>4 DEF OnQuery, Base
<1>6. conn'.point => Has("stmt_end")' \/ Has("stmt_clean")'
  <2>1. conn.point => \E k \in All(todo) : k.t \in {"stmt_end", "stmt_clean"} BY DEF LiveInv, SvpInv, Has
  <2> QED BY <1>1, <1>2, <2>1 DEF Has
<1>7. SvpInv' BY <1>1, <1>3, <1>5, <1>6 DEF LiveInv, SvpInv
<1>8. LevelInv' BY <1>1, <1>4, <1>5 DEF LiveInv, LevelInv, Indices
<1> QED BY <1>7, <1>8

LEMMA PoppedCursors ==
  ASSUME BaseInv, LiveInv, PoppedOnly, Mirrors', conn.inTrans => conn'.inTrans,
         conn.committing => conn'.committing \/ \A k \in Rest : k.t \notin Clears
  PROVE  PermInv' /\ OpenInv' /\ PortInv'
<1>1. /\ Sound(todo) /\ todo # << >> /\ todo' = Tail(todo) /\ srv' = srv /\ curs' = curs
      /\ discardp' = discardp
      /\ H.t \notin Marks
      /\ conn'.committing => conn.committing
  BY SoundNow DEF PoppedOnly
<1>2. All(todo') = Rest /\ All(todo) = {H} \cup Rest BY <1>1, Pop, StackFacts
<1>3. \A k : k.t \in Marks => (k \in All(todo') <=> k \in All(todo)) BY <1>1, <1>2
<1>4. \A h : (Closing(h)' <=> Closing(h)) /\ (Opening(h)' <=> Opening(h)) /\ (Marked(h)' <=> Marked(h))
  BY <1>1, <1>3 DEF Closing, Opening, Marked, Marks
<1>5. PermInv' BY <1>1, <1>4 DEF LiveInv, CursInv, PermInv
<1>6. PortInv' BY <1>1, <1>4 DEF LiveInv, CursInv, PortInv
<1>7. OpenInv'
  <2> SUFFICES ASSUME NEW h \in Handles, curs[h].open, ~curs[h].perm
               PROVE  IF srv.st # "IDLE"
                      THEN \/ srv.port[h].st = "trans" /\ (srv.port[h].hold <=> curs[h].hold)
                           \/ srv.port[h].st = "none" /\ ((curs[h].doubt /\ ~curs[h].hold) \/ Closing(h)')
                      ELSE /\ IF conn'.committing
                              THEN \E k \in All(todo') : k.t \in Clears /\ k.h = h
                              ELSE Unsettled' /\ conn'.inTrans
                           /\ srv.port[h].st = IF ~conn'.err /\ curs[h].hold THEN "held" ELSE "none"
                           /\ ~Closing(h)'
    BY <1>1 DEF OpenInv
  <2>1. CASE srv.st # "IDLE" BY <1>4, <2>1 DEF LiveInv, CursInv, OpenInv
  <2>2. CASE srv.st = "IDLE"
    <3>1. /\ IF conn.committing THEN \E k \in All(todo) : k.t \in Clears /\ k.h = h
             ELSE Unsettled /\ conn.inTrans
          /\ srv.port[h].st = IF ~conn.err /\ curs[h].hold THEN "held" ELSE "none"
          /\ ~Closing(h)
      BY <2>2 DEF LiveInv, CursInv, OpenInv
    <3>2. ~conn'.inTrans /\ ~conn'.err BY <1>1, <2>2 DEF Mirrors, Matches
    <3>3. conn.committing BY <3>1, <3>2
    <3>4. PICK k \in All(todo) : k.t \in Clears /\ k.h = h BY <3>1, <3>3
    <3>5. k \in All(todo') /\ "on_commit_end" \in Chores BY <1>3, <3>4 DEF Clears, Marks, Chores
    <3>7. conn'.committing BY <1>1, <1>2, <3>3, <3>4 DEF Clears, Marks
    <3>6. ~conn.err BY <3>3, <3>5 DEF BaseInv, StackInv, Has, LiveInv, StatusInv, Busy
    <3> QED BY <1>1, <1>4, <2>2, <3>1, <3>2, <3>3, <3>4, <3>5, <3>6, <3>7
  <2> QED BY <2>1, <2>2
<1> QED BY <1>5, <1>6, <1>7

LEMMA PoppedCloses ==
  ASSUME BaseInv, LiveInv, PoppedOnly, Mirrors'
  PROVE  CloseInv' /\ IgnInv'
<1>1. /\ Sound(todo) /\ todo # << >> /\ todo' = Tail(todo) /\ srv' = srv /\ curs' = curs
      /\ discardp' = discardp /\ H.t \notin Calls
      /\ conn'.ignored => conn.ignored
  BY SoundNow DEF PoppedOnly
<1>2. All(todo') = Rest /\ Rest \subseteq All(todo) BY <1>1, Pop, StackFacts
<1>3. ~Top("close")' BY PoppedTop
<1>4. \A c : ~Pending(c) BY <1>1 DEF Pending, Top, H, Calls
<1>5. InUse => ~conn'.err /\ InUse' BY <1>1 DEF Mirrors, InUse
<1>6. \A t : Has(t)' => Has(t) BY <1>2 DEF Has
<1>7. \A k \in All(todo') : k.t = "closed" => curs[k.h].open /\ srv.port[k.h].st = "none"
  BY <1>2, <1>4 DEF LiveInv, CursInv, CloseInv
<1>8. \A k \in All(todo') : k.t = "moved" => curs[k.h].open /\ curs[k.h].hold /\ ~curs[k.h].perm
  BY <1>2 DEF LiveInv, CursInv, CloseInv
<1>9. Has("close_eof")' => InUse' /\ ~conn'.err BY <1>5, <1>6 DEF LiveInv, CursInv, CloseInv
<1>10. Has("commit_send")' => \A k \in All(todo') : k.t \in {"close", "closed"} =>
          InUse' /\ ~conn'.err /\ curs[k.h].hold
  BY <1>2, <1>5, <1>6 DEF LiveInv, CursInv, CloseInv
<1>11. CloseInv' BY <1>1, <1>3, <1>7, <1>8, <1>9, <1>10 DEF CloseInv
<1>12. IgnInv' BY <1>1, <1>2 DEF LiveInv, IgnInv
<1> QED BY <1>11, <1>12

LEMMA PoppedDisc ==
  ASSUME BaseInv, LiveInv, PoppedOnly,
         discardp # << >> => conn'.err \/ \E k \in Rest : k.t \in Discs
  PROVE  DiscInv'
<1>1. /\ Sound(todo) /\ todo # << >> /\ todo' = Tail(todo) /\ srv' = srv /\ curs' = curs
      /\ discardp' = discardp /\ H.t \notin Calls \cup {"discard", "discard_free"}
  BY SoundNow DEF PoppedOnly
<1>2. All(todo') = Rest /\ All(todo) = {H} \cup Rest BY <1>1, Pop, StackFacts
<1>3. \A c : ~Pending(c) /\ ~Pending(c)' BY <1>1, PoppedTop DEF Pending, Top, H, Calls
<1>4. \A k : k.t \in {"discard", "discard_free"} => (k \in All(todo') <=> k \in All(todo)) BY <1>1, <1>2
<1>5. \A k \in All(todo') : k.t \in {"discard", "discard_free"} => k.i = Len(discardp) /\ k.i > 0
  BY <1>4 DEF LiveInv, DiscInv
<1>6. \A k \in All(todo') : k.t = "discard_free" /\ discardp[k.i].type = "p" =>
        srv.port[discardp[k.i].h].st = "none"
  BY <1>3, <1>4 DEF LiveInv, DiscInv
<1>7. \A j \in 1..Len(discardp) : discardp[j].type = "p" =>
        /\ discardp[j].h \in Handles /\ ~curs[discardp[j].h].open
        /\ \/ srv.port[discardp[j].h].st = "held"
           \/ \E k \in All(todo') : k.t = "discard_free" /\ j = k.i
        /\ \A i \in 1..Len(discardp) :
              i # j /\ discardp[i].type = "p" => discardp[i].h # discardp[j].h
  BY <1>4 DEF LiveInv, DiscInv
<1> QED BY <1>1, <1>2, <1>3, <1>5, <1>6, <1>7 DEF DiscInv

LEMMA PoppedRest ==
  ASSUME BaseInv, LiveInv, PoppedOnly, Mirrors',
         (conn'.auto <=> conn.auto) \/ Rest = {},
         H.t \in {"commit", "commit_send", "abort"} => srv.st = "IDLE",
         H.t = "begin" => srv.st # "IDLE",
         H.t = "return" /\ "ok" \notin H.f /\ In("opened") => ret' = "error" /\ Top("opened")',
         H.t = "return" /\ ret' = "error" => "ok" \notin H.f,
         Top("moved")' \/ Top("svp_sent")' => ret' = "ok"
  PROVE  Truthful(todo)' /\ OpeningInv' /\ RetInv' /\ ExtInv'
<1>1. /\ Sound(todo) /\ todo # << >> /\ todo' = Tail(todo) /\ srv' = srv /\ curs' = curs
      /\ last'.op = last.op /\ H.t \notin Calls \cup Marks
      /\ conn'.ignored => conn.ignored
  BY SoundNow DEF PoppedOnly
<1>2. All(todo') = Rest /\ All(todo) = {H} \cup Rest /\ Rest \subseteq All(todo) BY <1>1, Pop, StackFacts
<1>3. Truthful(todo') BY <1>1, Pop DEF LiveInv
<1>4. ~Top("send") /\ ~Top("wire") /\ ~Top("opened") BY <1>1 DEF Top, H, Calls, Marks
<1>5. OpeningInv'
  <2> SUFFICES ASSUME NEW k \in Rest, k.t = "opened"
               PROVE  /\ ~curs[k.h].open /\ ("on" \in k.f => ~conn'.ignored) /\ last.op = "open"
                      /\ Failed1' => ~InUse
                      /\ \/ Failed1' /\ ~(srv.port[k.h].st = "trans" /\ srv.port[k.h].hold)
                         \/ InUse /\ srv.port[k.h].st = "trans" /\ (srv.port[k.h].hold <=> "on" \in k.f)
    BY <1>1, <1>2 DEF OpeningInv, InUse
  <2>1. /\ ~curs[k.h].open /\ ("on" \in k.f => ~conn.ignored) /\ last.op = "open"
        /\ Failed1 => ~InUse
        /\ \/ Failed1 /\ ~(srv.port[k.h].st = "trans" /\ srv.port[k.h].hold)
           \/ InUse /\ srv.port[k.h].st = "trans" /\ (srv.port[k.h].hold <=> "on" \in k.f)
    BY <1>2, <1>4 DEF LiveInv, CursInv, OpeningInv
  <2>2. Failed1 => Failed1'
    <3> SUFFICES ASSUME NEW r \in All(todo), r.t = "return", "ok" \notin r.f
                 PROVE  Failed1'
      BY <1>4 DEF Failed1
    <3>1. CASE r \in Rest BY <1>2, <3>1 DEF Failed1
    <3>2. CASE r = H BY <3>2 DEF Failed1, In
    <3> QED BY <1>2, <3>1, <3>2
  <2>3. Failed1' => Failed1
    <3>1. ~Top("wire")' BY PoppedTop DEF Calls
    <3>2. ASSUME Top("opened")', ret' = "error"
          PROVE  "ok" \notin H.f /\ H.t = "return"
      <4>1. "opened" \in Lower(H.t) /\ ~Works(H) /\ ~Awaits(H) BY <1>1, <3>2, PopTop
      <4>2. H.t = "return" BY <1>1, <4>1 DEF Lower, Talk, Clears, Discs, Works, Awaits, Calls
      <4> QED BY <3>2, <4>2
    <3>3. H \in All(todo) BY <1>2
    <3> QED BY <1>2, <3>1, <3>2, <3>3 DEF Failed1
  <2> QED BY <1>1, <2>1, <2>2, <2>3
<1>6. RetInv'
  <2>1. Has("transact_end")' /\ ~Ending' => srv'.st = "IDLE"
    <3> SUFFICES ASSUME Has("transact_end")', ~Ending', H.t \notin {"commit", "commit_send", "abort"}
                 PROVE  srv.st = "IDLE"
      BY <1>1
    <3>1. Has("transact_end") /\ ~Has("commit_send") /\ ~Top("commit") /\ ~Top("abort")
      BY <1>1, <1>2 DEF Has, Ending, Top, H
    <3> QED BY <1>4, <3>1 DEF LiveInv, RetInv, Ending
  <2>2. Busy' => Busy BY <1>2 DEF Busy
  <2>3. Has("svp_sent")' => Has("svp_sent") BY <1>2 DEF Has
  <2>4. Has("svp_sent") => InUse /\ ~Busy /\ \A r \in All(todo) : r.t = "return" => "ok" \in r.f
    BY DEF LiveInv, RetInv
  <2>5. InUse => InUse' /\ ~conn'.err BY <1>1 DEF InUse, Mirrors
  <2> QED BY <1>2, <2>1, <2>2, <2>3, <2>4, <2>5 DEF RetInv
<1>7. ExtInv'
  <2> SUFFICES ASSUME NEW k \in Rest, k.t \in {"request_start", "exec_ext"}
               PROVE  /\ last.op \in Kinds \ EndKinds /\ One(k.q, Cmd(last.op))
                      /\ ~conn'.auto /\ last.op # "special" => srv.st # "IDLE"
    BY <1>1, <1>2 DEF ExtInv
  <2>1. /\ last.op \in Kinds \ EndKinds /\ One(k.q, Cmd(last.op))
        /\ ~conn.auto /\ last.op # "special" => srv.st # "IDLE" \/ Beginning
    BY <1>2 DEF LiveInv, ExtInv
  <2>2. Beginning => srv.st # "IDLE" BY <1>4 DEF Beginning, Top, H
  <2> QED BY <2>1, <2>2
<1> QED BY <1>3, <1>5, <1>6, <1>7
--------------------
(* A task that calls others *)
SameSrv == srv'.st = srv.st /\ srv'.svps = srv.svps /\ srv'.port = srv.port
\* The top task gives way to those of N; the server, the cursors and the protection stay.
Turned(N) ==
  /\ Sound(todo) /\ todo # << >> /\ todo' # << >> /\ All(todo') = N \cup Rest /\ H' \in N
  /\ SameSrv /\ curs' = curs /\ last'.op = last.op
  /\ H.t \notin {"stmt_end", "stmt_clean", "on_commit_end", "moved", "opened", "exec_end", "closed"}
  /\ \A k \in N : k.t \notin {"on_commit_end", "opened", "exec_end", "stmt_end", "stmt_rollback",
                              "request_start", "exec_ext"}
  /\ conn'.svp => conn.svp
  /\ conn'.point => conn.point
  /\ conn'.committing <=> conn.committing

LEMMA TurnedStatus ==
  ASSUME BaseInv, LiveInv, NEW N, Turned(N), Unsettled' \/ Mirrors', conn.manual => conn'.manual,
         conn'.err \/ conn'.svp \/ conn'.op # "none" \/ conn'.manual => conn'.inTrans,
         Has("closed")' => Matches',
         Busy' => ~conn'.err /\ srv'.st # "INERROR" /\ Matches'
  PROVE  StatusInv'
<1>1. /\ Sound(todo) /\ todo # << >> /\ All(todo') = N \cup Rest /\ srv'.st = srv.st
      /\ H.t # "exec_end" /\ \A k \in N : k.t # "exec_end"
      /\ conn'.committing <=> conn.committing
  BY DEF Turned, SameSrv
<1>2. All(todo) = {H} \cup Rest BY <1>1, StackFacts
<1>3. NewTrans => NewTrans' BY <1>1, <1>2 DEF NewTrans
<1>4. /\ conn.committing => srv.st = "IDLE"
      /\ srv.st # "IDLE" /\ ~conn.manual => NewTrans
  BY DEF LiveInv, StatusInv
<1> QED BY <1>1, <1>3, <1>4 DEF StatusInv

LEMMA TurnedSvp ==
  ASSUME BaseInv, LiveInv, NEW N, Turned(N), OnQuery' <=> OnQuery
  PROVE  SvpInv' /\ LevelInv'
<1>1. /\ Sound(todo) /\ todo # << >> /\ All(todo') = N \cup Rest /\ curs' = curs
      /\ srv'.st = srv.st /\ srv'.svps = srv.svps /\ srv'.port = srv.port
      /\ H.t \notin {"stmt_end", "stmt_clean"} /\ H' \in N
      /\ \A k \in N : k.t # "stmt_rollback"
      /\ conn'.svp => conn.svp
      /\ conn'.point => conn.point
  BY DEF Turned, SameSrv
<1>2. All(todo) = {H} \cup Rest BY <1>1, StackFacts
<1>3. ~Top("stmt_rollback")' /\ ~Top("stmt_end") /\ ~Top("stmt_clean") BY <1>1 DEF Top, H
<1>4. Base' = Base BY <1>1 DEF Base
<1>5. conn.point => \E k \in All(todo) : k.t \in {"stmt_end", "stmt_clean"} BY DEF LiveInv, SvpInv, Has
<1>6. conn'.point => Has("stmt_end")' \/ Has("stmt_clean")' BY <1>1, <1>2, <1>5 DEF Has
<1>7. SvpInv' BY <1>1, <1>3, <1>4, <1>6 DEF LiveInv, SvpInv
<1>8. LevelInv' BY <1>1, <1>3, <1>4 DEF LiveInv, LevelInv, Indices
<1> QED BY <1>7, <1>8

LEMMA TurnedCursors ==
  ASSUME BaseInv, LiveInv, NEW N, Turned(N), discardp' = discardp,
         srv.st = "IDLE" => \/ \A k \in N : k.t # "closed"
                            \/ \A g \in Handles : ~(curs[g].open /\ ~curs[g].perm),
         H.t = "clear" => \E k \in N : k.t \in Clears /\ k.h = H.h,
         srv.st = "IDLE" => /\ conn'.err <=> conn.err
                            /\ Unsettled /\ conn.inTrans => Unsettled' /\ conn'.inTrans
  PROVE  PermInv' /\ OpenInv' /\ PortInv'
<1>1. /\ Sound(todo) /\ todo # << >> /\ All(todo') = N \cup Rest /\ curs' = curs
      /\ srv'.st = srv.st /\ srv'.port = srv.port
      /\ H.t \notin {"closed", "moved", "opened"} /\ \A k \in N : k.t # "opened"
      /\ conn'.committing <=> conn.committing
  BY DEF Turned, SameSrv
<1>2. All(todo) = {H} \cup Rest BY <1>1, StackFacts
<1>3. \A h : (Closing(h) => Closing(h)') /\ (Opening(h)' <=> Opening(h)) /\ (Marked(h)' <=> Marked(h))
  BY <1>1, <1>2 DEF Closing, Opening, Marked
<1>4. srv.st = "IDLE" => \/ \A h : Closing(h)' => Closing(h)
                         \/ \A g \in Handles : ~(curs[g].open /\ ~curs[g].perm)
  BY <1>1, <1>2 DEF Closing
<1>5. PermInv' BY <1>1, <1>3 DEF LiveInv, CursInv, PermInv
<1>6. PortInv' BY <1>1, <1>3 DEF LiveInv, CursInv, PortInv
<1>7. ASSUME NEW h, NEW k \in All(todo), k.t \in Clears, k.h = h
      PROVE  \E m \in All(todo') : m.t \in Clears /\ m.h = h
  <2>1. CASE k = H BY <1>1, <1>7, <2>1 DEF Clears
  <2>2. CASE k \in Rest BY <1>1, <1>7, <2>2
  <2> QED BY <1>2, <2>1, <2>2
<1>8. OpenInv' BY <1>1, <1>3, <1>4, <1>7 DEF LiveInv, CursInv, OpenInv
<1> QED BY <1>5, <1>6, <1>8

LEMMA TurnedCloses ==
  ASSUME BaseInv, LiveInv, NEW N, Turned(N), conn'.ignored => conn.ignored \/ \A h \in Handles : ~(curs[h].open /\ curs[h].hold),
         InUse /\ ~conn.err => ~conn'.err,
         \A c : c.op = "close" /\ Pending(c) => Pending(c)',
         \A k \in N : k.t \notin {"close", "closed", "moved", "close_eof", "commit_send"}
  PROVE  CloseInv' /\ IgnInv'
<1>1. /\ Sound(todo) /\ todo # << >> /\ All(todo') = N \cup Rest /\ curs' = curs
      /\ srv'.st = srv.st /\ srv'.port = srv.port /\ H' \in N
  BY DEF Turned, SameSrv
<1>2. All(todo) = {H} \cup Rest /\ \A k \in Rest : k \in Tasks BY <1>1, StackFacts
<1>3. \A t \in {"close", "closed", "moved", "close_eof", "commit_send"} : \A k \in All(todo') :
        k.t = t => k \in All(todo)
  BY <1>1, <1>2
<1>4. ~Top("close")' BY <1>1 DEF Top, H
<1>5. \A k \in All(todo') : k.t = "closed" =>
        curs[k.h].open /\ (Pending(CloseIt(k.h))' \/ srv.port[k.h].st = "none")
  <2> SUFFICES ASSUME NEW k \in All(todo'), k.t = "closed"
               PROVE  curs[k.h].open /\ (Pending(CloseIt(k.h))' \/ srv.port[k.h].st = "none")
    OBVIOUS
  <2>1. k \in All(todo) /\ k.h \in Handles BY <1>3 DEF BaseInv, StackInv, HandleTasks
  <2>2. CloseIt(k.h).op = "close" BY <2>1, CursCmdType DEF CloseIt, CmdNames
  <2> QED BY <2>1, <2>2 DEF LiveInv, CursInv, CloseInv
<1>6. \A k \in All(todo') : k.t = "moved" => curs[k.h].open /\ curs[k.h].hold /\ ~curs[k.h].perm
  BY <1>3 DEF LiveInv, CursInv, CloseInv
<1>7. Has("close_eof")' => InUse' /\ ~conn'.err BY <1>1, <1>3 DEF LiveInv, CursInv, CloseInv, Has, InUse
<1>8. Has("commit_send")' => \A k \in All(todo') : k.t \in {"close", "closed"} =>
          InUse' /\ ~conn'.err /\ curs[k.h].hold
  BY <1>1, <1>3 DEF LiveInv, CursInv, CloseInv, Has, InUse
<1>9. CloseInv' BY <1>1, <1>4, <1>5, <1>6, <1>7, <1>8 DEF CloseInv
<1>10. IgnInv' BY <1>1, <1>3 DEF LiveInv, IgnInv
<1> QED BY <1>9, <1>10

LEMMA TurnedDisc ==
  ASSUME BaseInv, LiveInv, NEW N, Turned(N), discardp' = discardp,
         \/ \A c : c.op = "close" => (Pending(c)' <=> Pending(c))
         \/ \A k \in Rest : k.t # "discard_free",
         H.t \notin {"discard", "discard_free"}, \A k \in N : k.t \notin {"discard", "discard_free"},
         discardp # << >> => conn'.err \/ \E k \in All(todo') : k.t \in Discs
  PROVE  DiscInv'
<1>1. /\ Sound(todo) /\ todo # << >> /\ All(todo') = N \cup Rest /\ curs' = curs
      /\ srv'.st = srv.st /\ srv'.port = srv.port /\ discardp' = discardp
  BY DEF Turned, SameSrv
<1>2. All(todo) = {H} \cup Rest BY <1>1, StackFacts
<1>3. \A k : k.t \in {"discard", "discard_free"} => (k \in All(todo') <=> k \in All(todo)) BY <1>1, <1>2
<1>4. ASSUME NEW h \in Handles, NEW k \in All(todo), k.t = "discard_free"
      PROVE  Pending(CloseIt(h))' <=> Pending(CloseIt(h))
  <2> SUFFICES ASSUME \A c : c.op = "close" => (Pending(c)' <=> Pending(c))
               PROVE  Pending(CloseIt(h))' <=> Pending(CloseIt(h))
    BY <1>1, <1>2, <1>4
  <2>1. CloseIt(h).op = "close" BY CursCmdType DEF CloseIt, CmdNames
  <2> QED BY <2>1
<1>5. \A k \in All(todo') : k.t \in {"discard", "discard_free"} => k.i = Len(discardp) /\ k.i > 0
  BY <1>3 DEF LiveInv, DiscInv
<1>6. \A j \in 1..Len(discardp) : discardp[j].type = "p" =>
        /\ discardp[j].h \in Handles /\ ~curs[discardp[j].h].open
        /\ \/ srv.port[discardp[j].h].st = "held"
           \/ /\ \E k \in All(todo') : k.t = "discard_free" /\ j = k.i
              /\ ~Pending(CloseIt(discardp[j].h))'
        /\ \A i \in 1..Len(discardp) :
              i # j /\ discardp[i].type = "p" => discardp[i].h # discardp[j].h
  BY <1>3, <1>4 DEF LiveInv, DiscInv
<1>7. \A k \in All(todo') : k.t = "discard_free" /\ discardp[k.i].type = "p" =>
        Pending(CloseIt(discardp[k.i].h))' \/ srv.port[discardp[k.i].h].st = "none"
  <2> SUFFICES ASSUME NEW k \in All(todo'), k.t = "discard_free", discardp[k.i].type = "p"
               PROVE  Pending(CloseIt(discardp[k.i].h))' \/ srv.port[discardp[k.i].h].st = "none"
    OBVIOUS
  <2>1. k.i = Len(discardp) /\ k.i > 0 /\ Len(discardp) \in Nat BY <1>5 DEF BaseInv, TypeOK
  <2>2. discardp[k.i].h \in Handles BY <1>6, <2>1
  <2> QED BY <1>3, <1>4, <2>2 DEF LiveInv, DiscInv
<1> QED BY <1>1, <1>5, <1>6, <1>7 DEF DiscInv

LEMMA TurnedRest ==
  ASSUME BaseInv, LiveInv, NEW N, Turned(N), conn'.auto <=> conn.auto,
         H'.t # "moved", \A k \in N : k.t # "svp_sent", H.t # "svp_sent",
         H.t # "transact_end", \A k \in N : k.t # "transact_end",
         Has("transact_end") /\ Ending => Ending' \/ srv.st = "IDLE",
         Beginning /\ (In("request_start") \/ In("exec_ext")) => Beginning' \/ srv.st # "IDLE",
         In("svp_sent") => /\ InUse /\ ~conn.err => ~conn'.err
                           /\ \A k \in N : k.t \notin Chores /\ (k.t = "return" => "ok" \in k.f)
  PROVE  RetInv' /\ ExtInv'
<1>1. /\ Sound(todo) /\ todo # << >> /\ todo' # << >> /\ All(todo') = N \cup Rest
      /\ srv'.st = srv.st /\ H' \in N /\ last'.op = last.op
      /\ \A k \in N : k.t \notin {"request_start", "exec_ext"}
  BY DEF Turned, SameSrv
<1>2. All(todo) = {H} \cup Rest BY <1>1, StackFacts
<1>3. ~Top("moved")' /\ ~Top("svp_sent")' BY <1>1 DEF Top, H
<1>4. Has("transact_end")' /\ ~Ending' => srv'.st = "IDLE"
  <2>1. Has("transact_end")' => Has("transact_end") BY <1>1, <1>2 DEF Has
  <2> QED BY <1>1, <2>1 DEF LiveInv, RetInv
<1>5. Has("svp_sent")' => /\ InUse' /\ ~conn'.err /\ ~Busy'
                          /\ \A r \in All(todo') : r.t = "return" => "ok" \in r.f
  <2> SUFFICES ASSUME Has("svp_sent")'
               PROVE  /\ InUse' /\ ~conn'.err /\ ~Busy'
                      /\ \A r \in All(todo') : r.t = "return" => "ok" \in r.f
    OBVIOUS
  <2>1. In("svp_sent") /\ Has("svp_sent") BY <1>1, <1>2 DEF In, Has
  <2>2. /\ InUse /\ ~conn.err /\ ~Busy
        /\ \A r \in All(todo) : r.t = "return" => "ok" \in r.f
    BY <2>1 DEF LiveInv, RetInv
  <2> QED BY <1>1, <1>2, <2>1, <2>2 DEF InUse, Busy
<1>6. RetInv' BY <1>3, <1>4, <1>5 DEF RetInv
<1>7. ExtInv'
  <2> SUFFICES ASSUME NEW k \in Rest, k.t \in {"request_start", "exec_ext"}
               PROVE  /\ last.op \in Kinds \ EndKinds /\ One(k.q, Cmd(last.op))
                      /\ ~conn'.auto /\ last.op # "special" => srv.st # "IDLE" \/ Beginning'
    BY <1>1 DEF ExtInv
  <2>1. /\ last.op \in Kinds \ EndKinds /\ One(k.q, Cmd(last.op))
        /\ ~conn.auto /\ last.op # "special" => srv.st # "IDLE" \/ Beginning
    BY <1>2 DEF LiveInv, ExtInv
  <2>2. In("request_start") \/ In("exec_ext") BY DEF In
  <2> QED BY <2>1, <2>2
<1> QED BY <1>6, <1>7

\* The cursor being opened.
LEMMA TurnedOpening ==
  ASSUME BaseInv, LiveInv, NEW N, Turned(N), conn'.ignored /\ In("opened") => conn.ignored,
         Failed1 /\ In("opened") => Failed1',
         Failed1' /\ In("opened") => Failed1 \/ ~InUse,
         ForStmt /\ In("opened") /\ (Top("send") \/ (Top("wire") /\ H.q # << >>)) =>
           \/ Failed1'
           \/ /\ ForStmt'
              /\ \/ Top("send")'
                 \/ Top("wire")' /\ H'.q # << >> /\ \A h \in Handles : ~One(H'.q, Fetch(h))
  PROVE  OpeningInv'
<1>1. /\ Sound(todo) /\ todo # << >> /\ All(todo') = N \cup Rest /\ curs' = curs
      /\ srv'.st = srv.st /\ srv'.port = srv.port /\ last'.op = last.op
      /\ H.t # "opened" /\ \A k \in N : k.t # "opened"
  BY DEF Turned, SameSrv
<1>2. All(todo) = {H} \cup Rest BY <1>1, StackFacts
<1> SUFFICES ASSUME NEW k \in All(todo'), k.t = "opened"
             PROVE  /\ ~curs[k.h].open /\ ("on" \in k.f => ~conn'.ignored) /\ last.op = "open"
                    /\ Failed1' => ~InUse
                    /\ \/ /\ \/ ForStmt' /\ (Top("send")' \/ (Top("wire")' /\ H'.q # << >>
                                                               /\ ~One(H'.q, Fetch(k.h))))
                             \/ Failed1'
                          /\ ~(srv.port[k.h].st = "trans" /\ srv.port[k.h].hold)
                       \/ InUse /\ srv.port[k.h].st = "trans" /\ (srv.port[k.h].hold <=> "on" \in k.f)
  BY <1>1 DEF OpeningInv, InUse
<1>3. k \in All(todo) /\ k \in Rest /\ In("opened") /\ k.h \in Handles
  BY <1>1, <1>2 DEF In, BaseInv, StackInv, HandleTasks
<1>4. /\ ~curs[k.h].open /\ ("on" \in k.f => ~conn.ignored) /\ last.op = "open"
      /\ Failed1 => ~InUse
      /\ \/ /\ \/ ForStmt /\ (Top("send") \/ (Top("wire") /\ H.q # << >>))
               \/ Failed1
            /\ ~(srv.port[k.h].st = "trans" /\ srv.port[k.h].hold)
         \/ InUse /\ srv.port[k.h].st = "trans" /\ (srv.port[k.h].hold <=> "on" \in k.f)
  BY <1>3 DEF LiveInv, CursInv, OpeningInv
<1> QED BY <1>3, <1>4
--------------------
(* Tasks that end *)
LEMMA PoppedLive ==
  ASSUME IInv, conn.alive, PoppedOnly, Mirrors', conn'.svp \/ conn'.manual => conn'.inTrans,
         conn.inTrans => conn'.inTrans,
         conn.committing => conn'.committing \/ \A k \in Rest : k.t \notin Clears,
         srv.st # "IDLE" /\ ~conn'.manual => \E k \in Rest : k.t = "exec_end" /\ "was_in" \notin k.f,
         discardp # << >> => conn'.err \/ \E k \in Rest : k.t \in Discs,
         (conn'.auto <=> conn.auto) \/ Rest = {},
         H.t \in {"commit", "commit_send", "abort"} => srv.st = "IDLE",
         H.t = "begin" => srv.st # "IDLE",
         H.t = "return" /\ "ok" \notin H.f /\ In("opened") => ret' = "error" /\ Top("opened")',
         H.t = "return" /\ ret' = "error" => "ok" \notin H.f,
         Top("moved")' \/ Top("svp_sent")' => ret' = "ok"
  PROVE  LiveInv'
<1>1. BaseInv /\ LiveInv BY DEF IInv
<1>2. StatusInv' BY <1>1, PoppedStatus
<1>3. TalkInv' /\ SvpInv' /\ LevelInv' BY <1>1, PoppedTop, PoppedSvp
<1>4. PermInv' /\ OpenInv' /\ PortInv' /\ CloseInv' /\ IgnInv' BY <1>1, PoppedCursors, PoppedCloses
<1>5. DiscInv' BY <1>1, PoppedDisc
<1>6. Truthful(todo)' /\ OpeningInv' /\ RetInv' /\ ExtInv' BY <1>1, PoppedRest
<1> QED BY <1>2, <1>3, <1>4, <1>5, <1>6 DEF LiveInv, CursInv

\* No query is being sent, so no savepoint is being set.
LEMMA NoOp ==
  ASSUME IInv, ~Top("send"), ~Top("wire")
  PROVE  conn.op = "none"
  BY DEF IInv, BaseInv, Gone, LiveInv, TalkInv

LEMMA PoppedSame ==
  ASSUME IInv, todo # << >>, todo' = Tail(todo), srv' = srv, curs' = curs, discardp' = discardp,
         conn' = conn, ret' \in {"ok", "error"}, last'.op = last.op,
         last' \in [op : ApiCalls, st : {"IDLE", "INTRANS", "INERROR"}, w : Nat, failed : BOOLEAN],
         H.t \notin Marks \cup Calls \cup {"stmt_end", "stmt_clean", "on_commit_end", "exec_end",
                                            "discard", "discard_free"},
         conn.alive =>
           /\ H.t = "update" => Mirrors
           /\ H.t = "discard_all" => discardp = << >>
           /\ H.t \in {"commit", "commit_send", "abort"} => srv.st = "IDLE"
           /\ H.t = "begin" => srv.st # "IDLE"
           /\ H.t = "return" /\ "ok" \notin H.f /\ In("opened") => ret' = "error" /\ Top("opened")'
           /\ H.t = "return" /\ ret' = "error" => "ok" \notin H.f
           /\ Top("moved")' \/ Top("svp_sent")' => ret' = "ok"
  PROVE  IInv'
<1>1. Sound(todo) /\ StackInv /\ BaseInv /\ TypeOK /\ Gone BY SoundNow DEF IInv, BaseInv
<1>2. All(todo') = Rest /\ All(todo) = {H} \cup Rest /\ Sound(todo') BY <1>1, Pop, StackFacts
<1>3. conn.op = "none" BY NoOp DEF Top, H, Calls
<1>4. StackInv' BY <1>1, StackPopped
<1>5. TypeOK' /\ Gone' BY <1>1, <1>2 DEF TypeOK, Gone, Sound
<1>6. BaseInv' BY <1>4, <1>5 DEF BaseInv
<1>7. PoppedOnly BY <1>3 DEF PoppedOnly
<1>8. ASSUME conn.alive
      PROVE  LiveInv'
  <2>1. LiveInv /\ StatusInv BY <1>8 DEF IInv, LiveInv
  <2>2. Mirrors BY <1>8, <2>1 DEF StatusInv, Unsettled, Top, H, Calls
  <2>3. Mirrors' BY <2>2 DEF Mirrors, Matches
  <2>4. conn.svp \/ conn.manual => conn.inTrans BY <2>1 DEF StatusInv
  <2>5. srv.st # "IDLE" /\ ~conn.manual => \E k \in Rest : k.t = "exec_end" /\ "was_in" \notin k.f
    BY <1>2, <2>1 DEF StatusInv, NewTrans
  <2>6. discardp # << >> => conn.err \/ \E k \in Rest : k.t \in Discs
    BY <1>2, <1>8, <2>1 DEF LiveInv, DiscInv, Discs
  <2> HIDE DEF Mirrors
  <2> QED BY <1>7, <1>8, <2>3, <2>4, <2>5, <2>6, PoppedLive
<1> QED BY <1>6, <1>8 DEF IInv

LEMMA SoundParts ==
  ASSUME NEW s, Sound(s), s # << >>
  PROVE  /\ Head(s) \in Tasks /\ All(s) = {Head(s)} \cup All(Tail(s))
         /\ \A k \in All(Tail(s)) : k.t \in Lower(Head(s).t)
  BY HeadRest, OrderedRest DEF Sound

LEMMA ReturnResultStep ==
  ASSUME IInv, ReturnResult
  PROVE  IInv'
<1>1. /\ Top("return") /\ todo # << >> /\ H.t = "return" /\ BaseInv /\ Sound(todo)
      /\ ret' = IF "ok" \in H.f THEN "ok" ELSE "error"
      /\ UNCHANGED <<conn, srv, curs, discardp, last>>
  BY SoundNow DEF ReturnResult, Top, H, IInv
<1>2. todo' = Tail(todo) BY <1>1, NoCat DEF ReturnResult, Then, BaseInv, TypeOK
<1>3. All(todo') = Rest /\ (todo' # << >> => H' \in Rest /\ Rest' \subseteq Rest) BY <1>1, <1>2, Pop
<1>4. \A k \in Rest : k \in Tasks /\ k.t \in Ends \cup Chores \cup {"update", "return"}
  BY <1>1, StackFacts DEF Lower, Talk
<1>5. ASSUME conn.alive
      PROVE  /\ "ok" \notin H.f /\ In("opened") => ret' = "error" /\ Top("opened")'
             /\ Top("moved")' \/ Top("svp_sent")' => ret' = "ok"
  <2>1. Truthful(todo) /\ RetInv BY <1>5 DEF IInv, LiveInv
  <2>2. (\E k \in Rest : k.t \in Late) => "ok" \in H.f BY <1>1, <2>1, StackFacts
  <2>3. ASSUME "ok" \notin H.f, In("opened")
        PROVE  Top("opened")'
    <3>1. PICK k \in Rest : k.t = "opened" BY <2>3 DEF In
    <3>2. todo' # << >> /\ Sound(todo') BY <1>1, <1>2, <3>1, Pop, AllNone
    <3> DEFINE s == todo'
    <3>3. Sound(s) /\ s # << >> /\ Head(s) \in Rest /\ k \in All(s)
      BY <1>1, <1>2, <1>3, <3>1, <3>2, Pop DEF H
    <3> HIDE DEF s
    <3>4. Head(s).t = "opened"
      <4>1. Head(s).t \in Ends BY <1>4, <2>2, <2>3, <3>3 DEF Late
      <4>2. k = Head(s) \/ "opened" \in Lower(Head(s).t) BY <3>1, <3>3, SoundParts
      <4> QED BY <3>1, <4>1, <4>2 DEF Lower, Late, Chores, Discs, Clears, Ends, Talk
    <3> QED BY <3>3, <3>4 DEF s, Top
  <2>4. Top("moved")' => "ok" \in H.f BY <1>3, <2>2 DEF Top, H, Late, Chores, Clears
  <2>5. Top("svp_sent")' => "ok" \in H.f
    <3>1. Top("svp_sent")' => Has("svp_sent") BY <1>1, <1>3, StackFacts DEF Top, H, Has
    <3> QED BY <1>1, <2>1, <3>1, StackFacts DEF RetInv
  <2> QED BY <1>1, <2>3, <2>4, <2>5
<1>6. last' \in [op : ApiCalls, st : {"IDLE", "INTRANS", "INERROR"}, w : Nat, failed : BOOLEAN]
  BY <1>1 DEF BaseInv, TypeOK
<1> QED BY <1>1, <1>2, <1>5, <1>6, PoppedSame DEF Marks, Calls, Discs
--------------------
(* Tasks that send a query *)
LastType == [op : ApiCalls, st : {"IDLE", "INTRANS", "INERROR"}, w : Nat, failed : BOOLEAN]
LEMMA TypesOf ==
  ASSUME IInv
  PROVE  /\ TypeOK /\ StackInv /\ Gone /\ BaseInv /\ Sound(todo)
         /\ conn \in Conns /\ srv \in Servers /\ curs \in [Handles -> Cursors]
         /\ discardp \in Seq([type : {"s", "p"}, h : Handles \cup {NoHandle}])
         /\ todo \in Seq(Tasks) /\ ret \in {"ok", "error"} /\ last \in LastType
         /\ conn.alive => LiveInv /\ Truthful(todo)
  BY SoundNow DEF IInv, BaseInv, TypeOK, LastType, LiveInv

LEMMA TurnedBase ==
  ASSUME IInv, NEW N, Turned(N), Sound(todo'), conn' \in Conns, srv' \in Servers,
         discardp' \in Seq([type : {"s", "p"}, h : Handles \cup {NoHandle}]),
         ret' \in {"ok", "error"}, last' \in LastType, Gone',
         \A k \in N : k.t \in HandleTasks => k.h \in Handles,
         \A k \in N : \A t \in Under(k.t) : \E m \in N \cup Rest : m.t = t
  PROVE  BaseInv'
<1>1. /\ todo # << >> /\ All(todo') = N \cup Rest /\ curs' = curs
      /\ H.t # "on_commit_end" /\ \A k \in N : k.t # "on_commit_end"
      /\ conn'.committing <=> conn.committing
  BY DEF Turned
<1>2. StackInv /\ Sound(todo) /\ curs \in [Handles -> Cursors] BY TypesOf
<1>3. In("on_commit_end") <=> conn.committing BY <1>1, <1>2, RestCommit
<1>4. conn'.committing <=> (\E k \in N : k.t = "on_commit_end") \/ In("on_commit_end") BY <1>1, <1>3
<1>5. StackInv' BY <1>1, <1>2, <1>4, StackFrom
<1>6. TypeOK' BY <1>1, <1>2 DEF TypeOK, Sound, LastType
<1> QED BY <1>5, <1>6 DEF BaseInv

\* No query is on its way, so the status is settled.
LEMMA Settled ==
  ASSUME IInv, conn.alive, todo # << >>, H.t \notin {"wire", "query_rollback", "update"}
  PROVE  /\ ~Unsettled /\ Mirrors /\ Matches /\ ~OnQuery
         /\ H.t # "send" => ~Pending(H) /\ \A c : ~Pending(c)
<1>1. ~Unsettled /\ ~OnQuery BY DEF Unsettled, OnQuery, Top, H
<1>2. Mirrors BY <1>1 DEF IInv, LiveInv, StatusInv
<1> QED BY <1>1, <1>2 DEF Mirrors, Pending, Top, H

LEMMA LiveParts ==
  ASSUME IInv, conn.alive
  PROVE  /\ LiveInv /\ Truthful(todo) /\ StatusInv /\ TalkInv /\ SvpInv /\ LevelInv
         /\ PermInv /\ OpenInv /\ PortInv /\ CloseInv /\ OpeningInv
         /\ DiscInv /\ IgnInv /\ RetInv /\ ExtInv
  BY DEF IInv, LiveInv, CursInv

LEMMA LiveFrom ==
  ASSUME Truthful(todo'), StatusInv', TalkInv', SvpInv' /\ LevelInv',
         PermInv' /\ OpenInv' /\ PortInv', CloseInv' /\ IgnInv', OpeningInv', DiscInv', RetInv' /\ ExtInv'
  PROVE  LiveInv'
  BY DEF LiveInv, CursInv

\* The top task only sends a query.
LEMMA SendsOne ==
  ASSUME IInv, NEW q \in Seq(Cmds), NEW f \in SUBSET Flags, todo # << >>,
         H.t \in {"begin", "commit_send", "abort"}, todo' = <<Send(q, f)>> \o Tail(todo),
         UNCHANGED <<conn, srv, curs, discardp, last, ret>>,
         conn.alive => SendInv', H.t = "begin" => One(q, Cmd("begin")), H.t # "begin" => IsEnd(q),
         \A c \in Cmds : One(q, c) => c.op # "close"
  PROVE  IInv'
<1> DEFINE e == Send(q, f)
           N == {e}
<1>1. e \in Tasks /\ e.t = "send" /\ e.q = q /\ e.f = f BY SendType
<1>2. /\ BaseInv /\ StackInv /\ Sound(todo) /\ (conn.alive => LiveInv /\ Truthful(todo))
      /\ conn.op = "none"
  BY TypesOf, NoOp DEF Top, H
<1>3. \A k \in Rest : k.t \in Lower("send") /\ k.t # "opened" /\ k.t \notin Late
  BY <1>2, StackFacts DEF Lower, Late, Chores, Discs, Clears, Ends, Talk
<1> HIDE DEF e
<1>4. /\ Sound(todo') /\ todo' # << >> /\ H' = e /\ Rest' = Rest /\ All(todo') = N \cup Rest
      /\ conn.alive => Truthful(todo')
  BY <1>1, <1>2, <1>3, Replace DEF Awaits, Works, e
<1> HIDE DEF N
<1>5. Turned(N) BY <1>1, <1>2, <1>4 DEF Turned, SameSrv, N
<1>6. BaseInv'
  <2>1. /\ conn' \in Conns /\ srv' \in Servers /\ ret' \in {"ok", "error"} /\ last' \in LastType
        /\ discardp' \in Seq([type : {"s", "p"}, h : Handles \cup {NoHandle}])
    BY TypesOf
  <2>2. Gone' BY TypesOf DEF Gone
  <2>3. \A k \in N : k.t \notin HandleTasks /\ Under(k.t) = {} BY <1>1 DEF N, HandleTasks, Under
  <2> QED BY <1>4, <1>5, <2>1, <2>2, <2>3, TurnedBase
<1> SUFFICES ASSUME conn.alive
             PROVE  LiveInv'
  BY <1>6 DEF IInv
<1>7. /\ ~Unsettled /\ Mirrors /\ Matches /\ ~OnQuery /\ \A c : ~Pending(c) BY Settled
<1>8. /\ ~Top("wire")' /\ ~Top("query_rollback")' /\ ~Top("update")' /\ Top("send")'
  BY <1>1, <1>4 DEF Top, H
<1>9. ~Busy' BY <1>1, <1>3, <1>4 DEF Busy, N, Chores, Discs, Clears, Late
<1>10. StatusInv'
  <2>1. Mirrors' /\ Matches' BY <1>7 DEF Mirrors, Matches
  <2>2. conn.err \/ conn.svp \/ conn.op # "none" \/ conn.manual => conn.inTrans BY LiveParts DEF StatusInv
  <2> QED BY <1>2, <1>5, <1>9, <2>1, <2>2, TurnedStatus
<1>11. SvpInv' /\ LevelInv'
  <2>1. ~OnQuery' BY <1>8 DEF OnQuery
  <2> QED BY <1>2, <1>5, <1>7, <2>1, TurnedSvp
<1>12. PermInv' /\ OpenInv' /\ PortInv' BY <1>1, <1>2, <1>5, <1>7, TurnedCursors DEF N
<1>13. CloseInv' /\ IgnInv' BY <1>1, <1>2, <1>5, <1>7, TurnedCloses DEF N
<1>14. DiscInv'
  <2>1. \A c : c.op = "close" => ~Pending(c)'
    <3> SUFFICES ASSUME NEW c, c.op = "close", Pending(c)'
                 PROVE  FALSE
      OBVIOUS
    <3>1. \E d \in Cmds : One(q, d) BY CmdType DEF IsEnd, CmdNames, Kinds
    <3> QED BY <1>1, <1>4, <1>8, <3>1 DEF Pending, One
  <2>2. discardp # << >> => conn.err \/ \E k \in Rest : k.t \in Discs
    BY <1>2, StackFacts, LiveParts DEF DiscInv, Discs
  <2> QED BY <1>1, <1>2, <1>4, <1>5, <1>7, <2>1, <2>2, TurnedDisc DEF N
<1>15. OpeningInv' BY <1>3, <1>4, <1>1 DEF OpeningInv, N
<1>16. RetInv' /\ ExtInv'
  <2>1. Ending => Ending'
    BY <1>1, <1>2, <1>3, <1>4, <1>8, StackFacts DEF Ending, Top, H, Has, Lower, IsEnd, One
  <2>2. Beginning => Beginning' BY <1>1, <1>4, <1>8 DEF Beginning, Top, H
  <2>3. ~In("svp_sent") BY <1>2, StackFacts DEF In, Lower, Talk, Clears, Discs
  <2> QED BY <1>1, <1>2, <1>4, <1>5, <2>1, <2>2, <2>3, TurnedRest DEF N
<1>17. TalkInv' BY <1>2, <1>8 DEF TalkInv, WireInv
<1> QED BY <1>4, <1>10, <1>11, <1>12, <1>13, <1>14, <1>15, <1>16, <1>17, LiveFrom

\* A stack with nothing in front.
LEMMA ThenIf ==
  ASSUME todo \in Seq(Tasks), NEW b \in BOOLEAN, NEW s, Then(If(b, s))
  PROVE  todo' = IF b THEN s \o Tail(todo) ELSE Tail(todo)
<1>1. Tail(todo) \in Seq(Tasks) \/ todo = << >> OBVIOUS
<1>2. << >> \o Tail(todo) = Tail(todo) OBVIOUS
<1> QED BY <1>2 DEF Then, If

LEMMA BeginStep ==
  ASSUME IInv, Begin
  PROVE  IInv'
<1>1. /\ todo # << >> /\ H.t = "begin" /\ BaseInv /\ Sound(todo) /\ todo \in Seq(Tasks)
      /\ Then(If(~conn.inTrans, <<Send(<<Cmd("begin")>>, {})>>))
      /\ ret' = IF conn.inTrans THEN "ok" ELSE ret
      /\ UNCHANGED <<conn, srv, curs, discardp, last>>
  BY TypesOf DEF Begin, Top, H
<1>2. conn.inTrans \in BOOLEAN /\ ret \in {"ok", "error"} /\ last \in LastType BY TypesOf DEF Conns
<1>3. todo' = IF ~conn.inTrans THEN <<Send(<<Cmd("begin")>>, {})>> \o Tail(todo) ELSE Tail(todo)
  BY <1>1, <1>2, ThenIf
<1>4. CASE conn.inTrans
  <2>1. conn.alive => srv.st # "IDLE" BY <1>1, <1>4, Settled DEF Matches
  <2>2. ret' = "ok" /\ todo' = Tail(todo) BY <1>1, <1>3, <1>4
  <2> QED BY <1>1, <1>2, <2>1, <2>2, PoppedSame DEF Marks, Calls, LastType
<1>5. CASE ~conn.inTrans
  <2> DEFINE q == <<Cmd("begin")>>
  <2>1. q \in Seq(Cmds) /\ One(q, Cmd("begin")) /\ {} \in SUBSET Flags /\ Cmd("begin").op = "begin"
    BY CmdType DEF CmdNames, Kinds, One
  <2>2. todo' = <<Send(q, {})>> \o Tail(todo) /\ ret' = ret BY <1>1, <1>3, <1>5
  <2> HIDE DEF q
  <2>3. SendInv'
    <3>1. /\ H' = Send(q, {}) /\ Rest' = Rest
      <4>1. Send(q, {}) \in Tasks /\ Send(q, {}).t = "send" BY <2>1, SendType
      <4>2. \A k \in Rest : k.t \in Lower("send") BY <1>1, StackFacts DEF Lower, Talk, Clears, Discs, Ends
      <4> QED BY <1>1, <2>2, <4>1, <4>2, Replace DEF Awaits, Works
    <3>2. H'.f = {} /\ H'.q = q BY <2>1, <3>1, SendType
    <3>3. \A k \in Rest : k.t \in {"request_start", "exec_ext", "exec_end", "stmt_end"}
      BY <1>1, StackFacts DEF Lower, Talk, Clears, Discs
    <3>4. BeginSend' BY <1>1, <1>5, <2>1, <3>1, <3>2, <3>3 DEF BeginSend, ForBegin, Only
    <3>5. conn.op = "none" BY <1>1, NoOp DEF Top, H
    <3> QED BY <1>1, <3>4, <3>5 DEF SendInv
  <2> QED BY <1>1, <1>5, <2>1, <2>2, <2>3, SendsOne DEF One
<1> QED BY <1>2, <1>4, <1>5

\* COMMIT or ROLLBACK, unless there is no transaction.
LEMMA EndingStep ==
  ASSUME IInv, NEW q \in Seq(Cmds), IsEnd(q), todo # << >>, H.t \in {"commit_send", "abort"},
         Then(If(conn.inTrans, <<Send(q, {})>>)), ret' = IF conn.inTrans THEN ret ELSE "ok",
         UNCHANGED <<conn, srv, curs, discardp, last>>
  PROVE  IInv'
<1>1. /\ BaseInv /\ Sound(todo) /\ todo \in Seq(Tasks) /\ ret \in {"ok", "error"} /\ last \in LastType
      /\ conn.inTrans \in BOOLEAN
  BY TypesOf DEF Conns
<1>2. todo' = IF conn.inTrans THEN <<Send(q, {})>> \o Tail(todo) ELSE Tail(todo) BY <1>1, ThenIf
<1>3. CASE ~conn.inTrans
  <2>1. conn.alive => srv.st = "IDLE" BY <1>3, Settled DEF Matches
  <2>2. ret' = "ok" /\ todo' = Tail(todo) BY <1>2, <1>3
  <2> QED BY <1>1, <2>1, <2>2, PoppedSame DEF Marks, Calls, LastType
<1>4. CASE conn.inTrans
  <2>1. todo' = <<Send(q, {})>> \o Tail(todo) /\ ret' = ret /\ {} \in SUBSET Flags BY <1>2, <1>4
  <2>2. SendInv'
    <3>1. /\ H' = Send(q, {}) /\ Rest' = Rest
      <4>1. Send(q, {}) \in Tasks /\ Send(q, {}).t = "send" BY <2>1, SendType
      <4>2. \A k \in Rest : k.t \in Lower("send") BY <1>1, StackFacts DEF Lower, Talk, Clears, Discs, Ends
      <4> QED BY <1>1, <2>1, <4>1, <4>2, Replace DEF Awaits, Works
    <3>2. H'.f = {} /\ H'.q = q BY <2>1, <3>1, SendType
    <3>3. \A k \in Rest : k.t \in {"stmt_clean", "transact_end", "set_auto"}
      BY <1>1, StackFacts DEF Lower, Talk, Clears, Discs
    <3>4. EndSend' BY <1>4, <3>1, <3>2, <3>3 DEF EndSend, ForEnd, Only
    <3>5. conn.op = "none" BY NoOp DEF Top, H
    <3> QED BY <3>4, <3>5 DEF SendInv
  <2>3. \A c \in Cmds : One(q, c) => c.op # "close" BY CmdType DEF CmdNames, Kinds, One, IsEnd
  <2> QED BY <2>1, <2>2, <2>3, SendsOne
<1> QED BY <1>1, <1>3, <1>4

LEMMA CommitSendStep ==
  ASSUME IInv, CommitSend
  PROVE  IInv'
<1> DEFINE q == <<Cmd("commit")>>
<1>1. /\ todo # << >> /\ H.t = "commit_send" /\ Then(If(conn.inTrans, <<Send(q, {})>>))
      /\ ret' = IF conn.inTrans THEN ret ELSE "ok"
      /\ UNCHANGED <<conn, srv, curs, discardp, last>>
  BY DEF CommitSend, Top, H
<1>2. q \in Seq(Cmds) /\ IsEnd(q) BY CmdType DEF CmdNames, Kinds, One, IsEnd
<1> QED BY <1>1, <1>2, EndingStep

LEMMA AbortStep ==
  ASSUME IInv, Abort
  PROVE  IInv'
<1> DEFINE q == <<Cmd("rollback")>>
<1>1. /\ todo # << >> /\ H.t = "abort" /\ Then(If(conn.inTrans, <<Send(q, {})>>))
      /\ ret' = IF conn.inTrans THEN ret ELSE "ok"
      /\ UNCHANGED <<conn, srv, curs, discardp, last>>
  BY DEF Abort, Top, H
<1>2. q \in Seq(Cmds) /\ IsEnd(q) BY CmdType DEF CmdNames, Kinds, One, IsEnd
<1> QED BY <1>1, <1>2, EndingStep
--------------------
(* Discarding the marked objects *)
DiscTurn(N) ==
  /\ todo # << >> /\ H.t \in Discs /\ All(todo') = N \cup Rest
  /\ \A k \in N : k.t \in Discs \cup {"send"}
  /\ UNCHANGED <<conn, srv, curs, last, ret>>
  /\ todo' # << >> =>
       /\ H' \in All(todo')
       /\ H'.t \in Discs \cup {"send"} \cup Ends \cup {"on_commit_end", "update", "return"}
       /\ H'.t # "opened"

LEMMA DiscardKept ==
  ASSUME IInv, conn.alive, NEW N, DiscTurn(N)
  PROVE  /\ StatusInv' /\ (SvpInv' /\ LevelInv') /\ PermInv' /\ OpenInv' /\ (CloseInv' /\ IgnInv')
         /\ OpeningInv' /\ (RetInv' /\ ExtInv')
<1>1. /\ todo # << >> /\ All(todo') = N \cup Rest /\ \A k \in N : k.t \in Discs \cup {"send"}
      /\ UNCHANGED <<conn, srv, curs, last, ret>> /\ Sound(todo) /\ StackInv
      /\ H.t \in Discs
      /\ todo' # << >> => H'.t \in Discs \cup {"send"} \cup Ends \cup {"on_commit_end", "update", "return"}
      /\ ~Top("opened")'
  BY TypesOf DEF DiscTurn, Top, H
<1>2. /\ All(todo) = {H} \cup Rest
      /\ \A k \in Rest : k.t \in Ends \cup {"on_commit_end", "update", "return"}
  <2>1. \A k \in Rest : k.t \in Lower(H.t) BY <1>1, StackFacts
  <2> QED BY <1>1, <2>1, StackFacts DEF Lower, Talk, Clears, Discs
<1>3. \A t : t \notin Discs \cup {"send"} => (Has(t)' <=> Has(t)) BY <1>1, <1>2 DEF Has
<1>4. \A k : k.t \notin Discs \cup {"send"} => (k \in All(todo') <=> k \in All(todo)) BY <1>1, <1>2
<1>5. /\ ~Unsettled /\ Mirrors /\ Matches /\ ~OnQuery /\ \A c : ~Pending(c) BY <1>1, Settled DEF Discs
<1>6. Busy /\ Mirrors' /\ Matches' BY <1>1, <1>2, <1>5 DEF Busy, Chores, Mirrors, Matches
<1>7. ~conn.err /\ srv.st # "INERROR" BY <1>6, LiveParts DEF StatusInv
<1>8. /\ ~Top("wire")' /\ ~Top("query_rollback")' /\ ~Top("stmt_rollback")' /\ ~Top("close")'
      /\ ~Top("moved")' /\ ~Top("commit") /\ ~Top("abort") /\ ~Top("send") /\ ~Top("wire")
      /\ ~Top("begin") /\ ~Top("stmt_end") /\ ~Top("stmt_clean") /\ ~Top("opened")
  BY <1>1 DEF Top, H, Discs, Ends
<1>9. ~OnQuery' /\ Base' = Base BY <1>1, <1>5, <1>8 DEF OnQuery, Base
<1>10. StatusInv'
  <2>1. NewTrans' <=> NewTrans BY <1>4 DEF NewTrans, Discs
  <2>2. Has("closed")' <=> Has("closed") BY <1>3 DEF Discs
  <2> QED BY <1>1, <1>6, <1>7, <2>1, <2>2, LiveParts DEF StatusInv
<1>11. SvpInv' /\ LevelInv'
  <2>1. (Has("stmt_end")' <=> Has("stmt_end")) /\ (Has("stmt_clean")' <=> Has("stmt_clean"))
    BY <1>3 DEF Discs
  <2>2. SvpInv' BY <1>1, <1>8, <1>9, <2>1, LiveParts DEF SvpInv
  <2>3. LevelInv' BY <1>1, <1>8, <1>9, LiveParts DEF LevelInv, Indices
  <2> QED BY <2>2, <2>3
<1>12. PermInv' /\ OpenInv'
  <2>1. \A h : Closing(h)' <=> Closing(h) BY <1>4 DEF Closing, Discs
  <2>2. srv.st = "IDLE" => \A h \in Handles : ~(curs[h].open /\ ~curs[h].perm)
    <3>1. \A k \in All(todo) : k.t \notin Clears BY <1>1, <1>2 DEF Clears, Discs, Ends
    <3> QED BY <1>5, <3>1, LiveParts DEF OpenInv
  <2>3. PermInv' BY <1>1, <2>1, LiveParts DEF PermInv
  <2>4. OpenInv' BY <1>1, <2>1, <2>2, LiveParts DEF OpenInv
  <2> QED BY <2>3, <2>4
<1>13. CloseInv' /\ IgnInv'
  <2>1. \A k : k.t \in {"close", "closed", "moved", "close_eof", "commit_send"} =>
          (k \in All(todo') <=> k \in All(todo))
    BY <1>4 DEF Discs
  <2>2. /\ \A k \in All(todo') : k.t = "closed" => curs[k.h].open /\ srv.port[k.h].st = "none"
        /\ \A k \in All(todo') : k.t = "moved" => curs[k.h].open /\ curs[k.h].hold /\ ~curs[k.h].perm
    BY <1>5, <2>1, LiveParts DEF CloseInv
  <2>3. (Has("close_eof")' <=> Has("close_eof")) /\ (Has("commit_send")' <=> Has("commit_send"))
    BY <1>3 DEF Discs
  <2>4. CloseInv' BY <1>1, <1>8, <2>1, <2>2, <2>3, LiveParts DEF CloseInv, InUse
  <2>5. IgnInv' BY <1>1, <2>1, LiveParts DEF IgnInv
  <2> QED BY <2>4, <2>5
<1>14. OpeningInv'
  <2>1. Failed1 <=> Failed1' BY <1>1, <1>4, <1>8 DEF Failed1, Discs
  <2>2. \A k \in All(todo') : k.t = "opened" => k \in All(todo) BY <1>4 DEF Discs
  <2> QED BY <1>1, <1>8, <2>1, <2>2, LiveParts DEF OpeningInv, InUse
<1>15. RetInv' /\ ExtInv'
  <2>1. ~Has("svp_sent")' BY <1>3, <1>6, LiveParts DEF RetInv, Discs
  <2>2. ~Top("svp_sent")'
    <3>1. Top("svp_sent")' => todo' # << >> /\ H' \in All(todo') /\ H'.t = "svp_sent"
      BY DEF DiscTurn, Top, H
    <3> QED BY <2>1, <3>1 DEF Has
  <2>3. (Has("transact_end")' <=> Has("transact_end")) /\ (Has("commit_send")' <=> Has("commit_send"))
    BY <1>3 DEF Discs
  <2>4. RetInv' BY <1>1, <1>8, <2>1, <2>3, LiveParts DEF RetInv, Ending
  <2>5. \A k \in All(todo') : k.t \in {"request_start", "exec_ext"} => k \in All(todo) BY <1>4 DEF Discs
  <2>6. ExtInv' BY <1>1, <1>8, <2>5, LiveParts DEF ExtInv, Beginning
  <2> QED BY <2>4, <2>6
<1> QED BY <1>10, <1>11, <1>12, <1>13, <1>14, <1>15

\* What lies under a task of the loop.
LEMMA UnderDisc ==
  ASSUME IInv, todo # << >>, H.t \in Discs
  PROVE  \A k \in Rest : /\ k.t \in Ends \cup {"on_commit_end", "update", "return"}
                         /\ k.t \in Lower("send") /\ \A t \in Discs : k.t \in Lower(t)
  BY TypesOf, StackFacts DEF Lower, Talk, Clears, Discs, Ends, Chores

LEMMA DiscardAllStep ==
  ASSUME IInv, DiscardAll
  PROVE  IInv'
<1>1. /\ todo # << >> /\ H.t = "discard_all" /\ BaseInv /\ Sound(todo) /\ todo \in Seq(Tasks)
      /\ Then(If(discardp # << >>, <<CallI("discard", Len(discardp))>>))
      /\ UNCHANGED <<conn, srv, curs, discardp, ret, last>>
      /\ ret \in {"ok", "error"} /\ last \in LastType /\ Len(discardp) \in Nat
      /\ discardp # << >> => Len(discardp) > 0
  BY TypesOf DEF DiscardAll, Top, H
<1>2. todo' = IF discardp # << >> THEN <<CallI("discard", Len(discardp))>> \o Tail(todo)
              ELSE Tail(todo)
  BY <1>1, ThenIf
<1>3. \A k \in Rest : /\ k.t \in Ends \cup {"on_commit_end", "update", "return"}
                      /\ k.t \in Lower("discard")
  BY <1>1, UnderDisc DEF Discs
<1>4. CASE discardp = << >>
  <2>1. todo' = Tail(todo) BY <1>2, <1>4
  <2>2. conn.alive => ~Top("moved")' /\ ~Top("svp_sent")'
    <3>1. Top("moved")' \/ Top("svp_sent")' => \E k \in Rest : k.t \in {"moved", "svp_sent"}
      BY <1>1, <2>1, Pop DEF Top, H
    <3>2. conn.alive => ~Has("svp_sent")
      <4>1. Busy BY <1>1, StackFacts DEF Busy, Chores, Discs
      <4> QED BY <4>1, LiveParts DEF RetInv
    <3> QED BY <1>1, <1>3, <3>1, <3>2, StackFacts DEF Ends, Has
  <2> QED BY <1>1, <1>4, <2>1, <2>2, PoppedSame DEF Marks, Calls, LastType
<1>5. CASE discardp # << >>
  <2> DEFINE e == CallI("discard", Len(discardp))
             N == {e}
  <2>1. e \in Tasks /\ e.t = "discard" /\ e.i = Len(discardp) BY <1>1, CallIType DEF TaskNames
  <2>2. todo' = <<e>> \o Tail(todo) BY <1>2, <1>5
  <2> HIDE DEF e
  <2>3. /\ Sound(todo') /\ todo' # << >> /\ H' = e /\ Rest' = Rest /\ All(todo') = N \cup Rest
        /\ Truthful(todo) => Truthful(todo')
    <3>1. Tail(todo) # << >> => Head(Tail(todo)).t # "opened" BY <1>1, StackFacts DEF Works
    <3> QED BY <1>1, <1>3, <2>1, <2>2, <3>1, Replace DEF Awaits
  <2> HIDE DEF N
  <2>4. BaseInv'
    <3>1. Turned(N) BY <1>1, <2>1, <2>3 DEF Turned, SameSrv, N
    <3>2. \A k \in N : k.t \notin HandleTasks /\ Under(k.t) = {} BY <2>1 DEF N, HandleTasks, Under
    <3>3. Gone' BY <1>1, TypesOf DEF Gone
    <3> QED BY <1>1, <2>3, <3>1, <3>2, <3>3, TypesOf, TurnedBase
  <2> SUFFICES ASSUME conn.alive
               PROVE  LiveInv'
    BY <1>1, <2>4 DEF IInv
  <2>5. DiscTurn(N) BY <1>1, <2>1, <2>3 DEF DiscTurn, N, Discs
  <2>6. \A t \in Calls : ~Top(t)' BY <2>1, <2>3 DEF Top, H, Calls
  <2>7. TalkInv' BY <1>1, <2>6, TalkNone, NoOp DEF Top, H
  <2>8. PortInv'
    <3>1. \A h : Opening(h)' <=> Opening(h) BY <1>1, <2>1, <2>3, StackFacts DEF Opening, N
    <3> QED BY <1>1, <3>1, LiveParts DEF PortInv, Marked
  <2>9. DiscInv'
    <3>1. \A c : ~Pending(c) /\ ~Pending(c)' BY <1>1, <2>6, Settled DEF Pending, Calls
    <3>2. \A k \in All(todo') : k.t \in {"discard", "discard_free"} => k = e
      BY <1>1, <1>3, <2>3 DEF N, Ends
    <3>3. \A k \in All(todo) : k.t # "discard_free" BY <1>1, <1>3, StackFacts DEF Ends
    <3>4. \A j \in 1..Len(discardp) : discardp[j].type = "p" =>
            /\ discardp[j].h \in Handles /\ ~curs[discardp[j].h].open
            /\ srv.port[discardp[j].h].st = "held"
            /\ \A i \in 1..Len(discardp) :
                  i # j /\ discardp[i].type = "p" => discardp[i].h # discardp[j].h
      BY <3>3, LiveParts DEF DiscInv
    <3> QED BY <1>1, <1>5, <2>1, <2>3, <3>1, <3>2, <3>4 DEF DiscInv, N, Discs
  <2> QED BY <2>3, <2>5, <2>7, <2>8, <2>9, DiscardKept, LiveFrom, LiveParts
<1> QED BY <1>4, <1>5
--------------------
(* One turn of the loop *)
LEMMA DiscardType ==
  ASSUME IInv, NEW i \in 1..Len(discardp)
  PROVE  /\ discardp[i].type \in {"s", "p"} /\ discardp[i].h \in Handles \cup {NoHandle}
         /\ i \in Nat
<1> DEFINE S == [type : {"s", "p"}, h : Handles \cup {NoHandle}]
<1>1. discardp \in Seq(S) BY TypesOf
<1>2. discardp[i] \in S /\ i \in Nat
  <2> HIDE DEF S
  <2> QED BY <1>1
<1> QED BY <1>2

\* The command that discards an entry.
Discarding(o) == IF o.type = "s" THEN Cmd("deallocate") ELSE CursCmd("close", o.h)
LEMMA DiscardingType ==
  ASSUME NEW o, o.type \in {"s", "p"}, o.h \in Handles \cup {NoHandle}
  PROVE  /\ Discarding(o) \in Cmds
         /\ o.type = "s" => Discarding(o) = Cmd("deallocate") /\ Discarding(o).op = "deallocate"
         /\ o.type = "p" => /\ Discarding(o) = CloseIt(o.h) /\ Discarding(o).op = "close"
                            /\ Discarding(o).h = o.h
<1>1. Cmd("deallocate") \in Cmds /\ Cmd("deallocate").op = "deallocate" BY CmdType DEF CmdNames
<1>2. /\ CursCmd("close", o.h) \in Cmds /\ CursCmd("close", o.h).op = "close"
      /\ CursCmd("close", o.h).h = o.h
  BY DEF CursCmd, Cmd, Cmds, Svps
<1> QED BY <1>1, <1>2 DEF Discarding, CloseIt

QuickFlags == {"rollback_on_error", "ignore_abort", "read_only"}
LEMMA DiscardOneStep ==
  ASSUME IInv, DiscardOne
  PROVE  IInv'
<1> PICK i : i = H.i OBVIOUS
<1> PICK c : c = Discarding(discardp[i]) OBVIOUS
<1> DEFINE q == <<c>>
           e == Send(q, QuickFlags)
           f == CallI("discard_free", i)
<1>1. /\ todo # << >> /\ H.t = "discard" /\ BaseInv /\ Sound(todo) /\ todo \in Seq(Tasks)
      /\ UNCHANGED <<conn, srv, curs, discardp, ret, last>>
      /\ H \in Tasks /\ i \in Nat
  BY TypesOf, StackFacts, TaskFields DEF DiscardOne, Top, H
<1>2. IF i \in 1..Len(discardp) THEN todo' = <<e, f>> \o Tail(todo) ELSE Then(<< >>)
  BY DEF DiscardOne, Then, Discarding, QuickFlags, H
<1>3. \A k \in Rest : /\ k.t \in Ends \cup {"on_commit_end", "update", "return"}
                      /\ k.t \in Lower("send") /\ k.t \in Lower("discard_free")
  BY <1>1, UnderDisc DEF Discs
<1>4. conn.alive => i \in 1..Len(discardp) /\ i = Len(discardp)
  <2>1. Len(discardp) \in Nat /\ H \in All(todo) BY <1>1, StackFacts, TypesOf
  <2> QED BY <1>1, <2>1, LiveParts DEF DiscInv
<1>5. CASE i \notin 1..Len(discardp)
  <2>1. todo' = Tail(todo) BY <1>1, <1>2, <1>5, NoCat DEF Then
  <2>2. Sound(todo') /\ All(todo') = Rest BY <1>1, <2>1, Pop
  <2>3. StackInv' BY <1>1, <2>1, TypesOf, StackPopped
  <2>4. TypeOK' /\ Gone' BY <1>1, <2>2, TypesOf DEF TypeOK, Sound, Gone
  <2> QED BY <1>1, <1>4, <1>5, <2>3, <2>4 DEF IInv, BaseInv
<1>6. CASE i \in 1..Len(discardp)
  <2> PICK o : o = discardp[i] OBVIOUS
  <2> DEFINE N == {e, f}
  <2>1. o.type \in {"s", "p"} /\ o.h \in Handles \cup {NoHandle} BY <1>6, DiscardType
  <2>2. c \in Cmds /\ q \in Seq(Cmds) /\ One(q, c) /\ QuickFlags \in SUBSET Flags
    BY <2>1, DiscardingType DEF One, QuickFlags, Flags
  <2> HIDE DEF q
  <2>3. /\ e \in Tasks /\ e.t = "send" /\ e.q = q /\ e.f = QuickFlags
        /\ f \in Tasks /\ f.t = "discard_free" /\ f.i = i
    BY <1>1, <2>2, SendType, CallIType DEF TaskNames
  <2>4. todo' = <<e, f>> \o Tail(todo) BY <1>2, <1>6
  <2> HIDE DEF e, f
  <2>5. /\ Sound(todo') /\ todo' # << >> /\ H' = e /\ Rest' = {f} \cup Rest /\ All(todo') = N \cup Rest
        /\ Truthful(todo) => Truthful(todo')
    <3>1. f.t \in Lower(e.t) BY <2>3 DEF Lower, Talk, Chores, Discs
    <3> QED
      <4>1. Tail(todo) # << >> => Head(Tail(todo)).t # "opened" BY <1>1, StackFacts DEF Works
      <4>2. ~Awaits(e) /\ ~Works(e) /\ ~Awaits(f) BY <2>3 DEF Awaits, Works
      <4> QED BY <1>1, <1>3, <2>3, <2>4, <3>1, <4>1, <4>2, Replace2
  <2> HIDE DEF N
  <2>6. BaseInv'
    <3>1. Turned(N) BY <1>1, <2>3, <2>5 DEF Turned, SameSrv, N
    <3>2. \A k \in N : k.t \notin HandleTasks /\ Under(k.t) = {} BY <2>3 DEF N, HandleTasks, Under
    <3>3. Gone' BY <1>1, TypesOf DEF Gone
    <3> QED BY <1>1, <2>5, <3>1, <3>2, <3>3, TypesOf, TurnedBase
  <2> SUFFICES ASSUME conn.alive
               PROVE  LiveInv'
    BY <1>1, <2>6 DEF IInv
  <2>7. DiscTurn(N) BY <1>1, <2>3, <2>5 DEF DiscTurn, N, Discs
  <2>8. i = Len(discardp) /\ i > 0 /\ Len(discardp) \in Nat BY <1>4, <1>6, TypesOf
  <2>9. \A k \in All(todo) : k.t # "discard_free" BY <1>1, <1>3, StackFacts DEF Ends
  <2>10. \A j \in 1..Len(discardp) : discardp[j].type = "p" =>
           /\ discardp[j].h \in Handles /\ ~curs[discardp[j].h].open
           /\ srv.port[discardp[j].h].st = "held"
           /\ \A m \in 1..Len(discardp) :
                 m # j /\ discardp[m].type = "p" => discardp[m].h # discardp[j].h
    BY <2>9, LiveParts DEF DiscInv
  <2>11. Top("send")' /\ ~Top("wire")' /\ ~Top("query_rollback")' /\ H'.q = q /\ H'.f = QuickFlags
    BY <2>3, <2>5 DEF Top, H
  <2>12. ~conn.err
    <3>1. Busy BY <1>1, StackFacts DEF Busy, Chores, Discs
    <3> QED BY <3>1, LiveParts DEF StatusInv
  <2>13. TalkInv'
    <3>1. f \in Rest' BY <2>5
    <3>2. Quick(c)' BY <1>1, <2>1, <2>3, <3>1, DiscardingType DEF Quick, In
    <3>3. Sure(c)'
      <4>1. o.type = "p" => srv.port[o.h].st = "held" BY <1>6, <2>10
      <4> QED BY <1>1, <2>1, <4>1, DiscardingType DEF Sure
    <3>4. QuickSend' BY <1>1, <2>2, <2>11, <2>12, <3>2, <3>3 DEF QuickSend, Maybe, QuickFlags
    <3>5. conn.op = "none" BY <1>1, NoOp DEF Top, H
    <3> QED BY <1>1, <2>11, <3>4, <3>5 DEF TalkInv, SendInv, WireInv
  <2>14. PortInv'
    <3>1. \A h : Opening(h)' <=> Opening(h) BY <1>1, <2>3, <2>5, StackFacts DEF Opening, N
    <3> QED BY <1>1, <3>1, LiveParts DEF PortInv, Marked
  <2>15. DiscInv'
    <3>1. \A k \in All(todo') : k.t \in {"discard", "discard_free"} => k = f
      BY <1>3, <2>3, <2>5 DEF N, Ends
    <3>2. o.type = "p" => Pending(CloseIt(o.h))' BY <2>1, <2>2, <2>11, DiscardingType DEF Pending, One
    <3>3. f \in All(todo') BY <2>5 DEF N
    <3> QED BY <1>1, <2>3, <2>8, <2>10, <3>1, <3>2, <3>3 DEF DiscInv, Discs
  <2> QED BY <2>5, <2>7, <2>13, <2>14, <2>15, DiscardKept, LiveFrom, LiveParts
<1> QED BY <1>5, <1>6

LEMMA DiscardFreeStep ==
  ASSUME IInv, DiscardFree
  PROVE  IInv'
<1> PICK i : i = H.i OBVIOUS
<1> DEFINE e == CallI("discard", i - 1)
           N == IF i > 1 THEN {e} ELSE {}
<1>1. /\ todo # << >> /\ H.t = "discard_free" /\ BaseInv /\ Sound(todo) /\ todo \in Seq(Tasks)
      /\ UNCHANGED <<conn, srv, curs, ret, last>>
      /\ H \in Tasks /\ i \in Nat /\ H \in All(todo)
      /\ discardp' = IF Len(discardp) >= i THEN SubSeq(discardp, 1, i - 1) ELSE discardp
      /\ Then(If(i > 1, <<e>>))
  BY TypesOf, StackFacts, TaskFields DEF DiscardFree, Top, H
<1>2. todo' = IF i > 1 THEN <<e>> \o Tail(todo) ELSE Tail(todo)
  <2>1. (i > 1) \in BOOLEAN BY <1>1
  <2> HIDE DEF e
  <2> QED BY <1>1, <2>1, ThenIf
<1>3. \A k \in Rest : /\ k.t \in Ends \cup {"on_commit_end", "update", "return"}
                      /\ k.t \in Lower("discard")
  BY <1>1, UnderDisc DEF Discs
<1>4. i > 1 => e \in Tasks /\ e.t = "discard" /\ e.i = i - 1
  <2> SUFFICES ASSUME i > 1
               PROVE  e \in Tasks /\ e.t = "discard" /\ e.i = i - 1
    OBVIOUS
  <2>1. i - 1 \in Nat BY <1>1
  <2> QED BY <2>1, CallIType DEF TaskNames
<1> HIDE DEF e
<1>5. /\ Sound(todo') /\ All(todo') = N \cup Rest /\ (Truthful(todo) => Truthful(todo'))
      /\ todo' # << >> => H' \in All(todo') /\ (i > 1 => H' = e)
                          /\ (i <= 1 => H' \in Rest)
                          /\ (i <= 1 => H'.t # "opened")
  <2>1. CASE i > 1
    <3>1. Tail(todo) # << >> => Head(Tail(todo)).t # "opened" BY <1>1, StackFacts DEF Works
    <3>2. ~Awaits(e) /\ e.t # "return" /\ e \in Tasks /\ todo' = <<e>> \o Tail(todo)
      BY <1>2, <1>4, <2>1 DEF Awaits
    <3>3. \A k \in Rest : k.t \in Lower(e.t) BY <1>3, <1>4, <2>1
    <3>4. /\ Sound(todo') /\ todo' # << >> /\ H' = e /\ All(todo') = {e} \cup Rest
          /\ Truthful(todo) => Truthful(todo')
      BY <1>1, <3>1, <3>2, <3>3, Replace
    <3>5. N = {e} BY <2>1
    <3>6. ~(i <= 1) BY <1>1, <2>1
    <3> HIDE DEF N
    <3> QED BY <2>1, <3>4, <3>5, <3>6
  <2>2. CASE ~(i > 1)
    <3>1. Works(H) BY <1>1 DEF Works
    <3> QED BY <1>1, <1>2, <2>2, <3>1, Pop
  <2> QED BY <2>1, <2>2
<1>6. todo' # << >> => H'.t \in Discs \cup {"send"} \cup Ends \cup {"on_commit_end", "update", "return"}
  <2>1. CASE i > 1 BY <1>4, <1>5, <2>1 DEF Discs
  <2>2. CASE ~(i > 1)
    <3>1. todo' # << >> => H' \in Rest BY <1>1, <1>2, <2>2, Pop
    <3> QED BY <1>3, <3>1
  <2> QED BY <2>1, <2>2
<1>7. discardp' \in Seq([type : {"s", "p"}, h : Handles \cup {NoHandle}])
  <2> DEFINE S == [type : {"s", "p"}, h : Handles \cup {NoHandle}]
  <2>1. discardp \in Seq(S) BY TypesOf
  <2> HIDE DEF S
  <2>2. Len(discardp) >= i => SubSeq(discardp, 1, i - 1) \in Seq(S) BY <1>1, <2>1
  <2>3. discardp' \in Seq(S) BY <1>1, <2>1, <2>2
  <2> QED BY <2>3 DEF S
<1>8. BaseInv'
  <2>1. StackInv'
    <3>1. \A k \in N : k.t \notin HandleTasks /\ Under(k.t) = {} /\ k.t # "on_commit_end"
      BY <1>4 DEF HandleTasks, Under
    <3>2. StackInv BY TypesOf
    <3>3. In("on_commit_end") <=> conn.committing BY <1>1, <3>2, RestCommit
    <3> HIDE DEF N
    <3> QED BY <1>1, <1>5, <3>1, <3>2, <3>3, StackFrom
  <2>2. TypeOK' /\ Gone' BY <1>1, <1>5, <1>7, TypesOf DEF TypeOK, Sound, Gone, LastType
  <2> QED BY <2>1, <2>2 DEF BaseInv
<1> SUFFICES ASSUME conn.alive
             PROVE  LiveInv'
  BY <1>1, <1>8 DEF IInv
<1>9. DiscTurn(N) BY <1>1, <1>4, <1>5, <1>6 DEF DiscTurn, Discs
<1>10. \A t \in Calls : ~Top(t)'
  <2>1. todo' # << >> => H'.t \notin Calls BY <1>4, <1>5, <1>6, <1>3, <1>1 DEF Calls, Discs, Ends
  <2> QED BY <2>1 DEF Top, H
<1>11. TalkInv' BY <1>1, <1>10, TalkNone, NoOp DEF Top, H
<1>12. i = Len(discardp) /\ i > 0 /\ Len(discardp) \in Nat BY <1>1, LiveParts, TypesOf DEF DiscInv
<1>13. discardp' = SubSeq(discardp, 1, i - 1) BY <1>1, <1>12
<1>14. Len(discardp') = i - 1 /\ \A j \in 1..(i - 1) : discardp'[j] = discardp[j]
  <2> DEFINE S == [type : {"s", "p"}, h : Handles \cup {NoHandle}]
  <2>1. discardp \in Seq(S) BY TypesOf
  <2> HIDE DEF S
  <2> QED BY <1>12, <1>13, <2>1
<1>15. \A c : ~Pending(c) /\ ~Pending(c)' BY <1>1, <1>10, Settled DEF Pending, Calls, Discs
<1>16. discardp[i].type = "p" => srv.port[discardp[i].h].st = "none" BY <1>1, <1>15, LiveParts DEF DiscInv
<1>17. \A j \in 1..Len(discardp) : discardp[j].type = "p" =>
         /\ discardp[j].h \in Handles /\ ~curs[discardp[j].h].open
         /\ j # i => srv.port[discardp[j].h].st = "held"
         /\ \A m \in 1..Len(discardp) :
               m # j /\ discardp[m].type = "p" => discardp[m].h # discardp[j].h
  <2>1. \A k \in All(todo) : k.t = "discard_free" => k = H BY <1>1, <1>3, StackFacts DEF Ends
  <2> QED BY <2>1, LiveParts DEF DiscInv
<1>18. PortInv'
  <2>1. \A h : Opening(h)' <=> Opening(h) BY <1>1, <1>4, <1>5, StackFacts DEF Opening
  <2>2. ASSUME NEW h \in Handles, srv.port[h].st # "none", Marked(h)
        PROVE  Marked(h)'
    <3>1. PICK j \in 1..Len(discardp) : discardp[j].type = "p" /\ discardp[j].h = h BY <2>2 DEF Marked
    <3>2. j # i BY <1>16, <2>2, <3>1
    <3>3. j \in 1..Len(discardp') /\ discardp'[j] = discardp[j] BY <1>12, <1>14, <3>2
    <3> QED BY <3>1, <3>3 DEF Marked
  <2> QED BY <1>1, <2>1, <2>2, LiveParts DEF PortInv
<1>19. DiscInv'
  <2>1. \A k \in All(todo') : k.t \in {"discard", "discard_free"} => i > 1 /\ k = e BY <1>3, <1>5 DEF Ends
  <2>2. \A k \in All(todo') : k.t \in {"discard", "discard_free"} =>
           k.t = "discard" /\ k.i = Len(discardp') /\ k.i > 0
    BY <1>4, <1>12, <1>14, <2>1
  <2>3. discardp' # << >> => i > 1 BY <1>12, <1>13, <1>14
  <2>4. i > 1 => e \in All(todo') /\ e.t \in Discs BY <1>4, <1>5 DEF Discs
  <2>5. 1..Len(discardp') \subseteq 1..Len(discardp) /\ \A j \in 1..Len(discardp') :
          j # i /\ discardp'[j] = discardp[j]
    BY <1>12, <1>14
  <2>6. \A j \in 1..Len(discardp') : discardp'[j].type = "p" =>
         /\ discardp'[j].h \in Handles /\ ~curs[discardp'[j].h].open
         /\ srv.port[discardp'[j].h].st = "held"
         /\ \A m \in 1..Len(discardp') :
               m # j /\ discardp'[m].type = "p" => discardp'[m].h # discardp'[j].h
    BY <1>17, <2>5
  <2> QED BY <1>1, <2>2, <2>3, <2>4, <2>6 DEF DiscInv
<1> QED BY <1>5, <1>9, <1>11, <1>18, <1>19, DiscardKept, LiveFrom, LiveParts
--------------------
(* A commit: each cursor is settled, and the objects are discarded *)
LEMMA OnCommitEndStep ==
  ASSUME IInv, OnCommitEnd
  PROVE  IInv'
<1>1. /\ todo # << >> /\ H.t = "on_commit_end" /\ BaseInv /\ Sound(todo) /\ todo \in Seq(Tasks)
      /\ conn' = [conn EXCEPT !.committing = FALSE] /\ conn \in Conns
      /\ UNCHANGED <<srv, curs, discardp, ret, last>>
  BY TypesOf DEF OnCommitEnd, Top, H
<1>2. todo' = Tail(todo) BY <1>1, NoCat DEF OnCommitEnd, Then
<1>3. conn' \in Conns BY <1>1, Zenon DEF Conns
<1>4. /\ ~conn'.committing /\ conn'.op = conn.op
      /\ (conn'.alive <=> conn.alive) /\ (conn'.auto <=> conn.auto)
      /\ (conn'.inTrans <=> conn.inTrans) /\ (conn'.manual <=> conn.manual)
      /\ (conn'.err <=> conn.err) /\ (conn'.svp <=> conn.svp)
      /\ (conn'.point <=> conn.point) /\ (conn'.ignored <=> conn.ignored)
  BY <1>1 DEF Conns
<1>5. /\ All(todo') = Rest /\ All(todo) = {H} \cup Rest /\ Sound(todo')
      /\ \A k \in Rest : k.t \in Ends \cup {"update", "return"}
  <2>1. \A k \in Rest : k.t \in Lower(H.t) BY <1>1, StackFacts
  <2> QED BY <1>1, <1>2, <2>1, Pop, StackFacts DEF Lower, Talk, Clears, Discs
<1>6. BaseInv'
  <2>1. StackInv' BY <1>1, <1>2, <1>4, TypesOf, StackPopped
  <2>2. TypeOK' BY <1>1, <1>3, <1>5, TypesOf DEF TypeOK, Sound
  <2>3. Gone' BY <1>1, <1>4, TypesOf DEF Gone
  <2> QED BY <2>1, <2>2, <2>3 DEF BaseInv
<1> SUFFICES ASSUME conn.alive
             PROVE  LiveInv'
  BY <1>4, <1>6 DEF IInv
<1>7. ~Unsettled /\ Mirrors /\ conn.op = "none" BY <1>1, Settled, NoOp DEF Top, H
<1>8. Busy /\ conn.committing /\ srv.st = "IDLE" /\ ~conn.err
  <2>1. Has("on_commit_end") /\ Busy BY <1>1, <1>5 DEF Has, Busy, Chores
  <2> QED BY <2>1, LiveParts, TypesOf DEF StatusInv, StackInv
<1>9. PoppedOnly BY <1>1, <1>2, <1>4, <1>7 DEF PoppedOnly, Marks, Calls
<1>10. Mirrors' BY <1>1, <1>4, <1>7 DEF Mirrors, Matches
<1>11. conn'.svp \/ conn'.manual => conn'.inTrans BY <1>4, LiveParts DEF StatusInv
<1>12. discardp = << >>
  <2>1. \A k \in All(todo) : k.t \notin Discs BY <1>1, <1>5 DEF Discs, Ends
  <2> QED BY <1>8, <2>1, LiveParts DEF DiscInv
<1>13. ~Top("moved")' /\ ~Top("svp_sent")'
  <2>1. ~Has("svp_sent") BY <1>8, LiveParts DEF RetInv
  <2> QED BY <1>1, <1>2, <1>5, <2>1, Pop DEF Top, H, Has, Ends
<1> HIDE DEF Mirrors
<1> QED BY <1>1, <1>4, <1>5, <1>8, <1>9, <1>10, <1>11, <1>12, <1>13, PoppedLive DEF Clears, Ends

\* The cursor of the top task is kept, outlives the transaction or is gone.
Resolved(h, x) ==
  /\ x \in Cursors
  /\ \/ x = curs[h] /\ (~curs[h].open \/ curs[h].perm)
     \/ curs[h].open /\ ~curs[h].perm /\ ~curs[h].hold /\ ~x.open
     \/ curs[h].open /\ ~curs[h].perm /\ curs[h].hold /\ x.open /\ x.hold /\ x.perm

LEMMA ResolvedLive ==
  ASSUME IInv, conn.alive, todo # << >>, H.t \in Clears, todo' = Tail(todo),
         UNCHANGED <<conn, srv, discardp, ret, last>>,
         NEW x, Resolved(H.h, x), curs' = [curs EXCEPT ![H.h] = x]
  PROVE  LiveInv'
<1> PICK h : h = H.h OBVIOUS
<1>1. /\ BaseInv /\ StackInv /\ Sound(todo) /\ Truthful(todo) /\ curs \in [Handles -> Cursors]
      /\ H \in All(todo) /\ All(todo) = {H} \cup Rest /\ All(todo') = Rest /\ Sound(todo')
      /\ Truthful(todo') /\ (todo' # << >> => H' \in Rest)
  BY TypesOf, StackFacts, Pop
<1>2. h \in Handles BY <1>1 DEF StackInv, HandleTasks, Clears
<1>3. curs'[h] = x /\ \A g \in Handles : g # h => curs'[g] = curs[g] BY <1>1, <1>2
<1>4. \A k \in Rest : /\ k.t \in Ends \cup {"clear", "discard_all", "on_commit_end", "update", "return"}
  <2>1. \A k \in Rest : k.t \in Lower(H.t) BY <1>1, StackFacts
  <2> QED BY <2>1 DEF Lower, Talk, Clears
<1>5. /\ ~Unsettled /\ Mirrors /\ Matches /\ ~OnQuery /\ \A c : ~Pending(c) BY Settled DEF Clears
<1>6. /\ Busy /\ ~conn.err /\ conn.committing /\ srv.st = "IDLE" /\ ~InUse
      /\ \E k \in Rest : k.t = "on_commit_end"
  <2>1. Busy BY <1>1 DEF Busy, Chores
  <2>2. Has("on_commit_end") BY <1>1 DEF StackInv, Under, Clears
  <2> QED BY <1>1, <2>1, <2>2, LiveParts DEF StatusInv, StackInv, InUse, Has, Clears
<1>7. \A t \in Calls \cup {"stmt_rollback", "begin", "commit", "abort", "close", "moved"} : ~Top(t)'
  <2>1. todo' # << >> => H'.t \in Ends \cup {"clear", "discard_all", "on_commit_end", "update", "return"}
    BY <1>1, <1>4
  <2> QED BY <2>1 DEF Top, H, Ends, Calls
<1>8. /\ ~Top("send") /\ ~Top("wire") /\ ~Top("commit") /\ ~Top("abort") /\ ~Top("begin") /\ ~Top("opened")
      /\ ~Top("stmt_end") /\ ~Top("stmt_clean")
  BY DEF Top, H, Clears
<1>9. \A k : k.t \notin Clears => (k \in All(todo') <=> k \in All(todo)) BY <1>1
<1>10. \A g \in Handles : /\ curs'[g].open => curs[g].open
                          /\ curs'[g].open /\ curs'[g].hold <=> curs[g].open /\ curs[g].hold
                          /\ curs'[g].open /\ ~curs'[g].perm => g # h /\ curs'[g] = curs[g]
  <2>1. Resolved(h, x) OBVIOUS
  <2>2. /\ x.open => curs[h].open
        /\ x.open /\ x.hold <=> curs[h].open /\ curs[h].hold
        /\ ~(x.open /\ ~x.perm)
    BY <2>1 DEF Resolved
  <2> QED BY <1>3, <2>2
<1>11. curs[h].open /\ ~curs[h].perm =>
         /\ srv.port[h].st = IF curs[h].hold THEN "held" ELSE "none"
         /\ ~Closing(h)
  BY <1>2, <1>6, LiveParts DEF OpenInv
<1>12. Resolved(h, x) /\ \A g : (Closing(g)' <=> Closing(g)) /\ (Opening(g)' <=> Opening(g))
                            /\ (Marked(g)' <=> Marked(g))
  BY <1>9 DEF Closing, Opening, Marked, Clears
<1>13. StatusInv'
  <2>1. Mirrors' /\ Matches' BY <1>5 DEF Mirrors, Matches
  <2> QED BY <1>6, <2>1, LiveParts DEF StatusInv
<1>14. TalkInv' BY <1>7, TalkNone, NoOp, <1>8
<1>15. SvpInv' /\ LevelInv'
  <2>1. (Has("stmt_end")' <=> Has("stmt_end")) /\ (Has("stmt_clean")' <=> Has("stmt_clean"))
    BY <1>9 DEF Has, Clears
  <2>2. ~OnQuery' BY <1>7 DEF OnQuery, Calls
  <2>3. SvpInv' BY <1>5, <1>6, <1>7, <2>1, <2>2, LiveParts DEF SvpInv
  <2>4. LevelInv' BY <1>6, LiveParts DEF LevelInv
  <2> QED BY <2>3, <2>4
<1>16. PermInv'
  <2> SUFFICES ASSUME NEW g \in Handles, curs'[g].open, curs'[g].perm
               PROVE  curs'[g].hold /\ (srv.port[g].st = "held" \/ Closing(g)')
    BY DEF PermInv
  <2>1. CASE curs'[g] = curs[g] BY <1>12, <2>1, LiveParts DEF PermInv
  <2>2. CASE curs'[g] # curs[g]
    <3>1. g = h /\ x # curs[h] BY <1>3, <2>2
    <3> QED BY <1>3, <1>11, <1>12, <3>1 DEF Resolved
  <2> QED BY <2>1, <2>2
<1>17. OpenInv'
  <2> SUFFICES ASSUME NEW g \in Handles, curs'[g].open, ~curs'[g].perm
               PROVE  /\ \E k \in All(todo') : k.t \in Clears /\ k.h = g
                      /\ srv.port[g].st = IF ~conn.err /\ curs'[g].hold THEN "held" ELSE "none"
                      /\ ~Closing(g)'
    BY <1>6 DEF OpenInv
  <2>1. g # h /\ curs'[g] = curs[g] BY <1>10
  <2>2. /\ \E k \in All(todo) : k.t \in Clears /\ k.h = g
        /\ srv.port[g].st = IF ~conn.err /\ curs[g].hold THEN "held" ELSE "none"
        /\ ~Closing(g)
    BY <1>6, <2>1, LiveParts DEF OpenInv
  <2> QED BY <1>1, <1>12, <2>1, <2>2
<1>18. PortInv'
  <2> SUFFICES ASSUME NEW g \in Handles, srv.port[g].st # "none", ~curs'[g].open
               PROVE  ~curs[g].open
    BY <1>12, LiveParts DEF PortInv
  <2>1. CASE g # h BY <1>3, <2>1
  <2>2. CASE g = h BY <1>3, <1>11, <1>12, <2>2 DEF Resolved
  <2> QED BY <2>1, <2>2
<1>19. ASSUME NEW k \in All(todo'), k.t = "closed"
       PROVE  /\ k \in All(todo) /\ k.h \in Handles /\ curs'[k.h] = curs[k.h]
              /\ curs[k.h].open /\ srv.port[k.h].st = "none"
  <2>1. k \in All(todo) /\ k.h \in Handles /\ Closing(k.h)
    BY <1>1, <1>19 DEF StackInv, HandleTasks, Closing
  <2>2. curs[k.h].open /\ srv.port[k.h].st = "none" BY <1>5, <1>19, <2>1, LiveParts DEF CloseInv
  <2>3. k.h = h => x = curs[h] BY <1>11, <1>12, <2>1 DEF Resolved
  <2> QED BY <1>3, <2>1, <2>2, <2>3
<1>20. CloseInv'
  <2>1. \A k \in All(todo') : k.t \notin {"moved", "close"} BY <1>1, <1>4 DEF Ends
  <2>2. ~Has("close_eof")' BY <1>6, <1>9, LiveParts DEF Has, CloseInv, Clears
  <2>3. Has("commit_send")' => \A k \in All(todo') : k.t # "closed"
    BY <1>1, <1>6, LiveParts DEF Has, CloseInv
  <2> QED BY <1>7, <1>19, <2>1, <2>2, <2>3 DEF CloseInv
<1>21. IgnInv'
  <2>1. \A k \in All(todo') : k.t # "close" BY <1>1, <1>4 DEF Ends
  <2> QED BY <1>10, <1>19, <2>1, LiveParts DEF IgnInv
<1>22. OpeningInv'
  <2>1. Failed1 => Failed1' BY <1>1, <1>8, <1>9 DEF Failed1, Clears
  <2>2. \A k \in All(todo') : k.t = "opened" => k \in All(todo) /\ k.h \in Handles
    BY <1>1 DEF StackInv, HandleTasks
  <2> QED BY <1>6, <1>8, <1>10, <2>1, <2>2, LiveParts DEF OpeningInv, InUse
<1>23. DiscInv'
  <2>1. \A c : ~Pending(c)' BY <1>7 DEF Pending, Calls
  <2>2. \A k : k.t \in {"discard", "discard_free"} => (k \in All(todo') <=> k \in All(todo))
    BY <1>9 DEF Clears
  <2>3. (\E k \in All(todo) : k.t \in Discs) => \E k \in All(todo') : k.t \in Discs
    BY <1>9 DEF Clears, Discs
  <2>4. /\ \A k \in All(todo') : k.t \in {"discard", "discard_free"} => k.i = Len(discardp) /\ k.i > 0
        /\ \A k \in All(todo') : k.t # "discard_free"
        /\ discardp # << >> => conn.err \/ \E k \in All(todo') : k.t \in Discs
    BY <1>1, <1>4, <2>2, <2>3, LiveParts DEF DiscInv, Ends
  <2>5. \A k \in All(todo) : k.t # "discard_free" BY <2>2, <2>4
  <2>6. \A j \in 1..Len(discardp) : discardp[j].type = "p" =>
        /\ discardp[j].h \in Handles /\ ~curs'[discardp[j].h].open
        /\ srv.port[discardp[j].h].st = "held"
        /\ \A i \in 1..Len(discardp) :
              i # j /\ discardp[i].type = "p" => discardp[i].h # discardp[j].h
    BY <1>10, <2>5, LiveParts DEF DiscInv
  <2> QED BY <2>4, <2>6 DEF DiscInv
<1>24. RetInv' /\ ExtInv'
  <2>1. ~Has("svp_sent")' /\ ~Top("svp_sent")'
    <3>1. ~Has("svp_sent") BY <1>6, LiveParts DEF RetInv
    <3> QED BY <1>1, <3>1 DEF Has, Top, H
  <2>2. RetInv' BY <1>6, <1>7, <2>1 DEF RetInv
  <2>3. ExtInv' BY <1>1, <1>8, LiveParts DEF ExtInv, Beginning
  <2> QED BY <2>2, <2>3
<1> QED BY <1>1, <1>13, <1>14, <1>15, <1>16, <1>17, <1>18, <1>20, <1>21, <1>22, <1>23, <1>24, LiveFrom
LEMMA CursorType ==
  ASSUME NEW c \in Cursors
  PROVE  /\ [c EXCEPT !.perm = TRUE] \in Cursors
         /\ [c EXCEPT !.perm = TRUE].open <=> c.open
         /\ [c EXCEPT !.perm = TRUE].hold <=> c.hold
         /\ [c EXCEPT !.perm = TRUE].perm
         /\ [c EXCEPT !.perm = TRUE, !.doubt = FALSE] \in Cursors
         /\ [c EXCEPT !.perm = TRUE, !.doubt = FALSE].open <=> c.open
         /\ [c EXCEPT !.perm = TRUE, !.doubt = FALSE].hold <=> c.hold
         /\ [c EXCEPT !.perm = TRUE, !.doubt = FALSE].perm
         /\ NoCursor \in Cursors /\ ~NoCursor.open
<1>1. [c EXCEPT !.perm = TRUE] \in Cursors BY Zenon DEF Cursors
<1>2. [c EXCEPT !.perm = TRUE, !.doubt = FALSE] \in Cursors BY Zenon DEF Cursors
<1>3. NoCursor \in Cursors BY Zenon DEF Cursors, NoCursor
<1> QED BY <1>1, <1>2, <1>3 DEF Cursors, NoCursor

\* The types after a task that changes one cursor.
LEMMA PoppedCursor ==
  ASSUME IInv, todo # << >>, H.t \in Marks, todo' = Tail(todo),
         UNCHANGED <<conn, srv, discardp, ret, last>>,
         NEW h \in Handles, NEW x \in Cursors, curs' = [curs EXCEPT ![h] = x]
  PROVE  BaseInv'
<1>1. StackInv /\ Sound(todo) /\ Sound(todo') /\ curs \in [Handles -> Cursors] BY TypesOf, Pop
<1>2. StackInv' BY <1>1, StackPopped DEF Marks
<1>3. curs' \in [Handles -> Cursors] BY <1>1
<1> QED BY <1>1, <1>2, <1>3, TypesOf DEF BaseInv, TypeOK, Gone, Sound

LEMMA ClearCursorStep ==
  ASSUME IInv, ClearCursor
  PROVE  IInv'
<1> PICK h : h = H.h OBVIOUS
<1> DEFINE move == curs[h].open /\ curs[h].hold /\ ~curs[h].perm /\ curs[h].doubt
           c == CursCmd("move", h)
           q == <<c>>
           e == Send(q, QuickFlags)
           f == CallH("moved", h)
<1>1. /\ todo # << >> /\ H.t = "clear" /\ BaseInv /\ StackInv /\ Sound(todo) /\ todo \in Seq(Tasks)
      /\ UNCHANGED <<conn, srv, discardp, ret, last>> /\ curs \in [Handles -> Cursors]
      /\ H \in Tasks /\ H \in All(todo)
      /\ curs' = [curs EXCEPT ![h] =
                    IF ~curs[h].open \/ move \/ curs[h].perm THEN curs[h]
                    ELSE IF ~curs[h].hold THEN NoCursor ELSE [curs[h] EXCEPT !.perm = TRUE]]
      /\ Then(If(move, <<e, f>>))
  <2>1. Top("clear") /\ UNCHANGED <<conn, srv, discardp, ret, last>> BY DEF ClearCursor
  <2>2. todo # << >> /\ H.t = "clear" BY <2>1 DEF Top, H
  <2>3. BaseInv /\ StackInv /\ Sound(todo) /\ todo \in Seq(Tasks) /\ curs \in [Handles -> Cursors]
    BY TypesOf
  <2>4. H \in Tasks /\ H \in All(todo) BY <2>2, <2>3, StackFacts
  <2> QED BY <2>1, <2>2, <2>3, <2>4 DEF ClearCursor, H, QuickFlags
<1>2. h \in Handles /\ curs[h] \in Cursors BY <1>1 DEF StackInv, HandleTasks
<1>3. todo' = IF move THEN <<e, f>> \o Tail(todo) ELSE Tail(todo)
  <2>1. move \in BOOLEAN BY <1>2 DEF Cursors
  <2> HIDE DEF e, f, move
  <2> QED BY <1>1, <2>1, ThenIf
<1>4. CASE ~move
  <2> PICK x : x = IF ~curs[h].open \/ move \/ curs[h].perm THEN curs[h]
                   ELSE IF ~curs[h].hold THEN NoCursor ELSE [curs[h] EXCEPT !.perm = TRUE]
    OBVIOUS
  <2>1. Resolved(h, x) BY <1>2, <1>4, CursorType DEF Resolved
  <2>2. curs' = [curs EXCEPT ![h] = x] /\ todo' = Tail(todo) BY <1>1, <1>3, <1>4
  <2>3. BaseInv' BY <1>1, <1>2, <2>1, <2>2, PoppedCursor DEF Resolved, Marks
  <2>4. conn.alive => LiveInv' BY <1>1, <2>1, <2>2, ResolvedLive DEF Clears
  <2> QED BY <1>1, <2>3, <2>4 DEF IInv
<1>5. CASE move
  <2> DEFINE N == {e, f}
  <2>1. c \in Cmds /\ c.op = "move" /\ c.h = h /\ q \in Seq(Cmds) /\ One(q, c)
        /\ QuickFlags \in SUBSET Flags
    <3>1. c \in Cmds /\ c.op = "move" /\ c.h = h BY <1>2, CursCmdType DEF CmdNames
    <3>2. QuickFlags \in SUBSET Flags BY DEF QuickFlags, Flags
    <3> HIDE DEF c
    <3>3. q \in Seq(Cmds) /\ One(q, c) BY <3>1 DEF One
    <3> QED BY <3>1, <3>2, <3>3
  <2>2. f \in Tasks /\ f.t = "moved" /\ f.h = h BY <1>2, CallHType DEF TaskNames
  <2> HIDE DEF q, f
  <2>3. e \in Tasks /\ e.t = "send" /\ e.q = q /\ e.f = QuickFlags BY <2>1, SendType
  <2>4. todo' = <<e, f>> \o Tail(todo) /\ curs' = curs BY <1>1, <1>2, <1>3, <1>5
  <2> HIDE DEF e
  <2>5. \A k \in Rest : /\ k.t \in Ends \cup {"clear", "discard_all", "on_commit_end", "update", "return"}
                        /\ k.t \in Lower("send") /\ k.t \in Lower("moved")
    BY <1>1, StackFacts DEF Lower, Talk, Clears, Discs, Ends, Chores
  <2>6. /\ Sound(todo') /\ todo' # << >> /\ H' = e /\ Rest' = {f} \cup Rest /\ All(todo') = N \cup Rest
        /\ Truthful(todo) => Truthful(todo')
    <3>1. f.t \in Lower(e.t) BY <2>2, <2>3 DEF Lower, Talk, Chores, Clears
    <3> QED
      <4>1. Tail(todo) # << >> => Head(Tail(todo)).t # "opened" BY <1>1, StackFacts DEF Works
      <4>2. ~Awaits(e) /\ ~Works(e) /\ ~Awaits(f) BY <2>2, <2>3 DEF Awaits, Works
      <4> QED BY <1>1, <2>2, <2>3, <2>4, <2>5, <3>1, <4>1, <4>2, Replace2
  <2> HIDE DEF N
  <2>7. Turned(N) BY <1>1, <2>2, <2>3, <2>4, <2>6 DEF Turned, SameSrv, N
  <2>8. BaseInv'
    <3>1. \A k \in N : k.t \in HandleTasks => k.h \in Handles BY <1>2, <2>2, <2>3 DEF N, HandleTasks
    <3>2. \A k \in N : \A t \in Under(k.t) : \E m \in N \cup Rest : m.t = t
      <4>1. \E m \in Rest : m.t = "on_commit_end"
        <5>1. Has("on_commit_end") BY <1>1 DEF StackInv, Under, Clears
        <5> QED BY <1>1, <5>1, StackFacts DEF Has
      <4> QED BY <2>2, <2>3, <4>1 DEF N, Under, Clears
    <3>3. Gone' BY <1>1, TypesOf DEF Gone
    <3> QED BY <1>1, <2>6, <2>7, <3>1, <3>2, <3>3, TypesOf, TurnedBase
  <2> SUFFICES ASSUME conn.alive
               PROVE  LiveInv'
    BY <1>1, <2>8 DEF IInv
  <2>9. /\ ~Unsettled /\ Mirrors /\ Matches /\ ~OnQuery /\ \A d : ~Pending(d) BY <1>1, Settled
  <2>10. Busy /\ ~conn.err /\ conn.committing /\ srv.st = "IDLE"
    <3>1. Has("on_commit_end") /\ Busy BY <1>1 DEF StackInv, Under, Clears, Busy, Chores
    <3> QED BY <1>1, <3>1, LiveParts DEF StatusInv, StackInv
  <2>11. srv.port[h].st = "held" BY <1>2, <1>5, <2>10, LiveParts DEF OpenInv
  <2>12. /\ Top("send")' /\ ~Top("wire")' /\ ~Top("query_rollback")' /\ ~Top("update")'
         /\ H'.q = q /\ H'.f = QuickFlags /\ H'.t = "send"
    BY <2>3, <2>6 DEF Top, H
  <2>13. conn.op = "none" BY <1>1, NoOp DEF Top, H
  <2>14. StatusInv'
    <3>1. Mirrors' /\ Matches' BY <1>1, <2>9 DEF Mirrors, Matches
    <3> QED BY <1>1, <2>7, <2>10, <2>13, <3>1, LiveParts, TurnedStatus DEF StatusInv
  <2>15. SvpInv' /\ LevelInv' BY <1>1, <2>7, <2>9, <2>12, TurnedSvp, LiveParts DEF OnQuery
  <2>16. PermInv' /\ OpenInv' /\ PortInv'
    BY <1>1, <2>2, <2>3, <2>7, <2>9, LiveParts, TurnedCursors DEF N, Clears
  <2>17. TalkInv'
    <3>1. f \in Rest' BY <2>6
    <3>2. Quick(c)' BY <2>2, <3>1 DEF Quick
    <3>3. Sure(c)' BY <1>1, <2>1, <2>11 DEF Sure
    <3> HIDE DEF c
    <3>4. QuickSend' BY <1>1, <2>1, <2>10, <2>12, <3>2, <3>3 DEF QuickSend, Maybe, QuickFlags
    <3> QED BY <1>1, <2>12, <2>13, <3>4 DEF TalkInv, SendInv, WireInv
  <2>18. \A d : d.op = "close" => ~Pending(d)' BY <2>1, <2>12 DEF Pending, One
  <2>19. CloseInv' /\ IgnInv'
    <3>1. ~Has("close_eof") /\ \A k \in All(todo) : Has("commit_send") => k.t \notin {"close", "closed"}
      BY <2>10, LiveParts DEF CloseInv, InUse
    <3>2. \A t \in {"close", "closed", "close_eof", "commit_send"} : \A k \in All(todo') :
            k.t = t => k \in All(todo)
      BY <1>1, <2>2, <2>3, <2>6, StackFacts DEF N
    <3>3. \A k \in All(todo') : k.t = "moved" => curs[k.h].open /\ curs[k.h].hold /\ ~curs[k.h].perm
      <4>1. \A k \in All(todo') : k.t = "moved" => k = f BY <2>3, <2>5, <2>6 DEF N, Ends
      <4> QED BY <1>5, <2>2, <4>1
    <3>4. \A k \in All(todo') : k.t = "closed" => curs[k.h].open /\ srv.port[k.h].st = "none"
      BY <2>9, <3>2, LiveParts DEF CloseInv
    <3>5. CloseInv' BY <1>1, <2>4, <2>12, <3>1, <3>2, <3>3, <3>4 DEF CloseInv, Has, Top, H
    <3>6. IgnInv' BY <1>1, <2>4, <3>2, LiveParts DEF IgnInv
    <3> QED BY <3>5, <3>6
  <2>20. DiscInv'
    <3>1. \E k \in All(todo') : k.t \in Discs \/ discardp = << >>
      <4>1. discardp # << >> => \E k \in Rest : k.t \in Discs
        BY <1>1, <2>10, StackFacts, LiveParts DEF DiscInv, Discs
      <4> QED BY <2>6, <4>1 DEF N
    <3> QED BY <1>1, <2>2, <2>3, <2>6, <2>7, <2>9, <2>18, <3>1, LiveParts, TurnedDisc DEF N
  <2>21. OpeningInv'
    <3>1. Failed1 <=> Failed1'
      <4>1. /\ All(todo) = {H} \cup Rest /\ H.t = "clear" /\ todo # << >>
            /\ All(todo') = {e, f} \cup Rest /\ todo' # << >> /\ H' = e
            /\ e.t = "send" /\ f.t = "moved"
        BY <1>1, <2>2, <2>3, <2>6, StackFacts DEF N
      <4>2. ~Top("wire") /\ ~Top("opened") /\ ~Top("wire")' /\ ~Top("opened")' BY <4>1 DEF Top, H
      <4> QED BY <4>1, <4>2 DEF Failed1
    <3>2. ~Top("wire") /\ ~Top("send") BY <1>1 DEF Top, H
    <3> QED BY <1>1, <2>7, <3>1, <3>2, LiveParts, TurnedOpening
  <2>22. RetInv' /\ ExtInv'
    <3>1. ~Has("svp_sent") BY <2>10, LiveParts DEF RetInv
    <3>2. ~In("svp_sent") BY <1>1, <3>1, StackFacts DEF Has, In
    <3>3. ~Beginning BY <1>1 DEF Beginning, Top, H
    <3> QED BY <1>1, <2>2, <2>3, <2>7, <2>10, <2>12, <3>2, <3>3, LiveParts, TurnedRest DEF N
  <2> QED BY <2>6, <2>14, <2>15, <2>16, <2>17, <2>19, <2>20, <2>21, <2>22, LiveFrom, LiveParts
<1> QED BY <1>4, <1>5

LEMMA MovedStep ==
  ASSUME IInv, Moved
  PROVE  IInv'
<1> PICK h : h = H.h OBVIOUS
<1> PICK x : x = IF ret = "ok" /\ ~conn.ignored
                 THEN [curs[h] EXCEPT !.perm = TRUE, !.doubt = FALSE] ELSE NoCursor
  OBVIOUS
<1>1. /\ todo # << >> /\ H.t = "moved" /\ BaseInv /\ StackInv /\ Sound(todo) /\ todo \in Seq(Tasks)
      /\ UNCHANGED <<conn, srv, discardp, ret, last>> /\ curs \in [Handles -> Cursors]
      /\ curs' = [curs EXCEPT ![h] = x]
  BY TypesOf DEF Moved, Top, H
<1>2. h \in Handles /\ curs[h] \in Cursors /\ H \in All(todo)
  BY <1>1, StackFacts DEF StackInv, HandleTasks
<1>3. todo' = Tail(todo) BY <1>1, NoCat DEF Moved, Then
<1>4. x \in Cursors BY <1>2, CursorType
<1>5. BaseInv' BY <1>1, <1>2, <1>3, <1>4, PoppedCursor DEF Marks
<1>6. ASSUME conn.alive
      PROVE  LiveInv'
  <2>1. curs[h].open /\ curs[h].hold /\ ~curs[h].perm BY <1>1, <1>2, <1>6, LiveParts DEF CloseInv
  <2>2. ret = "ok" BY <1>1, <1>6, LiveParts DEF RetInv, Top, H
  <2>3. ~conn.ignored BY <1>2, <1>6, <2>1, LiveParts DEF IgnInv
  <2>4. Resolved(h, x) BY <1>2, <1>4, <2>1, <2>2, <2>3, CursorType DEF Resolved
  <2> QED BY <1>1, <1>3, <1>6, <2>4, ResolvedLive DEF Clears
<1> QED BY <1>1, <1>5, <1>6 DEF IInv
--------------------
(* One task for each statement *)
LEMMA CatParts ==
  ASSUME NEW S, NEW s \in Seq(S), NEW q \in Seq(S)
  PROVE  /\ s \o q \in Seq(S) /\ Len(s \o q) = Len(s) + Len(q) /\ Len(s) \in Nat /\ Len(q) \in Nat
         /\ \A i \in 1..Len(s) : (s \o q)[i] = s[i]
         /\ \A i \in 1..Len(q) : (s \o q)[Len(s) + i] = q[i]
         /\ All(s \o q) = All(s) \cup All(q)
         /\ s # << >> => s \o q # << >> /\ Head(s \o q) = s[1] /\ s[1] \in All(s)
<1> DEFINE c == s \o q
<1>1. /\ c \in Seq(S) /\ Len(c) = Len(s) + Len(q) /\ Len(s) \in Nat /\ Len(q) \in Nat
      /\ \A i \in 1..Len(s) : c[i] = s[i]
      /\ \A i \in 1..Len(q) : c[Len(s) + i] = q[i]
  OBVIOUS
<1> HIDE DEF c
<1>2. All(c) = All(s) \cup All(q)
  <2>1. ASSUME NEW i \in 1..Len(c)
        PROVE  c[i] \in All(s) \cup All(q)
    <3>1. CASE i <= Len(s)
      <4>1. i \in 1..Len(s) BY <1>1, <3>1
      <4> QED BY <1>1, <4>1 DEF All
    <3>2. CASE ~(i <= Len(s))
      <4> DEFINE j == i - Len(s)
      <4>1. j \in 1..Len(q) /\ Len(s) + j = i BY <1>1, <3>2
      <4> HIDE DEF j
      <4> QED BY <1>1, <4>1 DEF All
    <3> QED BY <3>1, <3>2
  <2>2. ASSUME NEW i \in 1..Len(s)
        PROVE  s[i] \in All(c)
    BY <1>1 DEF All
  <2>3. ASSUME NEW i \in 1..Len(q)
        PROVE  q[i] \in All(c)
    <3>1. Len(s) + i \in 1..Len(c) /\ c[Len(s) + i] = q[i] BY <1>1
    <3> QED BY <3>1 DEF All
  <2> QED BY <2>1, <2>2, <2>3 DEF All
<1>3. s # << >> => c # << >> /\ Head(c) = s[1] /\ s[1] \in All(s)
  <2> SUFFICES ASSUME s # << >>
               PROVE  c # << >> /\ Head(c) = s[1] /\ s[1] \in All(s)
    OBVIOUS
  <2>1. Len(s) > 0 /\ Len(c) > 0 /\ 1 \in 1..Len(s) BY <1>1
  <2>2. c # << >> /\ Head(c) = c[1] BY <1>1, <2>1
  <2> QED BY <1>1, <2>1, <2>2 DEF All
<1> QED BY <1>1, <1>2, <1>3 DEF c

LEMMA StackCat ==
  ASSUME NEW s \in Seq(Tasks), NEW q, Sound(q), Ordered(s),
         \A a \in All(s) : /\ ~Awaits(a) /\ a.t # "return" /\ a.t # "opened"
                           /\ \A b \in All(q) : b.t \in Lower(a.t)
                           /\ Works(a) /\ q # << >> => Head(q).t # "opened"
  PROVE  Sound(s \o q) /\ (Truthful(q) => Truthful(s \o q))
<1> DEFINE c == s \o q
<1>1. /\ q \in Seq(Tasks) /\ Ordered(q) /\ Answered(q) BY DEF Sound
<1>2. /\ c \in Seq(Tasks) /\ Len(c) = Len(s) + Len(q) /\ Len(s) \in Nat /\ Len(q) \in Nat
      /\ \A i \in 1..Len(s) : c[i] = s[i]
      /\ \A i \in 1..Len(q) : c[Len(s) + i] = q[i]
  BY <1>1, CatParts
<1> HIDE DEF c
<1>3. ASSUME NEW i \in 1..Len(c)
      PROVE  \/ i \in 1..Len(s) /\ c[i] = s[i] /\ c[i] \in All(s)
             \/ \E j \in 1..Len(q) : i = Len(s) + j /\ c[i] = q[j] /\ c[i] \in All(q)
  <2>1. CASE i <= Len(s)
    <3>1. i \in 1..Len(s) BY <1>2, <2>1
    <3> QED BY <1>2, <3>1 DEF All
  <2>2. CASE ~(i <= Len(s))
    <3> DEFINE j == i - Len(s)
    <3>1. j \in 1..Len(q) /\ Len(s) + j = i BY <1>2, <2>2
    <3> HIDE DEF j
    <3> QED BY <1>2, <3>1 DEF All
  <2> QED BY <2>1, <2>2
<1>4. Ordered(c)
  <2> SUFFICES ASSUME NEW i \in 1..Len(c), NEW j \in 1..Len(c), i < j
               PROVE  c[j].t \in Lower(c[i].t)
    BY DEF Ordered
  <2>1. CASE i \in 1..Len(s) /\ j \in 1..Len(s) BY <1>2, <2>1 DEF Ordered
  <2>2. CASE i \in 1..Len(s) /\ j \notin 1..Len(s)
    <3>1. c[i] \in All(s) BY <1>2, <2>2 DEF All
    <3>2. c[j] \in All(q) BY <1>3, <2>2
    <3> QED BY <3>1, <3>2
  <2>3. CASE i \notin 1..Len(s)
    <3>1. PICK a \in 1..Len(q) : i = Len(s) + a /\ c[i] = q[a] BY <1>3, <2>3
    <3>2. j \notin 1..Len(s) BY <1>2, <2>3
    <3>3. PICK b \in 1..Len(q) : j = Len(s) + b /\ c[j] = q[b] BY <1>3, <3>2
    <3>4. a < b BY <1>2, <3>1, <3>3
    <3> QED BY <1>1, <3>1, <3>3, <3>4 DEF Ordered
  <2> QED BY <2>1, <2>2, <2>3
<1>5. Answered(c)
  <2> SUFFICES ASSUME NEW i \in 1..Len(c) - 1
               PROVE  /\ Awaits(c[i]) => c[i + 1].t \in {"update", "return", "stmt_clean"}
                      /\ Works(c[i]) => c[i + 1].t # "opened"
    BY DEF Answered, Awaits, Works
  <2>1. i \in 1..Len(c) /\ i + 1 \in 1..Len(c) BY <1>2
  <2>2. CASE c[i] \in All(s)
    <3>1. CASE c[i + 1] \in All(s) BY <2>2, <3>1
    <3>2. CASE c[i + 1] \notin All(s)
      <4>1. PICK b \in 1..Len(q) : i + 1 = Len(s) + b /\ c[i + 1] = q[b] BY <1>3, <2>1, <3>2
      <4>2. CASE i \in 1..Len(s)
        <5>1. b = 1 /\ Len(q) > 0 BY <1>2, <4>1, <4>2
        <5>2. q # << >> /\ Head(q) = q[1] BY <1>1, <5>1
        <5> QED BY <2>2, <4>1, <5>1, <5>2
      <4>3. CASE i \notin 1..Len(s)
        <5>1. c[i] \in All(q) /\ \E a \in 1..Len(q) : i = Len(s) + a /\ c[i] = q[a] BY <1>3, <2>1, <4>3
        <5>2. PICK a \in 1..Len(q) : i = Len(s) + a /\ c[i] = q[a] BY <5>1
        <5>3. a \in 1..Len(q) - 1 /\ b = a + 1 BY <1>2, <4>1, <5>2
        <5> QED BY <1>1, <4>1, <5>2, <5>3 DEF Answered, Awaits, Works
      <4> QED BY <4>2, <4>3
    <3> QED BY <3>1, <3>2
  <2>3. CASE c[i] \notin All(s)
    <3>1. PICK a \in 1..Len(q) : i = Len(s) + a /\ c[i] = q[a] BY <1>3, <2>1, <2>3
    <3>2. a \in 1..Len(q) - 1 /\ c[i + 1] = q[a + 1]
      <4>1. a + 1 \in 1..Len(q) /\ i + 1 = Len(s) + (a + 1) BY <1>2, <3>1
      <4> QED BY <1>2, <4>1
    <3> QED BY <1>1, <3>1, <3>2 DEF Answered, Awaits, Works
  <2> QED BY <2>2, <2>3
<1>6. Truthful(q) => Truthful(c)
  <2> SUFFICES ASSUME Truthful(q), NEW i \in 1..Len(c), NEW j \in 1..Len(c), i < j,
                      c[i].t = "return", c[j].t \in Chores \cup {"update", "return"}
               PROVE  "ok" \in c[i].f
    BY DEF Truthful
  <2>1. PICK a \in 1..Len(q) : i = Len(s) + a /\ c[i] = q[a] BY <1>3
  <2>2. j \notin 1..Len(s) BY <1>2, <2>1
  <2>3. PICK b \in 1..Len(q) : j = Len(s) + b /\ c[j] = q[b] BY <1>3, <2>2
  <2>4. a < b BY <1>2, <2>1, <2>3
  <2> QED BY <2>1, <2>3, <2>4 DEF Truthful
<1> QED BY <1>2, <1>4, <1>5, <1>6 DEF Sound, c

\* The task t for each statement of the connection.
ForEach(t) == [k \in 1..Len(StmtList) |-> CallH(t, StmtList[k])]
LEMMA ForEachStack ==
  ASSUME NEW t \in {"close_eof", "clear"}
  PROVE  /\ ForEach(t) \in Seq(Tasks) /\ Ordered(ForEach(t))
         /\ \A k \in All(ForEach(t)) : k.t = t /\ k.h \in Handles
         /\ \A h \in Handles : \E k \in All(ForEach(t)) : k.h = h
<1> DEFINE s == ForEach(t)
           n == Len(StmtList)
<1>1. StmtList \in Seq(Handles) /\ n \in Nat /\ \A k \in 1..n : StmtList[k] \in Handles
  BY HandleAssumption
<1>2. \A k \in 1..n : s[k] \in Tasks /\ s[k].t = t /\ s[k].h = StmtList[k]
  <2> SUFFICES ASSUME NEW k \in 1..n
               PROVE  s[k] \in Tasks /\ s[k].t = t /\ s[k].h = StmtList[k]
    OBVIOUS
  <2>1. s[k] = CallH(t, StmtList[k]) BY DEF ForEach
  <2> QED BY <1>1, <2>1, CallHType DEF TaskNames
<1>3. s \in Seq(Tasks) /\ Len(s) = n
  <2>1. s = [k \in 1..n |-> s[k]] BY DEF ForEach
  <2>2. s \in [1..n -> Tasks] BY <1>2, <2>1
  <2> HIDE DEF s, n
  <2> QED BY <1>1, <2>2
<1> HIDE DEF s
<1>4. Ordered(s) BY <1>2, <1>3 DEF Ordered, Lower, Talk, Clears, Discs
<1>5. \A k \in All(s) : k.t = t /\ k.h \in Handles BY <1>1, <1>2, <1>3 DEF All
<1>6. ASSUME NEW h \in Handles
      PROVE  \E k \in All(s) : k.h = h
  <2>1. PICK k \in 1..n : StmtList[k] = h BY HandleAssumption
  <2> QED BY <1>2, <1>3, <2>1 DEF All
<1> QED BY <1>3, <1>4, <1>5, <1>6 DEF s
--------------------
(* A commit closes the cursors that have been read to their end *)
\* Tasks of a commit or a close.
Finishing == {"commit", "close_eof", "commit_send", "close", "closed"}
LEMMA UnderFinishing ==
  ASSUME IInv, todo # << >>, H.t \in Finishing
  PROVE  /\ Sound(todo) /\ All(todo) = {H} \cup Rest /\ H \in Tasks /\ H \in All(todo)
         /\ \A k \in Rest : /\ k.t \in {"close_eof", "commit_send", "transact_end", "set_auto"}
                            /\ k.t \in Lower("send") /\ k.t \in Lower(H.t)
         /\ H.t \in {"commit", "commit_send"} =>
               \A k \in Rest : k.t \in {"transact_end", "set_auto"} /\ k.t \in Lower("close_eof")
                               /\ k.t \in Lower("commit_send")
         /\ ~Busy /\ ~conn.committing
<1>1. Sound(todo) /\ StackInv BY TypesOf
<1>2. /\ All(todo) = {H} \cup Rest /\ H \in Tasks /\ H \in All(todo)
      /\ \A k \in Rest : k.t \in Lower(H.t)
  BY <1>1, StackFacts
<1>3. \A k \in Rest : /\ k.t \in {"close_eof", "commit_send", "transact_end", "set_auto"}
                      /\ k.t \in Lower("send")
  BY <1>2 DEF Lower, Talk, Clears, Discs, Ends, Finishing
<1>4. H.t \in {"commit", "commit_send"} =>
         \A k \in Rest : k.t \in {"transact_end", "set_auto"} /\ k.t \in Lower("close_eof")
                         /\ k.t \in Lower("commit_send")
  BY <1>2 DEF Lower, Talk, Clears, Discs
<1>5. ~Busy /\ ~conn.committing
  BY <1>1, <1>2, <1>3 DEF Busy, Chores, Discs, Clears, Finishing, StackInv, Has
<1> QED BY <1>1, <1>2, <1>3, <1>4, <1>5

\* What is known when such a task is on top.
LEMMA FinishingFacts ==
  ASSUME IInv, conn.alive, todo # << >>, H.t \in Finishing
  PROVE  /\ ~Unsettled /\ Mirrors /\ Matches /\ ~OnQuery /\ \A c : ~Pending(c)
         /\ conn.op = "none" /\ ~conn.point
         /\ srv.st # "IDLE" => conn.manual
         /\ srv.st = "IDLE" => \A g \in Handles : ~(curs[g].open /\ ~curs[g].perm)
         /\ \A h : ~Opening(h)
<1>1. /\ ~Unsettled /\ Mirrors /\ Matches /\ ~OnQuery /\ \A c : ~Pending(c) BY Settled DEF Finishing
<1>2. conn.op = "none" BY NoOp DEF Top, H, Finishing
<1>3. \A k \in All(todo) : k.t \in Finishing \cup {"transact_end", "set_auto"}
  BY UnderFinishing DEF Finishing
<1>4. ~conn.point /\ (srv.st # "IDLE" => conn.manual)
  BY <1>3, LiveParts DEF SvpInv, Has, StatusInv, NewTrans, Finishing
<1>5. srv.st = "IDLE" => \A g \in Handles : ~(curs[g].open /\ ~curs[g].perm)
  BY <1>1, UnderFinishing, LiveParts DEF OpenInv
<1>6. \A h : ~Opening(h) BY <1>3 DEF Opening, Finishing
<1> QED BY <1>1, <1>2, <1>4, <1>5, <1>6

\* The top task of a commit calls tasks that are not queries.
LEMMA FinishingTurn ==
  ASSUME IInv, todo # << >>, H.t \in {"commit", "close_eof"}, NEW N, Sound(todo'),
         All(todo') = N \cup Rest, todo' # << >>, H' \in N, Truthful(todo) => Truthful(todo'),
         UNCHANGED <<conn, srv, curs, discardp, ret, last>>,
         \A k \in N : (k.t \in {"close_eof", "commit_send", "close"} /\ k.h \in Handles) \/ k.t = "commit_send",
         \A k \in N : k.t = "close_eof" => \E m \in N : m.t = "commit_send",
         conn.alive =>
           /\ H.t = "commit" => conn.inTrans /\ \A k \in N : k.t # "close"
           /\ \A k \in N : k.t = "close" => curs[k.h].hold
           /\ (\E k \in N : k.t = "close_eof") => ~conn.err /\ conn.inTrans,
         H.t = "commit" => \E m \in N : m.t = "commit_send"
  PROVE  IInv'
<1>1. /\ Sound(todo) /\ All(todo) = {H} \cup Rest
      /\ \A k \in Rest : k.t \in {"close_eof", "commit_send", "transact_end", "set_auto"}
      /\ H.t = "commit" => \A k \in Rest : k.t \in {"transact_end", "set_auto"}
      /\ ~Busy /\ ~conn.committing /\ H \in All(todo)
  BY UnderFinishing DEF Finishing
<1>2. \A k \in N : k.t \in {"close_eof", "commit_send", "close"} OBVIOUS
<1>3. Turned(N) BY <1>1, <1>2 DEF Turned, SameSrv
<1>4. BaseInv'
  <2>1. \A k \in N : k.t \in HandleTasks => k.h \in Handles BY DEF HandleTasks
  <2>2. \A k \in N : \A t \in Under(k.t) : \E m \in N \cup Rest : m.t = t BY <1>2 DEF Under, Clears
  <2>3. Gone' BY TypesOf DEF Gone
  <2> QED BY <1>3, <2>1, <2>2, <2>3, TypesOf, TurnedBase
<1> SUFFICES ASSUME conn.alive
             PROVE  LiveInv'
  BY <1>4 DEF IInv
<1>5. /\ ~Unsettled /\ Mirrors /\ Matches /\ ~OnQuery /\ \A c : ~Pending(c)
      /\ conn.op = "none" /\ ~conn.point
      /\ srv.st = "IDLE" => \A g \in Handles : ~(curs[g].open /\ ~curs[g].perm)
  BY FinishingFacts DEF Finishing
<1>6. Mirrors' /\ Matches' BY <1>5 DEF Mirrors, Matches
<1>7. \A t \in Calls \cup {"stmt_rollback", "begin"} : ~Top(t)' BY <1>2 DEF Top, H, Calls
<1>8. StatusInv'
  <2>1. ~Busy' BY <1>1, <1>2 DEF Busy, Chores, Discs, Clears
  <2>2. /\ conn'.manual <=> conn.manual
        /\ conn'.err \/ conn'.svp \/ conn'.op # "none" \/ conn'.manual => conn'.inTrans
    BY LiveParts DEF StatusInv
  <2> QED BY <1>3, <1>6, <2>1, <2>2, LiveParts, TypesOf, TurnedStatus
<1>9. TalkInv' BY <1>5, <1>7, TalkNone
<1>10. SvpInv' /\ LevelInv' BY <1>3, <1>5, <1>7, TurnedSvp, LiveParts, TypesOf DEF OnQuery, Calls
<1>11. PermInv' /\ OpenInv' /\ PortInv' BY <1>2, <1>3, <1>5, LiveParts, TypesOf, TurnedCursors
<1>12. \A c : ~Pending(c)' BY <1>7 DEF Pending, Calls
<1>13. DiscInv'
  <2>1. discardp # << >> => conn.err BY <1>1, LiveParts DEF DiscInv, Busy, Chores
  <2> QED BY <1>2, <1>3, <1>5, <1>12, <2>1, LiveParts, TypesOf, TurnedDisc
<1>14. InUse /\ ~conn.err <=> conn.inTrans /\ ~conn.err
  BY <1>5, TypesOf, ServerFields DEF InUse, Mirrors, Matches, StNames
<1>15. H.t = "close_eof" => InUse /\ ~conn.err BY <1>1, LiveParts DEF CloseInv, Has
<1>16. CloseInv'
  <2>1. \A k \in All(todo') : k.t \notin {"closed", "moved"} BY <1>1, <1>2
  <2>2. ASSUME NEW k \in All(todo'), k.t = "close"
        PROVE  InUse /\ ~conn.err /\ curs[k.h].hold
    BY <1>1, <1>15, <2>2
  <2>3. Top("close")' => ~conn.err
    <3>1. Top("close")' => H' \in All(todo') /\ H'.t = "close" BY DEF Top, H
    <3> QED BY <2>2, <3>1
  <2>4. Has("close_eof")' => InUse /\ ~conn.err
    <3>1. ASSUME NEW k \in All(todo'), k.t = "close_eof"
          PROVE  InUse /\ ~conn.err
      <4>1. CASE k \in N BY <1>14, <3>1, <4>1
      <4>2. CASE k \in Rest BY <1>1, <1>15, <3>1, <4>2
      <4> QED BY <4>1, <4>2
    <3> QED BY <3>1 DEF Has
  <2> QED BY <2>1, <2>2, <2>3, <2>4 DEF CloseInv, InUse
<1>17. IgnInv'
  <2>1. \A k \in All(todo') : k.t # "closed" /\ (k.t = "close" => curs[k.h].hold) BY <1>1, <1>2
  <2> QED BY <2>1, LiveParts DEF IgnInv
<1>18. OpeningInv'
  <2>1. \A k \in All(todo') : k.t # "opened" BY <1>1, <1>2
  <2> QED BY <2>1 DEF OpeningInv
<1>19. RetInv' /\ ExtInv'
  <2>1. \A k \in All(todo') : k.t \notin {"svp_sent", "moved", "request_start", "exec_ext"} BY <1>1, <1>2
  <2>2. ExtInv' /\ ~Has("svp_sent")' /\ ~Top("svp_sent")' /\ ~Top("moved")'
    BY <2>1, <1>2 DEF ExtInv, Has, Top, H
  <2>3. Has("transact_end")' => Ending' \/ srv.st = "IDLE"
    <3> SUFFICES ASSUME Has("transact_end")'
                 PROVE  Has("commit_send")' \/ srv.st = "IDLE"
      BY DEF Ending
    <3>1. CASE H.t = "commit" BY <3>1 DEF Has
    <3>2. CASE H.t = "close_eof"
      <4>1. Has("commit_send") BY <1>1, <3>2, TypesOf DEF StackInv, Under, Clears
      <4> QED BY <1>1, <3>2, <4>1 DEF Has
    <3> QED BY <3>1, <3>2
  <2> QED BY <2>2, <2>3 DEF RetInv
<1> QED BY <1>8, <1>9, <1>10, <1>11, <1>13, <1>16, <1>17, <1>18, <1>19, LiveFrom, LiveParts

LEMMA CloseEofStep ==
  ASSUME IInv, CloseEof
  PROVE  IInv'
<1> PICK h : h = H.h OBVIOUS
<1> DEFINE b == curs[h].open /\ curs[h].hold /\ curs[h].eof
           e == CallH("close", h)
           N == {e}
<1>1. Top("close_eof") /\ UNCHANGED <<conn, srv, curs, discardp, ret, last>> /\ Then(If(b, <<e>>))
  BY DEF CloseEof, H
<1>2. /\ todo # << >> /\ H.t = "close_eof" /\ todo \in Seq(Tasks) /\ ret \in {"ok", "error"}
      /\ last \in LastType /\ StackInv
  BY <1>1, TypesOf DEF Top, H
<1>3. /\ Sound(todo) /\ All(todo) = {H} \cup Rest /\ H \in All(todo)
      /\ \A k \in Rest : /\ k.t \in {"close_eof", "commit_send", "transact_end", "set_auto"}
                         /\ k.t \in Lower("close_eof")
  BY <1>2, UnderFinishing DEF Finishing
<1>4. h \in Handles /\ curs[h] \in Cursors BY <1>2, <1>3, TypesOf DEF StackInv, HandleTasks
<1>5. todo' = IF b THEN <<e>> \o Tail(todo) ELSE Tail(todo)
  <2>1. b \in BOOLEAN BY <1>4 DEF Cursors
  <2> HIDE DEF b, e
  <2> QED BY <1>1, <1>2, <2>1, ThenIf
<1>6. CASE ~b
  <2>1. todo' = Tail(todo) BY <1>5, <1>6
  <2>2. ~Top("moved")' /\ ~Top("svp_sent")' BY <1>2, <1>3, <2>1, Pop DEF Top, H
  <2> QED BY <1>1, <1>2, <2>1, <2>2, PoppedSame DEF Marks, Calls, LastType
<1>7. CASE b
  <2>1. e \in Tasks /\ e.t = "close" /\ e.h = h BY <1>4, CallHType DEF TaskNames
  <2>2. todo' = <<e>> \o Tail(todo) /\ curs[h].hold BY <1>5, <1>7
  <2> HIDE DEF e, b
  <2>3. \A k \in Rest : k.t \in Lower("close") BY <1>3 DEF Lower, Talk, Clears, Discs
  <2>4. /\ Sound(todo') /\ todo' # << >> /\ H' = e /\ Rest' = Rest /\ All(todo') = N \cup Rest
        /\ Truthful(todo) => Truthful(todo')
    BY <1>2, <1>3, <2>1, <2>2, <2>3, Replace DEF Awaits, Works
  <2>5. \A k \in N : k.t = "close" /\ k.h = h BY <2>1
  <2>6. H' \in N BY <2>4
  <2> HIDE DEF N
  <2> QED BY <1>1, <1>2, <1>4, <2>2, <2>4, <2>5, <2>6, FinishingTurn
<1> QED BY <1>6, <1>7

LEMMA CommitStep ==
  ASSUME IInv, Commit
  PROVE  IInv'
<1> DEFINE s == If(conn.inTrans /\ ~conn.err, ForEach("close_eof"))
           e == Call("commit_send")
           q == <<e>> \o Tail(todo)
           N == All(s) \cup {e}
<1>1. /\ Top("commit") /\ UNCHANGED <<conn, srv, curs, discardp, last>>
      /\ Then(s \o If(conn.inTrans, <<e>>))
      /\ ret' = IF conn.inTrans THEN ret ELSE "ok"
  BY DEF Commit, ForEach
<1>2. /\ todo # << >> /\ H.t = "commit" /\ todo \in Seq(Tasks) /\ ret \in {"ok", "error"}
      /\ last \in LastType /\ StackInv /\ conn.inTrans \in BOOLEAN
  BY <1>1, TypesOf DEF Top, H, Conns
<1>3. /\ Sound(todo) /\ All(todo) = {H} \cup Rest /\ H \in All(todo)
      /\ \A k \in Rest : /\ k.t \in {"transact_end", "set_auto"}
                         /\ k.t \in Lower("close_eof") /\ k.t \in Lower("commit_send")
  BY <1>2, UnderFinishing DEF Finishing
<1>4. CASE ~conn.inTrans
  <2>1. todo' = Tail(todo) /\ ret' = "ok"
    <3>1. s \o If(conn.inTrans, <<e>>) = << >> BY <1>4, NoCmds, NoCat DEF If
    <3> HIDE DEF s, e
    <3> QED BY <1>1, <1>2, <1>4, <3>1, NoCat DEF Then
  <2>2. ~Top("moved")' /\ ~Top("svp_sent")' BY <1>2, <1>3, <2>1, Pop DEF Top, H
  <2>3. conn.alive => srv.st = "IDLE" BY <1>2, <1>4, Settled DEF Matches
  <2> QED BY <1>1, <1>2, <2>1, <2>2, <2>3, PoppedSame DEF Marks, Calls, LastType
<1>5. CASE conn.inTrans
  <2>1. e \in Tasks /\ e.t = "commit_send" BY CallType DEF TaskNames
  <2>2. /\ s \in Seq(Tasks) /\ Ordered(s)
        /\ \A k \in All(s) : k.t = "close_eof" /\ k.h \in Handles /\ conn.inTrans /\ ~conn.err
    <3>1. CASE conn.err BY <3>1, NoCmds, AllNone, NoneOrdered DEF If
    <3>2. CASE ~conn.err
      <4>1. s = ForEach("close_eof") BY <1>5, <3>2 DEF If
      <4> HIDE DEF s
      <4> QED BY <1>5, <3>2, <4>1, ForEachStack
    <3> QED BY <3>1, <3>2
  <2> HIDE DEF s, e
  <2>3. todo' = s \o q
    <3>1. <<e>> \in Seq(Tasks) /\ Tail(todo) \in Seq(Tasks) BY <1>2, <2>1
    <3>2. todo' = (s \o <<e>>) \o Tail(todo) BY <1>1, <1>5 DEF Then, If
    <3> QED BY <2>2, <3>1, <3>2, ConcatAssociative
  <2>4. Sound(Tail(todo)) /\ (Truthful(todo) => Truthful(Tail(todo))) BY <1>2, <1>3, StackFacts
  <2>5. /\ Sound(q) /\ q # << >> /\ Head(q) = e /\ All(q) = {e} \cup Rest
        /\ Truthful(todo) => Truthful(q)
    <3>1. ~Awaits(e) /\ ~Works(e) /\ e.t # "return" /\ \A k \in Rest : k.t \in Lower(e.t)
      BY <1>3, <2>1 DEF Awaits, Works
    <3>2. All(Tail(todo)) = Rest BY DEF Rest
    <3> QED BY <2>1, <2>4, <3>1, <3>2, Pushed
  <2> HIDE DEF q
  <2>6. \A a \in All(s) : /\ ~Awaits(a) /\ ~Works(a) /\ a.t # "return" /\ a.t # "opened"
                           /\ \A b \in All(q) : b.t \in Lower(a.t)
    BY <1>3, <2>1, <2>2, <2>5 DEF Awaits, Works, Lower, Talk, Clears, Discs
  <2>7. Sound(todo') /\ (Truthful(todo) => Truthful(todo')) BY <2>2, <2>3, <2>5, <2>6, StackCat
  <2>8. All(todo') = N \cup Rest /\ todo' # << >> /\ H' \in N
    <3>1. q \in Seq(Tasks) BY <2>5 DEF Sound
    <3>2. All(todo') = All(s) \cup All(q) BY <2>2, <2>3, <3>1, CatParts
    <3>3. CASE s = << >>
      <4>1. todo' = q BY <2>3, <3>1, <3>3, NoCat
      <4> QED BY <2>5, <3>2, <4>1 DEF H
    <3>4. CASE s # << >>
      <4>1. todo' # << >> /\ Head(todo') = s[1] /\ s[1] \in All(s) BY <2>2, <2>3, <3>1, <3>4, CatParts
      <4> QED BY <2>5, <3>2, <4>1 DEF H
    <3> QED BY <3>3, <3>4
  <2>9. /\ \A k \in N : (k.t \in {"close_eof"} /\ k.h \in Handles) \/ k.t = "commit_send"
        /\ e \in N
        /\ \A k \in N : k.t = "close_eof" => conn.inTrans /\ ~conn.err
    BY <2>1, <2>2
  <2> HIDE DEF N
  <2> QED BY <1>1, <1>2, <1>5, <2>1, <2>7, <2>8, <2>9, FinishingTurn
<1> QED BY <1>2, <1>4, <1>5
--------------------
(* The end of an SQLEndTran, an SQLSetConnectAttr and an SC_execute *)
\* The types after a task that changes only the driver's record.
LEMMA PoppedConn ==
  ASSUME IInv, todo # << >>, todo' = Tail(todo), H.t # "on_commit_end",
         UNCHANGED <<srv, discardp, ret>>, curs' \in [Handles -> Cursors], last' \in LastType,
         conn' \in Conns, conn'.committing <=> conn.committing, Gone'
  PROVE  BaseInv' /\ All(todo') = Rest
<1>1. StackInv /\ Sound(todo) /\ Sound(todo') /\ All(todo') = Rest BY TypesOf, Pop
<1>2. StackInv' BY <1>1, StackPopped
<1>3. TypeOK' BY <1>1, TypesOf DEF TypeOK, Sound, LastType
<1> QED BY <1>1, <1>2, <1>3 DEF BaseInv

LEMMA FlipAutocommitStep ==
  ASSUME IInv, FlipAutocommit
  PROVE  IInv'
<1>1. /\ todo # << >> /\ H.t = "set_auto" /\ BaseInv /\ Sound(todo) /\ todo \in Seq(Tasks)
      /\ conn' = [conn EXCEPT !.auto = ~conn.auto] /\ conn \in Conns
      /\ UNCHANGED <<srv, curs, discardp, ret, last>>
  BY TypesOf DEF FlipAutocommit, Top, H
<1>2. todo' = Tail(todo) BY <1>1, NoCat DEF FlipAutocommit, Then
<1>3. conn' \in Conns BY <1>1, Zenon DEF Conns
<1>4. /\ conn'.op = conn.op
      /\ (conn'.alive <=> conn.alive) /\ (conn'.committing <=> conn.committing)
      /\ (conn'.inTrans <=> conn.inTrans) /\ (conn'.manual <=> conn.manual)
      /\ (conn'.err <=> conn.err) /\ (conn'.svp <=> conn.svp)
      /\ (conn'.point <=> conn.point) /\ (conn'.ignored <=> conn.ignored)
  BY <1>1 DEF Conns
<1>5. Rest = {} /\ All(todo) = {H} BY <1>1, StackFacts DEF Lower, Talk, Clears, Discs
<1>6. BaseInv' /\ All(todo') = {}
  <2>1. Gone' BY <1>1, <1>4, TypesOf DEF Gone
  <2> QED BY <1>1, <1>2, <1>3, <1>4, <1>5, <2>1, TypesOf, PoppedConn
<1> SUFFICES ASSUME conn.alive
             PROVE  LiveInv'
  BY <1>4, <1>6 DEF IInv
<1>7. ~Unsettled /\ Mirrors /\ conn.op = "none" BY <1>1, Settled, NoOp DEF Top, H
<1>8. PoppedOnly BY <1>1, <1>2, <1>4, <1>7 DEF PoppedOnly, Marks, Calls
<1>9. Mirrors' BY <1>1, <1>4, <1>7 DEF Mirrors, Matches
<1>10. (conn'.svp \/ conn'.manual => conn'.inTrans) /\ (srv.st # "IDLE" => conn.manual)
  BY <1>1, <1>4, <1>5, LiveParts DEF StatusInv, NewTrans
<1>11. discardp # << >> => conn.err BY <1>1, <1>5, LiveParts DEF DiscInv, Discs
<1>12. ~Top("moved")' /\ ~Top("svp_sent")' /\ ~In("opened") BY <1>1, <1>2, <1>5, Pop DEF Top, H, In
<1> HIDE DEF Mirrors
<1> QED BY <1>1, <1>4, <1>5, <1>8, <1>9, <1>10, <1>11, <1>12, PoppedLive

\* SQLEndTran that fails leaves no transaction, and no cursor of one.
LEMMA EndTransactStep ==
  ASSUME IInv, EndTransact
  PROVE  IInv'
<1>1. /\ todo # << >> /\ H.t = "transact_end" /\ BaseInv /\ Sound(todo) /\ todo \in Seq(Tasks)
      /\ conn \in Conns /\ curs \in [Handles -> Cursors] /\ ret \in {"ok", "error"}
      /\ UNCHANGED <<srv, discardp, ret>> /\ last' = [last EXCEPT !.failed = (ret = "error")]
      /\ last \in LastType
  BY TypesOf DEF EndTransact, Top, H
<1>2. last' \in LastType /\ last'.op = last.op BY <1>1 DEF LastType
<1>3. Rest = {} /\ All(todo) = {H} BY <1>1, StackFacts DEF Lower, Talk, Clears, Discs
<1>4. (~Top("moved")' /\ ~Top("svp_sent")') \/ todo' # Tail(todo) BY <1>1, <1>3, Pop DEF Top, H
<1>5. CASE ret = "ok"
  <2>1. todo' = Tail(todo) /\ conn' = conn /\ curs' = curs BY <1>1, <1>5, NoCat DEF EndTransact, Then
  <2> QED BY <1>1, <1>2, <1>4, <2>1, PoppedSame DEF Marks, Calls, LastType
<1>6. CASE ret = "error"
  <2>1. conn' = OnAbortConn /\ curs' = CursAborted /\ Then(OnAbortCalls) BY <1>6 DEF EndTransact
  <2>2. /\ conn' \in Conns /\ ~conn'.inTrans /\ ~conn'.svp /\ conn'.op = "none" /\ ~conn'.point
        /\ (conn.err => conn.inTrans) => ~conn'.err
        /\ (conn.manual => conn.inTrans) => ~conn'.manual
        /\ conn'.alive <=> conn.alive
        /\ conn'.auto <=> conn.auto
        /\ conn'.committing <=> conn.committing
        /\ conn'.ignored <=> conn.ignored
    BY <1>1, <2>1, OnAbort
  <2>3. /\ ~conn.inTrans
        /\ conn.alive => /\ srv.st = "IDLE" /\ Mirrors
                         /\ \A h \in Handles : ~(curs[h].open /\ ~curs[h].perm)
    <3>1. CASE conn.alive
      <4>1. srv.st = "IDLE" BY <1>1, <1>3, <3>1, LiveParts DEF RetInv, Has, Ending, Top, H
      <4>2. ~conn.committing BY <1>1, <1>3, TypesOf DEF StackInv, Has
      <4>3. ~Unsettled /\ Mirrors /\ Matches BY <1>1, <3>1, Settled
      <4> QED BY <3>1, <4>1, <4>2, <4>3, LiveParts DEF Matches, OpenInv
    <3>2. CASE ~conn.alive BY <3>2, TypesOf DEF Gone
    <3> QED BY <3>1, <3>2
  <2>4. todo' = Tail(todo)
    <3>1. OnAbortCalls = << >> BY <2>3 DEF OnAbortCalls, If
    <3> QED BY <1>1, <2>1, <3>1, NoCat DEF Then
  <2>5. curs' \in [Handles -> Cursors] BY <1>1, <2>1 DEF CursAborted, NoCursor, Cursors
  <2>6. BaseInv' /\ All(todo') = {}
    <3>1. Gone' BY <1>1, <2>2, <2>3, TypesOf DEF Gone
    <3> QED BY <1>1, <1>2, <1>3, <2>2, <2>4, <2>5, <3>1, PoppedConn
  <2> SUFFICES ASSUME conn.alive
               PROVE  LiveInv'
    BY <2>2, <2>6 DEF IInv
  <2>7. curs' = curs BY <1>1, <2>1, <2>3 DEF CursAborted
  <2>8. ~conn.err /\ ~conn'.err /\ ~conn'.manual BY <2>2, <2>3, LiveParts DEF StatusInv
  <2>9. PoppedOnly BY <1>1, <1>2, <2>2, <2>4, <2>7 DEF PoppedOnly, Marks, Calls
  <2>10. Mirrors' BY <1>1, <2>2, <2>3, <2>8 DEF Mirrors, Matches
  <2>11. discardp = << >> BY <1>1, <1>3, <2>8, LiveParts DEF DiscInv, Discs
  <2> HIDE DEF Mirrors
  <2> QED BY <1>1, <1>3, <1>4, <2>2, <2>3, <2>4, <2>8, <2>9, <2>10, <2>11, PoppedLive
<1> QED BY <1>1, <1>5, <1>6

\* The implicit transaction becomes a manual one; there is none to commit.
LEMMA FinishExecStep ==
  ASSUME IInv, FinishExec
  PROVE  IInv'
<1> DEFINE new == conn.inTrans /\ "was_in" \notin H.f
<1>1. /\ todo # << >> /\ H.t = "exec_end" /\ BaseInv /\ Sound(todo) /\ todo \in Seq(Tasks)
      /\ conn \in Conns /\ UNCHANGED <<srv, curs, discardp, ret, last>> /\ H \in All(todo)
      /\ conn' = IF new THEN [conn EXCEPT !.manual = TRUE] ELSE conn
      /\ Then(If(conn'.inTrans /\ conn'.auto /\ ~conn'.manual, <<Call("commit"), Return(ret)>>))
  BY TypesOf, StackFacts DEF FinishExec, Top, H
<1>2. [conn EXCEPT !.manual = TRUE] \in Conns BY <1>1, Zenon DEF Conns
<1>3. /\ conn' \in Conns /\ conn'.op = conn.op
      /\ (conn'.alive <=> conn.alive) /\ (conn'.committing <=> conn.committing)
      /\ (conn'.inTrans <=> conn.inTrans) /\ (conn'.manual <=> conn.manual \/ new)
      /\ (conn'.err <=> conn.err) /\ (conn'.svp <=> conn.svp) /\ (conn'.auto <=> conn.auto)
      /\ (conn'.point <=> conn.point) /\ (conn'.ignored <=> conn.ignored)
  <2>1. CASE new BY <1>1, <1>2, <2>1 DEF Conns
  <2>2. CASE ~new BY <1>1, <2>2
  <2> QED BY <2>1, <2>2
<1>4. /\ All(todo) = {H} \cup Rest /\ \A k \in Rest : k.t = "stmt_end"
  BY <1>1, StackFacts DEF Lower, Talk, Clears, Discs
<1>5. conn.alive => ~Unsettled /\ Mirrors /\ Matches /\ conn.op = "none" BY <1>1, Settled, NoOp DEF Top, H
<1>6. conn.inTrans => conn.alive /\ (conn.manual \/ new)
  <2>1. conn.inTrans => conn.alive BY TypesOf DEF Gone
  <2> QED BY <1>4, <1>5, <2>1, LiveParts DEF StatusInv, NewTrans, Matches
<1>7. todo' = Tail(todo)
  <2>1. ~(conn'.inTrans /\ conn'.auto /\ ~conn'.manual) BY <1>3, <1>6
  <2> QED BY <1>1, <2>1, NoCat DEF Then, If
<1> HIDE DEF new
<1>8. BaseInv' /\ All(todo') = Rest
  <2>1. Gone'
    <3>1. srv' = srv BY <1>1
    <3> QED BY <1>3, <3>1, TypesOf DEF Gone
  <2> QED BY <1>1, <1>3, <1>7, <2>1, TypesOf, PoppedConn
<1> SUFFICES ASSUME conn.alive
             PROVE  LiveInv'
  BY <1>3, <1>8 DEF IInv
<1>9. PoppedOnly BY <1>1, <1>3, <1>5, <1>7 DEF PoppedOnly, Marks, Calls
<1>10. Mirrors' BY <1>1, <1>3, <1>5 DEF Mirrors, Matches
<1>11. (conn'.svp \/ conn'.manual => conn'.inTrans)
  <2>1. conn.svp \/ conn.manual => conn.inTrans BY LiveParts DEF StatusInv
  <2> QED BY <1>3, <2>1 DEF new
<1>12. srv.st # "IDLE" => conn'.manual BY <1>3, <1>5, <1>6 DEF Matches
<1>13. discardp # << >> => conn'.err BY <1>1, <1>3, <1>4, LiveParts DEF DiscInv, Discs
<1>14. ~Top("moved")' /\ ~Top("svp_sent")' BY <1>1, <1>4, <1>7, Pop DEF Top, H
<1> HIDE DEF Mirrors
<1> QED BY <1>1, <1>3, <1>4, <1>9, <1>10, <1>11, <1>12, <1>13, <1>14, PoppedLive
--------------------
(* The end of a statement *)
\* Tasks that touch neither cursors nor marked objects and await no query.
Calm == {"stmt_end", "stmt_clean", "stmt_rollback", "abort", "set_auto"}
LEMMA CalmKept ==
  ASSUME IInv, conn.alive, \A k \in All(todo) : k.t \in Calm, \A k \in All(todo') : k.t \in Calm,
         todo # << >> => H \in All(todo), todo' # << >> => H' \in All(todo'),
         UNCHANGED <<srv, curs, discardp>>, Mirrors, conn'.op = "none",
         (conn'.inTrans <=> conn.inTrans) /\ (conn'.manual <=> conn.manual)
           /\ (conn'.err <=> conn.err) /\ (conn'.svp => conn.svp)
           /\ (conn'.committing <=> conn.committing) /\ (conn'.ignored => conn.ignored)
  PROVE  /\ Truthful(todo') /\ StatusInv' /\ TalkInv' /\ PermInv' /\ OpenInv' /\ PortInv'
         /\ CloseInv' /\ OpeningInv' /\ DiscInv' /\ IgnInv' /\ RetInv' /\ ExtInv' /\ ~OnQuery'
<1>1. /\ \A t : Top(t)' => t \in Calm
      /\ \A t : Has(t)' => t \in Calm
      /\ \A t : Top(t) => t \in Calm
      /\ \A t : Has(t) => t \in Calm
  BY DEF Top, H, Has
<1>2. /\ ~Unsettled /\ ~Unsettled' /\ ~Busy /\ ~Busy' /\ ~OnQuery /\ ~OnQuery'
      /\ ~NewTrans /\ ~NewTrans' /\ \A h : ~Closing(h) /\ ~Closing(h)' /\ ~Opening(h)
  BY <1>1 DEF Unsettled, Busy, Chores, Discs, Clears, OnQuery, NewTrans, Closing, Opening, Calm
<1>3. \A c : ~Pending(c)' /\ ~Pending(c) BY <1>1 DEF Pending, Calm
<1>4. ~conn.committing BY <1>1, TypesOf DEF StackInv, Calm
<1>5. StatusInv' BY <1>1, <1>2, <1>4, LiveParts DEF StatusInv, Mirrors, Matches, Calm
<1>6. TalkInv' BY <1>1, TalkNone DEF Calls, Calm
<1>7. PermInv' /\ OpenInv' /\ PortInv' BY <1>2, <1>4, LiveParts DEF PermInv, OpenInv, PortInv, Marked
<1>8. CloseInv' BY <1>1, LiveParts DEF CloseInv, Calm
<1>9. OpeningInv' BY DEF OpeningInv, Calm
<1>10. DiscInv' BY <1>3, LiveParts DEF DiscInv, Calm, Discs
<1>11. IgnInv' BY LiveParts DEF IgnInv, Calm
<1>12. RetInv' /\ ExtInv' BY <1>1 DEF RetInv, ExtInv, Calm
<1>13. Truthful(todo') BY DEF Truthful, Calm, All
<1> QED BY <1>2, <1>5, <1>6, <1>7, <1>8, <1>9, <1>10, <1>11, <1>12, <1>13

\* The task to undo a failed statement, if there is one, and then its end.
LEMMA EndStatementStep ==
  ASSUME IInv, EndStatement
  PROVE  IInv'
<1> DEFINE protect == conn.acc /\ conn.inTrans /\ conn.mode # 0 /\ ret = "error"
           a == IF conn.point /\ conn.svp THEN Call("stmt_rollback") ELSE Call("abort")
           b == Call("stmt_clean")
<1>1. /\ todo # << >> /\ H.t = "stmt_end" /\ BaseInv /\ Sound(todo) /\ todo \in Seq(Tasks)
      /\ conn \in Conns /\ UNCHANGED <<conn, srv, curs, discardp, ret>>
      /\ last' = [last EXCEPT !.failed = (ret = "error")] /\ last \in LastType
      /\ todo' = (If(protect, <<a>>) \o <<b>>) \o Tail(todo)
  BY TypesOf DEF EndStatement, Top, H, Then
<1>2. last' \in LastType /\ last'.op = last.op BY <1>1 DEF LastType
<1>3. /\ Rest = {} /\ All(todo) = {H} /\ H \in All(todo) /\ Tail(todo) = << >>
  <2>1. Rest = {} /\ All(todo) = {H} /\ H \in All(todo) BY <1>1, StackFacts DEF Lower, Talk, Clears, Discs
  <2>2. Tail(todo) = << >> BY <1>1, <2>1, StackFacts
  <2> QED BY <2>1, <2>2
<1>4. /\ a \in Tasks /\ a.t \in {"stmt_rollback", "abort"} /\ b \in Tasks /\ b.t = "stmt_clean"
      /\ a.t = "stmt_rollback" => conn.point /\ conn.svp
  BY CallType DEF TaskNames
<1> HIDE DEF a, b
<1>5. /\ Sound(todo') /\ todo' # << >> /\ H' \in All(todo') /\ b \in All(todo')
      /\ All(todo') \subseteq {a, b}
      /\ H' = IF protect THEN a ELSE b
  <2>1. CASE protect
    <3> DEFINE s == <<a, b>>
    <3>1. todo' = s
      <4>1. (<<a>> \o <<b>>) \o << >> = s
        <5>1. <<a>> \o <<b>> = s
          <6> DEFINE q == <<b>>
          <6>1. s \in Seq(Tasks) /\ q \in Seq(Tasks) /\ Len(q) = 1 /\ Len(s) = 2 /\ s[1] = a
                /\ s[2] = b /\ q[1] = b
            BY <1>4
          <6> HIDE DEF s, q
          <6>2. s = <<a>> \o q BY <1>4, <6>1, Split
          <6> QED BY <6>2 DEF q
        <5>2. s \in Seq(Tasks) BY <1>4
        <5> HIDE DEF s
        <5> QED BY <5>1, <5>2, NoCat
      <4>2. todo' = (<<a>> \o <<b>>) \o << >> BY <1>1, <1>3, <2>1 DEF If
      <4> QED BY <4>1, <4>2
    <3>2. b.t \in Lower(a.t) /\ ~Awaits(a) /\ ~Works(a) /\ a.t # "return"
      BY <1>4 DEF Lower, Talk, Clears, Discs, Awaits, Works
    <3>3. /\ Sound(s) /\ s # << >> /\ Head(s) = a /\ All(s) = {a, b} BY <1>4, <3>2, Stack2
    <3> HIDE DEF s
    <3> QED BY <2>1, <3>1, <3>3 DEF H
  <2>2. CASE ~protect
    <3> DEFINE s == <<b>>
    <3>1. todo' = s
      <4>1. (<< >> \o s) \o << >> = s BY <1>4
      <4> QED BY <1>1, <1>3, <2>2, <4>1 DEF If
    <3>2. /\ Sound(s) /\ s # << >> /\ Head(s) = b /\ All(s) = {b} BY <1>4, Stack1
    <3> HIDE DEF s
    <3> QED BY <2>2, <3>1, <3>2 DEF H
  <2> QED BY <2>1, <2>2
<1> HIDE DEF protect
<1>6. /\ \A k \in All(todo') : k.t \in {"stmt_rollback", "abort", "stmt_clean"} BY <1>4, <1>5
<1>7. BaseInv'
  <2>1. ~conn.committing BY <1>1, <1>3, TypesOf DEF StackInv, Has
  <2>2. StackInv' BY <1>1, <1>5, <1>6, <2>1, StackNew DEF HandleTasks, Under, Clears
  <2>3. TypeOK' /\ Gone' BY <1>1, <1>2, <1>5, TypesOf DEF TypeOK, Sound, LastType, Gone
  <2> QED BY <2>2, <2>3 DEF BaseInv
<1> SUFFICES ASSUME conn.alive
             PROVE  LiveInv'
  BY <1>1, <1>7 DEF IInv
<1>8. Mirrors /\ conn.op = "none" /\ ~OnQuery BY <1>1, Settled, NoOp DEF Top, H
<1>9. /\ Truthful(todo') /\ StatusInv' /\ TalkInv' /\ PermInv' /\ OpenInv' /\ PortInv'
      /\ CloseInv' /\ OpeningInv' /\ DiscInv' /\ IgnInv' /\ RetInv' /\ ExtInv' /\ ~OnQuery'
  <2>1. /\ \A k \in All(todo) : k.t \in Calm
        /\ \A k \in All(todo') : k.t \in Calm
    BY <1>1, <1>3, <1>6 DEF Calm
  <2>2. conn'.op = "none" /\ conn' = conn BY <1>1, <1>8
  <2> QED BY <1>1, <1>3, <1>5, <1>8, <2>1, <2>2, CalmKept
<1>10. Base' = Base BY <1>1, <1>8, <1>9 DEF Base
<1>11. SvpInv'
  <2>1. Has("stmt_clean")' BY <1>4, <1>5 DEF Has
  <2>2. Top("stmt_rollback")' => conn.svp /\ conn.point BY <1>4, <1>5 DEF Top, H
  <2> QED BY <1>1, <1>9, <1>10, <2>1, <2>2, LiveParts DEF SvpInv
<1>12. LevelInv'
  <2>1. ~Top("stmt_clean")' => protect BY <1>4, <1>5 DEF Top, H
  <2>2. protect => ret # "ok" BY DEF protect
  <2>3. ~Top("stmt_clean") BY <1>1 DEF Top, H
  <2> QED BY <1>1, <1>10, <2>1, <2>2, <2>3, LiveParts DEF LevelInv
<1> QED BY <1>9, <1>11, <1>12, LiveFrom

LEMMA CleanStatementStep ==
  ASSUME IInv, CleanStatement
  PROVE  IInv'
<1> DEFINE c == IF ~last.failed /\ conn.acc THEN [conn EXCEPT !.prev = conn.prog, !.prog = TRUE]
                ELSE conn
<1>1. /\ todo # << >> /\ H.t = "stmt_clean" /\ BaseInv /\ Sound(todo) /\ todo \in Seq(Tasks)
      /\ conn \in Conns /\ UNCHANGED <<srv, curs, discardp, ret, last>>
      /\ conn' = StartStmt(c)
  BY TypesOf DEF CleanStatement, Top, H
<1>2. todo' = Tail(todo) BY <1>1, NoCat DEF CleanStatement, Then
<1>3. /\ c \in Conns /\ c.op = conn.op
      /\ (c.alive <=> conn.alive) /\ (c.auto <=> conn.auto) /\ (c.inTrans <=> conn.inTrans)
      /\ (c.manual <=> conn.manual) /\ (c.err <=> conn.err) /\ (c.svp <=> conn.svp)
      /\ (c.committing <=> conn.committing) /\ (c.ignored <=> conn.ignored)
  <2> DEFINE d == [conn EXCEPT !.prev = conn.prog, !.prog = TRUE]
  <2>1. /\ d \in Conns BY <1>1, Zenon DEF Conns
  <2>2. /\ d.op = conn.op
        /\ (d.alive <=> conn.alive) /\ (d.auto <=> conn.auto) /\ (d.inTrans <=> conn.inTrans)
        /\ (d.manual <=> conn.manual) /\ (d.err <=> conn.err) /\ (d.svp <=> conn.svp)
        /\ (d.committing <=> conn.committing) /\ (d.ignored <=> conn.ignored)
    BY <1>1 DEF Conns
  <2>3. c = d \/ c = conn OBVIOUS
  <2> HIDE DEF d, c
  <2> QED BY <1>1, <2>1, <2>2, <2>3
<1> HIDE DEF c
<1>4. /\ conn' \in Conns /\ ~conn'.point /\ conn'.op = conn.op
      /\ (conn'.alive <=> conn.alive) /\ (conn'.auto <=> conn.auto)
      /\ (conn'.inTrans <=> conn.inTrans) /\ (conn'.manual <=> conn.manual)
      /\ (conn'.err <=> conn.err) /\ (conn'.svp <=> conn.svp)
      /\ (conn'.committing <=> conn.committing) /\ (conn'.ignored <=> conn.ignored)
  BY <1>1, <1>3, StartStmtConn
<1>5. Rest = {} /\ All(todo) = {H} BY <1>1, StackFacts DEF Lower, Talk, Clears, Discs
<1>6. BaseInv' /\ All(todo') = {}
  <2>1. Gone' BY <1>1, <1>4, TypesOf DEF Gone
  <2> QED BY <1>1, <1>2, <1>4, <1>5, <2>1, TypesOf, PoppedConn
<1> SUFFICES ASSUME conn.alive
             PROVE  LiveInv'
  BY <1>4, <1>6 DEF IInv
<1>7. Mirrors /\ conn.op = "none" /\ ~OnQuery BY <1>1, Settled, NoOp DEF Top, H
<1>8. todo' = << >> BY <1>1, <1>2, <1>5, StackFacts
<1>9. /\ Truthful(todo') /\ StatusInv' /\ TalkInv' /\ PermInv' /\ OpenInv' /\ PortInv'
      /\ CloseInv' /\ OpeningInv' /\ DiscInv' /\ IgnInv' /\ RetInv' /\ ExtInv' /\ ~OnQuery'
  <2>1. /\ \A k \in All(todo) : k.t \in Calm
        /\ \A k \in All(todo') : k.t \in Calm
        /\ H \in All(todo)
    BY <1>1, <1>5, <1>6 DEF Calm
  <2> QED BY <1>1, <1>4, <1>7, <1>8, <2>1, CalmKept
<1>10. Base' = Base BY <1>1, <1>7, <1>9 DEF Base
<1>11. SvpInv' BY <1>1, <1>4, <1>8, <1>9, <1>10, LiveParts DEF SvpInv, Top
<1>12. LevelInv' BY <1>1, <1>4, <1>10, LiveParts DEF LevelInv
<1> QED BY <1>9, <1>11, <1>12, LiveFrom

\* ROLLBACK TO the internal savepoint: every cursor of an earlier statement stays.
LEMMA StatementRollbackStep ==
  ASSUME IInv, StatementRollback
  PROVE  IInv'
<1>1. /\ todo # << >> /\ H.t = "stmt_rollback" /\ BaseInv /\ Sound(todo) /\ todo \in Seq(Tasks)
      /\ conn \in Conns /\ srv \in Servers /\ UNCHANGED <<curs, discardp, ret, last>>
      /\ H \in All(todo) /\ last \in LastType /\ ret \in {"ok", "error"}
  BY TypesOf, StackFacts DEF StatementRollback, Top, H
<1>2. /\ All(todo) = {H} \cup Rest /\ \A k \in Rest : k.t = "stmt_clean"
      /\ Tail(todo) # << >> => Answers(Head(Tail(todo)))
  <2>1. /\ All(todo) = {H} \cup Rest /\ \A k \in Rest : k.t = "stmt_clean"
        /\ Tail(todo) # << >> => Head(Tail(todo)) \in Rest
    BY <1>1, StackFacts DEF Lower, Talk, Clears, Discs
  <2> QED BY <2>1 DEF Answers
<1>3. CASE ~conn.err
  <2>1. todo' = Tail(todo) /\ srv' = srv /\ conn' = conn BY <1>1, <1>3, NoCat DEF StatementRollback, Then
  <2>2. ~Top("moved")' /\ ~Top("svp_sent")' BY <1>1, <1>2, <2>1, Pop DEF Top, H
  <2> QED BY <1>1, <2>1, <2>2, PoppedSame DEF Marks, Calls, LastType
<1>4. CASE conn.err
  <2> PICK n : n = Len(srv.svps) OBVIOUS
  <2>1. conn.alive BY <1>4, TypesOf DEF Gone
  <2>2. /\ Mirrors /\ srv.st = "INERROR" /\ conn.inTrans /\ ~OnQuery /\ conn.op = "none"
        /\ \A c : ~Pending(c)
    BY <1>1, <1>4, <2>1, Settled, NoOp DEF Top, H, Mirrors, Matches
  <2>3. /\ conn.svp /\ conn.point /\ n > 0 /\ srv.svps[n].name = "exec" /\ n \in Nat
        /\ Base = n
    BY <1>1, <2>1, <2>2, LiveParts, ServerFields DEF SvpInv, Base, Top, H
  <2> DEFINE c == SvpCmd("rollback_to", "exec")
  <2>4. c \in Cmds /\ c.op = "rollback_to" /\ c.svp = "exec" BY SvpCmdType DEF CmdNames, Kinds, Svps
  <2>5. PICK r \in Replies(srv, c) :
          /\ srv' = r.srv
          /\ conn' = [conn EXCEPT !.ignored = conn.ignored /\ r.tag # "ERROR"]
          /\ Then(<<Call("update")>>)
    BY <1>4, <2>3 DEF StatementRollback
  <2>6. n \in Indices(srv, "exec") /\ \A j \in Indices(srv, "exec") : j <= n BY <2>3 DEF Indices
  <2>7. r.srv = RolledBackTo(srv, n) /\ r.tag # "ERROR"
    <3>1. Latest(srv, "exec") = n BY <1>1, <2>6, LatestTop
    <3> HIDE DEF c
    <3>2. \/ srv.st = "IDLE" \/ Indices(srv, c.svp) = {}
          \/ Says(r, "ROLLBACK", FALSE) /\ r.srv = RolledBackTo(srv, Latest(srv, c.svp))
      BY <1>1, <2>4, RollbackToReply
    <3> QED BY <2>2, <2>4, <2>6, <3>1, <3>2 DEF Says
  <2>8. conn' = conn
    <3>1. conn' = [conn EXCEPT !.ignored = conn.ignored]
      <4>1. (conn.ignored /\ r.tag # "ERROR") = conn.ignored BY <1>1, <2>7 DEF Conns
      <4> QED BY <2>5, <4>1
    <3> QED BY <1>1, <3>1 DEF Conns
  <2>9. /\ srv' \in Servers /\ srv'.st = "INTRANS"
        /\ Len(srv'.svps) = n /\ \A j \in 1..n : srv'.svps[j] = srv.svps[j]
        /\ \A h \in Handles :
             srv'.port[h] = IF srv.port[h].st = "trans" /\ srv.port[h].lvl >= n THEN NoPort
                            ELSE srv.port[h]
    <3>1. n \in 1..Len(srv.svps) BY <2>3
    <3> QED BY <1>1, <2>5, <2>7, <3>1, RolledBack
  <2> DEFINE e == Call("update")
  <2>10. e \in Tasks /\ e.t = "update" BY CallType DEF TaskNames
  <2>11. todo' = <<e>> \o Tail(todo) BY <2>5 DEF Then
  <2> HIDE DEF e
  <2>12. /\ Sound(todo') /\ todo' # << >> /\ H' = e /\ Rest' = Rest /\ All(todo') = {e} \cup Rest
         /\ Truthful(todo')
    <3>1. \A k \in Rest : k.t \in Lower(e.t) BY <1>2, <2>10 DEF Lower, Talk, Ends
    <3>2. ~Works(e) /\ (Tail(todo) # << >> => Answers(Head(Tail(todo)))) BY <1>2, <2>10 DEF Works
    <3>3. Truthful(todo) BY <2>1, LiveParts
    <3> QED BY <1>1, <2>10, <2>11, <3>1, <3>2, <3>3, Replace
  <2>13. \A k \in All(todo') : k.t \in {"update", "stmt_clean"} BY <1>2, <2>10, <2>12
  <2>14. ~conn.committing BY <1>1, <1>2, TypesOf DEF StackInv, Has
  <2>15. BaseInv'
    <3>1. StackInv' BY <2>8, <2>12, <2>13, <2>14, StackNew DEF HandleTasks, Under, Clears
    <3>2. TypeOK' /\ Gone' BY <1>1, <2>1, <2>8, <2>9, <2>12, TypesOf DEF TypeOK, Sound, LastType, Gone
    <3> QED BY <3>1, <3>2 DEF BaseInv
  <2>16. /\ \A t : Top(t)' => t = "update"
         /\ \A t : Has(t)' => t \in {"update", "stmt_clean"}
    BY <2>10, <2>12, <2>13 DEF Top, H, Has
  <2>17. Unsettled' /\ ~OnQuery' /\ ~Busy' /\ Base' = n
    BY <2>9, <2>10, <2>12, <2>13, <2>16 DEF Unsettled, OnQuery, Busy, Chores, Discs, Clears, Base, Top, H
  <2>18. StatusInv'
    <3>1. conn.manual BY <1>1, <1>2, <2>1, <2>2, LiveParts DEF StatusInv, NewTrans
    <3> QED BY <2>2, <2>8, <2>14, <2>16, <2>17, <3>1 DEF StatusInv
  <2>19. TalkInv' BY <2>2, <2>8, <2>16, TalkNone DEF Calls
  <2>20. SvpInv'
    <3>1. In("stmt_clean") BY <1>1, <1>2, <2>1, <2>3, LiveParts DEF SvpInv, Has, In
    <3>2. Has("stmt_clean")' BY <2>12, <3>1 DEF Has, In
    <3> QED BY <2>3, <2>8, <2>9, <2>16, <2>17, <3>2 DEF SvpInv
  <2>21. \A h \in Handles :
           /\ srv'.port[h].st = "none" \/ srv'.port[h] = srv.port[h]
           /\ curs[h].open /\ ~curs[h].perm => srv'.port[h] = srv.port[h]
           /\ srv.port[h].st # "trans" => srv'.port[h] = srv.port[h]
    <3> SUFFICES ASSUME NEW h \in Handles
                 PROVE  /\ srv'.port[h].st = "none" \/ srv'.port[h] = srv.port[h]
                        /\ curs[h].open /\ ~curs[h].perm => srv'.port[h] = srv.port[h]
                        /\ srv.port[h].st # "trans" => srv'.port[h] = srv.port[h]
      OBVIOUS
    <3>1. srv.port[h].lvl \in Nat BY <1>1, ServerFields, PortFields
    <3>2. srv.port[h].st = "trans" /\ curs[h].open /\ ~curs[h].perm => srv.port[h].lvl < n
      BY <1>1, <2>1, <2>3, LiveParts DEF LevelInv, Top, H
    <3>3. srv'.port[h] = IF srv.port[h].st = "trans" /\ srv.port[h].lvl >= n THEN NoPort
                         ELSE srv.port[h]
      BY <2>9
    <3>4. ~(srv.port[h].st = "trans" /\ srv.port[h].lvl >= n)
          \/ ~(curs[h].open /\ ~curs[h].perm)
      BY <2>3, <3>1, <3>2
    <3> QED BY <3>3, <3>4, NoPortType
  <2>22. \A x : Indices(srv', x) = Indices(srv, x) BY <2>3, <2>9 DEF Indices
  <2>23. LevelInv'
    <3> SUFFICES ASSUME NEW h \in Handles, srv'.port[h].st = "trans"
                 PROVE  /\ srv.port[h].lvl <= n
                        /\ srv.port[h].hold => \A i \in Indices(srv, "user") : srv.port[h].lvl < i
                        /\ curs[h].open /\ ~curs[h].perm => srv.port[h].lvl < n
                        /\ srv'.port[h] = srv.port[h]
      BY <1>1, <2>8, <2>9, <2>17, <2>22 DEF LevelInv
    <3>1. srv'.port[h] = srv.port[h] BY <2>21
    <3> QED BY <1>1, <2>1, <2>3, <3>1, LiveParts DEF LevelInv, Top, H
  <2>24. \A h : ~Closing(h) /\ ~Closing(h)' /\ ~Opening(h) BY <1>1, <1>2, <2>13 DEF Closing, Opening
  <2>25. PermInv' /\ OpenInv' /\ PortInv'
    <3>1. PermInv'
      <4> SUFFICES ASSUME NEW h \in Handles, curs[h].open, curs[h].perm
                   PROVE  curs[h].hold /\ srv'.port[h].st = "held"
        BY <1>1 DEF PermInv
      <4>1. curs[h].hold /\ srv.port[h].st = "held" BY <2>1, <2>24, LiveParts DEF PermInv
      <4> QED BY <2>21, <4>1
    <3>2. OpenInv' BY <1>1, <2>1, <2>2, <2>9, <2>21, <2>24, LiveParts DEF OpenInv
    <3>3. PortInv'
      <4> SUFFICES ASSUME NEW h \in Handles, srv'.port[h].st # "none", ~curs[h].open
                   PROVE  \/ srv.port[h].st = "trans" /\ ~srv.port[h].hold
                          \/ srv.port[h].st = "held" /\ Marked(h)
        BY <1>1, <2>21 DEF PortInv, Marked
      <4>1. srv.port[h].st # "none" BY <2>21
      <4> QED BY <2>1, <2>24, <4>1, LiveParts DEF PortInv
    <3> QED BY <3>1, <3>2, <3>3
  <2>26. CloseInv' /\ OpeningInv' /\ IgnInv'
    <3>1. conn.ignored => \A h \in Handles : ~(curs[h].open /\ curs[h].hold) BY <2>1, LiveParts DEF IgnInv
    <3> QED BY <1>1, <2>8, <2>13, <2>16, <3>1 DEF CloseInv, OpeningInv, IgnInv
  <2>27. DiscInv'
    <3>1. \A j \in 1..Len(discardp) : discardp[j].type = "p" =>
             /\ discardp[j].h \in Handles /\ srv.port[discardp[j].h].st = "held"
             /\ ~curs[discardp[j].h].open
             /\ \A i \in 1..Len(discardp) :
                    i # j /\ discardp[i].type = "p" => discardp[i].h # discardp[j].h
      BY <1>1, <1>2, <2>1, LiveParts DEF DiscInv
    <3>2. \A j \in 1..Len(discardp) : discardp[j].type = "p" => srv'.port[discardp[j].h].st = "held"
      BY <2>21, <3>1
    <3> QED BY <1>1, <1>4, <2>8, <2>13, <3>1, <3>2 DEF DiscInv
  <2>28. RetInv' /\ ExtInv' BY <2>13, <2>16 DEF RetInv, ExtInv
  <2>29. LiveInv' BY <2>12, <2>18, <2>19, <2>20, <2>23, <2>25, <2>26, <2>27, <2>28, LiveFrom
  <2> QED BY <2>15, <2>29 DEF IInv
<1> QED BY <1>3, <1>4
--------------------
(* Closing a cursor *)
\* The cursor of the top task is no more.
CursorGone(h) ==
  /\ todo # << >> /\ H.t \in {"close", "closed"} /\ h = H.h /\ h \in Handles
  /\ todo' = Tail(todo) /\ UNCHANGED <<conn, srv, ret, last>>
  /\ curs' = [curs EXCEPT ![h] = NoCursor]
LEMMA GoneBase ==
  ASSUME IInv, NEW h, CursorGone(h),
         discardp' \in Seq([type : {"s", "p"}, h : Handles \cup {NoHandle}])
  PROVE  BaseInv'
<1>1. StackInv /\ Sound(todo) /\ Sound(todo') /\ curs \in [Handles -> Cursors]
  BY TypesOf, Pop DEF CursorGone
<1>2. StackInv' BY <1>1, StackPopped DEF CursorGone
<1>3. curs' \in [Handles -> Cursors] BY <1>1, CursorType DEF CursorGone, NoCursor, Cursors
<1> QED BY <1>1, <1>2, <1>3, TypesOf DEF BaseInv, TypeOK, Gone, Sound, CursorGone

LEMMA GoneKept ==
  ASSUME IInv, conn.alive, NEW h, CursorGone(h)
  PROVE  /\ Truthful(todo') /\ StatusInv' /\ TalkInv' /\ SvpInv' /\ LevelInv' /\ OpeningInv'
         /\ PermInv' /\ OpenInv' /\ CloseInv' /\ IgnInv' /\ RetInv' /\ ExtInv'
         /\ All(todo') = Rest
<1>1. /\ todo # << >> /\ H.t \in {"close", "closed"} /\ H.t \in Finishing
      /\ todo' = Tail(todo) /\ UNCHANGED <<conn, srv, ret, last>>
      /\ curs' = [curs EXCEPT ![h] = NoCursor]
      /\ h = H.h /\ h \in Handles /\ curs \in [Handles -> Cursors]
  BY TypesOf DEF CursorGone, Finishing
<1>2. /\ Sound(todo) /\ All(todo) = {H} \cup Rest /\ H \in All(todo)
      /\ \A k \in Rest : k.t \in {"close_eof", "commit_send", "transact_end", "set_auto"}
      /\ ~Busy /\ ~conn.committing
  BY <1>1, UnderFinishing
<1>3. /\ ~Unsettled /\ Mirrors /\ Matches /\ ~OnQuery /\ \A c : ~Pending(c)
      /\ conn.op = "none" /\ ~conn.point
      /\ srv.st # "IDLE" => conn.manual
      /\ srv.st = "IDLE" => \A g \in Handles : ~(curs[g].open /\ ~curs[g].perm)
      /\ \A g : ~Opening(g)
  BY <1>1, FinishingFacts
<1>4. /\ Sound(todo') /\ All(todo') = Rest
      /\ todo' # << >> => H' \in Rest
      /\ Truthful(todo')
  BY <1>1, <1>2, Pop, LiveParts
<1>5. /\ \A t : Top(t)' => t \in {"close_eof", "commit_send", "transact_end", "set_auto"}
      /\ \A t : Has(t)' => t \in {"close_eof", "commit_send", "transact_end", "set_auto"}
  BY <1>2, <1>4 DEF Top, H, Has
<1>6. ~Busy' /\ ~Unsettled' /\ ~OnQuery' /\ Base' = Base /\ \A g : ~Closing(g)'
  BY <1>1, <1>2, <1>3, <1>4, <1>5 DEF Busy, Chores, Discs, Clears, Unsettled, OnQuery, Base, Closing
<1>7. StatusInv' BY <1>1, <1>2, <1>3, <1>5, <1>6, LiveParts DEF StatusInv, Mirrors, Matches
<1>8. TalkInv' BY <1>1, <1>3, <1>5, TalkNone DEF Calls
<1>9. SvpInv' BY <1>1, <1>3, <1>5, <1>6, LiveParts DEF SvpInv
<1>10. \A g \in Handles : curs'[g].open => curs'[g] = curs[g] /\ g # h BY <1>1, CursorType
<1>11. LevelInv' BY <1>1, <1>3, <1>6, LiveParts DEF LevelInv
<1>12. OpeningInv' BY <1>2, <1>4 DEF OpeningInv
<1>13. \A g \in Handles : g # h => ~Closing(g) BY <1>1, <1>2 DEF Closing
<1>14. PermInv' /\ OpenInv'
  <2>1. PermInv' BY <1>1, <1>10, <1>13, LiveParts DEF PermInv
  <2>2. OpenInv'
    <3> SUFFICES ASSUME NEW g \in Handles, curs'[g].open, ~curs'[g].perm
                 PROVE  /\ srv.st # "IDLE"
                        /\ \/ srv.port[g].st = "trans" /\ (srv.port[g].hold <=> curs'[g].hold)
                           \/ srv.port[g].st = "none" /\ curs'[g].doubt /\ ~curs'[g].hold
      BY <1>1 DEF OpenInv
    <3>1. curs'[g] = curs[g] /\ ~Closing(g) BY <1>10, <1>13
    <3> QED BY <1>3, <3>1, LiveParts DEF OpenInv
  <2> QED BY <2>1, <2>2
<1>15. CloseInv'
  <2>1. Has("close_eof")' => Has("close_eof") BY <1>2, <1>4 DEF Has
  <2> QED BY <1>1, <1>2, <1>4, <1>5, <2>1, LiveParts DEF CloseInv, InUse
<1>16. IgnInv'
  <2>1. conn.ignored => \A g \in Handles : ~(curs'[g].open /\ curs'[g].hold)
    BY <1>10, LiveParts DEF IgnInv
  <2> QED BY <1>1, <1>2, <1>4, <2>1 DEF IgnInv
<1>17. RetInv' /\ ExtInv'
  <2>1. Has("transact_end")' /\ ~Ending' => srv.st = "IDLE"
    <3> SUFFICES ASSUME Has("transact_end")', ~Has("commit_send")'
                 PROVE  srv.st = "IDLE"
      BY DEF Ending
    <3>1. Has("transact_end") /\ ~Has("commit_send") BY <1>1, <1>2, <1>4 DEF Has
    <3> QED BY <1>1, <3>1, LiveParts DEF RetInv, Ending, Top, H
  <2> QED BY <1>1, <1>2, <1>4, <1>5, <2>1 DEF RetInv, ExtInv
<1> QED BY <1>4, <1>7, <1>8, <1>9, <1>11, <1>12, <1>14, <1>15, <1>16, <1>17

LEMMA ClosedStep ==
  ASSUME IInv, Closed
  PROVE  IInv'
<1> PICK h : h = H.h OBVIOUS
<1>1. /\ todo # << >> /\ H.t = "closed" /\ StackInv /\ Sound(todo) /\ todo \in Seq(Tasks)
      /\ UNCHANGED <<conn, srv, discardp, ret, last>> /\ H \in All(todo)
      /\ curs \in [Handles -> Cursors] /\ curs' = [curs EXCEPT ![h] = NoCursor]
  BY TypesOf, StackFacts DEF Closed, Top, H
<1>2. todo' = Tail(todo) BY <1>1, NoCat DEF Closed, Then
<1>3. h \in Handles BY <1>1 DEF StackInv, HandleTasks
<1>4. CursorGone(h) BY <1>1, <1>2, <1>3 DEF CursorGone
<1>5. BaseInv' BY <1>1, <1>4, TypesOf, GoneBase
<1> SUFFICES ASSUME conn.alive
             PROVE  LiveInv'
  BY <1>1, <1>5 DEF IInv
<1>6. /\ Truthful(todo') /\ StatusInv' /\ TalkInv' /\ SvpInv' /\ LevelInv' /\ OpeningInv'
      /\ PermInv' /\ OpenInv' /\ CloseInv' /\ IgnInv' /\ RetInv' /\ ExtInv'
      /\ All(todo') = Rest
  BY <1>4, GoneKept
<1>7. /\ \A c : ~Pending(c) /\ \A g : ~Opening(g)
      /\ \A k \in All(todo) : k.t \notin Discs
  <2>1. H.t \in Finishing BY <1>1 DEF Finishing
  <2>2. All(todo) = {H} \cup Rest
        /\ \A k \in Rest : k.t \in {"close_eof", "commit_send", "transact_end", "set_auto"}
    BY <1>1, <2>1, UnderFinishing
  <2> QED BY <1>1, <2>1, <2>2, FinishingFacts DEF Discs
<1>8. srv.port[h].st = "none" /\ curs[h].open BY <1>1, <1>7, LiveParts DEF CloseInv
<1>9. PortInv' BY <1>1, <1>3, <1>7, <1>8, LiveParts DEF PortInv, Marked
<1>10. DiscInv'
  <2>1. \A j \in 1..Len(discardp) : discardp[j].type = "p" =>
           /\ discardp[j].h \in Handles /\ srv.port[discardp[j].h].st = "held"
           /\ ~curs[discardp[j].h].open
           /\ \A i \in 1..Len(discardp) :
                  i # j /\ discardp[i].type = "p" => discardp[i].h # discardp[j].h
    BY <1>7, LiveParts DEF DiscInv, Discs
  <2>2. \A g \in Handles : ~curs[g].open => ~curs'[g].open BY <1>1, <1>3, <1>8
  <2>3. \A k \in All(todo') : k.t \notin Discs BY <1>6, <1>7, StackFacts, <1>1
  <2>4. discardp # << >> => conn.err BY <1>7, LiveParts DEF DiscInv
  <2> QED BY <1>1, <2>1, <2>2, <2>3, <2>4 DEF DiscInv, Discs
<1> QED BY <1>6, <1>9, <1>10, LiveFrom
\* An entry at the end of a list.
LEMMA Appended ==
  ASSUME NEW D, NEW r \in Seq(D), NEW o \in D
  PROVE  /\ r \o <<o>> \in Seq(D) /\ Len(r \o <<o>>) = Len(r) + 1
         /\ (r \o <<o>>)[Len(r) + 1] = o
         /\ \A j \in 1..Len(r) : (r \o <<o>>)[j] = r[j]
<1>1. (r \o <<o>>)[Len(r) + 1] = o OBVIOUS
<1>2. r \o <<o>> \in Seq(D) /\ Len(r \o <<o>>) = Len(r) + 1 OBVIOUS
<1>3. \A j \in 1..Len(r) : (r \o <<o>>)[j] = r[j] OBVIOUS
<1> QED BY <1>1, <1>2, <1>3

\* QR_close: nothing to do, a marked or forgotten cursor, or a CLOSE to send.
LEMMA CloseResultStep ==
  ASSUME IInv, CloseResult
  PROVE  IInv'
<1> PICK h : h = H.h OBVIOUS
<1> DEFINE c == CloseIt(h)
           q == <<c>>
           fl == {"read_only"} \cup
                 (IF curs[h].doubt THEN {"rollback_on_error", "ignore_abort"} ELSE {})
           e == Send(q, fl)
           f == CallH("closed", h)
           N == {e, f}
           end == conn.inTrans /\ conn.auto /\ ~conn.manual /\ Cardinality(OpenCursors) <= 1
<1>1. /\ todo # << >> /\ H.t = "close" /\ H.t \in Finishing /\ BaseInv /\ StackInv /\ Sound(todo)
      /\ todo \in Seq(Tasks) /\ UNCHANGED <<conn, srv, ret, last>> /\ curs \in [Handles -> Cursors]
      /\ H \in Tasks /\ H \in All(todo) /\ last \in LastType /\ ret \in {"ok", "error"}
  BY TypesOf, StackFacts DEF CloseResult, Top, H, Finishing
<1>2. h \in Handles /\ curs[h] \in Cursors BY <1>1 DEF StackInv, HandleTasks
<1>3. /\ All(todo) = {H} \cup Rest
      /\ \A k \in Rest : /\ k.t \in {"close_eof", "commit_send", "transact_end", "set_auto"}
                         /\ k.t \in Lower("send") /\ k.t \in Lower("close")
      /\ ~Busy /\ ~conn.committing
  BY <1>1, UnderFinishing
<1>4. conn.alive => /\ ~Unsettled /\ Mirrors /\ Matches /\ ~OnQuery /\ \A d : ~Pending(d)
                    /\ conn.op = "none" /\ ~conn.point
                    /\ srv.st # "IDLE" => conn.manual
                    /\ srv.st = "IDLE" => \A g \in Handles : ~(curs[g].open /\ ~curs[g].perm)
                    /\ \A g : ~Opening(g)
  BY <1>1, FinishingFacts
<1>5. ~end
  <2>1. CASE conn.alive BY <1>4, <2>1 DEF Matches
  <2>2. CASE ~conn.alive BY <2>2, TypesOf DEF Gone
  <2> QED BY <2>1, <2>2
<1>6. \/ ~curs[h].open /\ Then(<< >>) /\ UNCHANGED <<curs, discardp>>
      \/ /\ curs[h].open /\ conn.err /\ Then(<< >>)
         /\ discardp' = discardp \o MarkToDiscard(curs[h], h)
         /\ curs' = [curs EXCEPT ![h] = NoCursor]
      \/ /\ curs[h].open /\ ~conn.err /\ UNCHANGED <<curs, discardp>>
         /\ Then(<<Send(q \o << >>, fl \cup {}), f>> \o << >>)
  <2>1. LET k == curs[h]
            flags == {"read_only"} \cup
                     (IF k.doubt THEN {"rollback_on_error", "ignore_abort"} ELSE {}) \cup
                     (IF end /\ ~k.doubt THEN {"end_with_commit"} ELSE {})
        IN  CASE ~k.open -> Then(<< >>) /\ UNCHANGED <<curs, discardp>>
              [] k.open /\ conn.err ->
                  /\ discardp' = discardp \o MarkToDiscard(k, h)
                  /\ curs' = [curs EXCEPT ![h] = NoCursor]
                  /\ Then(<< >>)
              [] k.open /\ ~conn.err ->
                  /\ Then(<<Send(q \o If(end /\ ~k.doubt, <<Cmd("commit")>>), flags), f>>
                          \o If(end /\ k.doubt, <<Call("commit")>>))
                  /\ curs' = IF end /\ ~k.doubt THEN [curs EXCEPT ![h] = NoCursor] ELSE curs
                  /\ UNCHANGED discardp
    BY DEF CloseResult, H, CloseIt
  <2> HIDE DEF end, q, f
  <2>2. If(end /\ ~curs[h].doubt, <<Cmd("commit")>>) = << >>
        /\ If(end /\ curs[h].doubt, <<Call("commit")>>) = << >>
        /\ (IF end /\ ~curs[h].doubt THEN {"end_with_commit"} ELSE {}) = {}
        /\ (IF end /\ ~curs[h].doubt THEN [curs EXCEPT ![h] = NoCursor] ELSE curs) = curs
    BY <1>5 DEF If
  <2>3. CASE ~curs[h].open BY <2>1, <2>3
  <2>4. CASE curs[h].open /\ conn.err BY <2>1, <2>4
  <2>5. CASE curs[h].open /\ ~conn.err BY <2>1, <2>2, <2>5
  <2> QED BY <2>3, <2>4, <2>5
<1>7. CASE ~curs[h].open
  <2>1. todo' = Tail(todo) /\ UNCHANGED <<curs, discardp>> BY <1>1, <1>6, <1>7, NoCat DEF Then
  <2>2. ~Top("moved")' /\ ~Top("svp_sent")' BY <1>1, <1>3, <2>1, Pop DEF Top, H
  <2> QED BY <1>1, <2>1, <2>2, PoppedSame DEF Marks, Calls, LastType
<1>8. CASE curs[h].open /\ conn.err
  <2> DEFINE D == [type : {"s", "p"}, h : Handles \cup {NoHandle}]
             o == [type |-> "p", h |-> h]
             n == Len(discardp)
  <2>1. /\ todo' = Tail(todo) /\ curs' = [curs EXCEPT ![h] = NoCursor]
        /\ discardp' = discardp \o (IF curs[h].hold THEN <<o>> ELSE << >>)
    BY <1>1, <1>6, <1>8, NoCat DEF Then, MarkToDiscard, If
  <2>2. o \in D /\ o.type = "p" /\ o.h = h /\ discardp \in Seq(D) /\ n \in Nat BY <1>2, TypesOf
  <2> HIDE DEF o
  <2>3. IF curs[h].hold
        THEN /\ discardp' \in Seq(D) /\ Len(discardp') = n + 1 /\ discardp'[n + 1] = o
             /\ \A j \in 1..n : discardp'[j] = discardp[j]
        ELSE discardp' = discardp
    <3>2. /\ discardp \o <<o>> \in Seq(D) /\ Len(discardp \o <<o>>) = n + 1
          /\ (discardp \o <<o>>)[n + 1] = o
          /\ \A j \in 1..n : (discardp \o <<o>>)[j] = discardp[j]
      <4> HIDE DEF D
      <4> QED BY <2>2, Appended
    <3>3. discardp \o << >> = discardp BY <2>2, NoCat
    <3> QED BY <2>1, <3>2, <3>3
  <2>4. CursorGone(h) BY <1>1, <1>2, <2>1 DEF CursorGone
  <2>5. BaseInv' BY <2>2, <2>3, <2>4, GoneBase
  <2> SUFFICES ASSUME conn.alive
               PROVE  LiveInv'
    BY <1>1, <2>5 DEF IInv
  <2>6. /\ Truthful(todo') /\ StatusInv' /\ TalkInv' /\ SvpInv' /\ LevelInv' /\ OpeningInv'
        /\ PermInv' /\ OpenInv' /\ CloseInv' /\ IgnInv' /\ RetInv' /\ ExtInv'
        /\ All(todo') = Rest
    BY <2>4, GoneKept
  <2>7. srv.st = "INERROR" BY <1>4, <1>8 DEF Mirrors
  <2>8. ~Closing(h) BY <1>1, <1>3 DEF Closing
  <2>9. curs[h].hold => srv.port[h].st = "held"
    <3>1. curs[h].hold => curs[h].perm BY <1>1, <1>8, LiveParts DEF CloseInv, Top, H
    <3> QED BY <1>2, <1>8, <2>8, <3>1, LiveParts DEF PermInv
  <2>10. ~curs[h].hold => srv.port[h].st # "held" /\ (srv.port[h].st = "trans" => ~srv.port[h].hold)
    <3>1. ~curs[h].hold => ~curs[h].perm BY <1>2, <1>8, LiveParts DEF PermInv
    <3> QED BY <1>2, <1>8, <2>7, <3>1, LiveParts DEF OpenInv
  <2>11. \A g : Marked(g) => Marked(g)'
    <3> SUFFICES ASSUME NEW g, NEW j \in 1..n, discardp[j].type = "p", discardp[j].h = g
                 PROVE  Marked(g)'
      BY DEF Marked
    <3>1. j \in 1..Len(discardp') /\ discardp'[j] = discardp[j] BY <2>2, <2>3
    <3> QED BY <3>1 DEF Marked
  <2>12. curs[h].hold => Marked(h)'
    <3>1. curs[h].hold => n + 1 \in 1..Len(discardp') BY <2>2, <2>3
    <3> QED BY <2>2, <2>3, <3>1 DEF Marked
  <2>13. PortInv'
    <3> SUFFICES ASSUME NEW g \in Handles, srv.port[g].st # "none", ~curs'[g].open
                 PROVE  \/ srv.port[g].st = "trans" /\ ~srv.port[g].hold
                        \/ srv.port[g].st = "held" /\ Marked(g)'
      BY <1>1 DEF PortInv
    <3>1. CASE g = h
      <4>1. srv.port[h].st \in PortNames BY <1>2, TypesOf, ServerFields, PortFields
      <4> QED BY <2>9, <2>10, <2>12, <3>1, <4>1 DEF PortNames
    <3>2. CASE g # h
      <4>1. ~curs[g].open BY <1>1, <2>1, <3>2
      <4> QED BY <1>4, <2>11, <4>1, LiveParts DEF PortInv
    <3> QED BY <3>1, <3>2
  <2>14. \A k \in All(todo) : k.t \notin Discs BY <1>1, <1>3 DEF Discs
  <2>15. DiscInv'
    <3>1. \A j \in 1..n : discardp[j].type = "p" =>
             /\ discardp[j].h \in Handles /\ srv.port[discardp[j].h].st = "held"
             /\ ~curs[discardp[j].h].open /\ discardp[j].h # h
             /\ \A i \in 1..n :
                    i # j /\ discardp[i].type = "p" => discardp[i].h # discardp[j].h
      BY <1>8, <2>14, LiveParts DEF DiscInv, Discs
    <3>2. \A g \in Handles : ~curs[g].open \/ g = h => ~curs'[g].open BY <1>1, <1>2, <2>1, CursorType
    <3>3. \A k \in All(todo') : k.t \notin Discs BY <1>3, <2>6, <2>14
    <3>4. \A j \in 1..Len(discardp') :
             \/ j \in 1..n /\ discardp'[j] = discardp[j]
             \/ j = n + 1 /\ discardp'[j] = o /\ srv.port[h].st = "held"
      BY <2>2, <2>3, <2>9
    <3> SUFFICES ASSUME NEW j \in 1..Len(discardp'), discardp'[j].type = "p"
                 PROVE  /\ discardp'[j].h \in Handles /\ srv.port[discardp'[j].h].st = "held"
                        /\ ~curs'[discardp'[j].h].open
                        /\ \A i \in 1..Len(discardp') :
                             i # j /\ discardp'[i].type = "p" => discardp'[i].h # discardp'[j].h
      BY <1>1, <1>8, <3>3 DEF DiscInv, Discs
    <3>5. /\ discardp'[j].h \in Handles /\ srv.port[discardp'[j].h].st = "held"
          /\ ~curs'[discardp'[j].h].open
      <4>1. CASE j \in 1..n /\ discardp'[j] = discardp[j] BY <3>1, <3>2, <4>1
      <4>2. CASE discardp'[j] = o /\ srv.port[h].st = "held" BY <1>2, <2>2, <3>2, <4>2
      <4> QED BY <3>4, <4>1, <4>2
    <3>6. ASSUME NEW i \in 1..Len(discardp'), i # j, discardp'[i].type = "p"
          PROVE  discardp'[i].h # discardp'[j].h
      <4>1. CASE j \in 1..n /\ discardp'[j] = discardp[j] BY <2>2, <3>1, <3>4, <3>6, <4>1
      <4>2. CASE j = n + 1 /\ discardp'[j] = o BY <2>2, <3>1, <3>4, <3>6, <4>2
      <4> QED BY <3>4, <4>1, <4>2
    <3> QED BY <3>5, <3>6
  <2> QED BY <2>6, <2>13, <2>15, LiveFrom
<1>9. CASE curs[h].open /\ ~conn.err
  <2>1. c \in Cmds /\ c.op = "close" /\ c.h = h /\ q \in Seq(Cmds) /\ One(q, c)
        /\ fl \in SUBSET Flags /\ q \o << >> = q
    <3>1. c \in Cmds /\ c.op = "close" /\ c.h = h BY <1>2, CursCmdType DEF CmdNames, CloseIt
    <3>2. fl \in SUBSET Flags BY DEF Flags
    <3> HIDE DEF c
    <3>3. q \in Seq(Cmds) /\ One(q, c) BY <3>1 DEF One
    <3> HIDE DEF q
    <3> QED BY <3>1, <3>2, <3>3, NoCat
  <2>2. f \in Tasks /\ f.t = "closed" /\ f.h = h BY <1>2, CallHType DEF TaskNames
  <2> HIDE DEF q, f
  <2>3. e \in Tasks /\ e.t = "send" /\ e.q = q /\ e.f = fl BY <2>1, SendType
  <2>4. todo' = <<e, f>> \o Tail(todo) /\ UNCHANGED <<curs, discardp>>
    <3>1. UNCHANGED <<curs, discardp>> /\ Then(<<Send(q \o << >>, fl \cup {}), f>> \o << >>) BY <1>6, <1>9
    <3>2. Send(q \o << >>, fl \cup {}) = e BY <2>1
    <3> HIDE DEF e, fl
    <3>3. <<e, f>> \in Seq(Tasks) BY <2>2, <2>3
    <3>4. <<e, f>> \o << >> = <<e, f>> BY <3>3, NoCat
    <3> QED BY <3>1, <3>2, <3>4 DEF Then
  <2> HIDE DEF e
  <2>5. \A k \in Rest : k.t \in Lower("closed") BY <1>3 DEF Lower, Talk, Clears, Discs
  <2>6. /\ Sound(todo') /\ todo' # << >> /\ H' = e /\ Rest' = {f} \cup Rest /\ All(todo') = N \cup Rest
        /\ Truthful(todo) => Truthful(todo')
    <3>1. f.t \in Lower(e.t) BY <2>2, <2>3 DEF Lower, Talk, Ends
    <3> QED BY <1>1, <1>3, <2>2, <2>3, <2>4, <2>5, <3>1, Replace2 DEF Awaits, Works
  <2> HIDE DEF N
  <2>7. Turned(N) BY <1>1, <2>2, <2>3, <2>4, <2>6 DEF Turned, SameSrv, N
  <2>8. BaseInv'
    <3>1. \A k \in N : k.t \in HandleTasks => k.h \in Handles BY <1>2, <2>2, <2>3 DEF N, HandleTasks
    <3>2. \A k \in N : \A t \in Under(k.t) : \E m \in N \cup Rest : m.t = t
      BY <2>2, <2>3 DEF N, Under, Clears
    <3>3. Gone' BY <1>1, TypesOf DEF Gone
    <3> QED BY <1>1, <2>4, <2>6, <2>7, <3>1, <3>2, <3>3, TypesOf, TurnedBase
  <2> SUFFICES ASSUME conn.alive
               PROVE  LiveInv'
    BY <1>1, <2>8 DEF IInv
  <2>9. /\ Top("send")' /\ ~Top("wire")' /\ ~Top("query_rollback")' /\ ~Top("update")'
        /\ H'.q = q /\ H'.f = fl /\ H'.t = "send"
    BY <2>3, <2>6 DEF Top, H
  <2>10. /\ \A k \in All(todo') : k.t \in Ends \cup {"send"}
         /\ \A k \in Rest' : k.t \in Ends
         /\ ~Busy' /\ f \in Rest'
    BY <1>3, <2>2, <2>3, <2>6 DEF N, Ends, Busy, Chores, Discs, Clears
  <2>11. StatusInv'
    <3>1. Mirrors' /\ Matches' BY <1>1, <1>4 DEF Mirrors, Matches
    <3>2. conn.err \/ conn.svp \/ conn.op # "none" \/ conn.manual => conn.inTrans
      BY <1>4, LiveParts DEF StatusInv
    <3> QED BY <1>1, <1>3, <2>7, <2>10, <3>1, <3>2, LiveParts, TurnedStatus
  <2>12. SvpInv' /\ LevelInv' BY <1>1, <1>4, <2>7, <2>9, TurnedSvp, LiveParts DEF OnQuery
  <2>13. PermInv' /\ OpenInv' /\ PortInv' BY <1>1, <1>4, <2>2, <2>3, <2>4, <2>7, LiveParts, TurnedCursors
  <2>14. ~Closing(h) BY <1>1, <1>3 DEF Closing
  <2>15. srv.port[h].st # "none" \/ (curs[h].doubt /\ ~curs[h].hold)
    BY <1>2, <1>4, <1>9, <2>14, LiveParts DEF PermInv, OpenInv
  <2>16. TalkInv'
    <3>1. Quick(c)' BY <2>2, <2>10 DEF Quick, Only
    <3>2. Sure(c)' \/ (curs[h].doubt /\ Maybe(c)')
      <4>1. CASE srv.port[h].st # "none" BY <1>1, <2>1, <4>1 DEF Sure
      <4>2. CASE curs[h].doubt /\ ~curs[h].hold BY <2>1, <2>2, <2>4, <2>10, <4>2 DEF Maybe, Only
      <4> QED BY <2>15, <4>1, <4>2
    <3>3. H'.f \subseteq {"rollback_on_error", "ignore_abort", "read_only"}
          /\ ({"rollback_on_error", "ignore_abort"} \subseteq H'.f <=> curs[h].doubt)
          /\ (~curs[h].doubt => "rollback_on_error" \notin H'.f)
      BY <2>9
    <3> HIDE DEF c, fl
    <3>4. Maybe(c)' \/ ~Sure(c)' BY DEF Maybe
    <3>5. QuickSend' BY <1>1, <1>9, <2>1, <2>9, <3>1, <3>2, <3>3, <3>4 DEF QuickSend
    <3> QED BY <1>1, <1>4, <2>9, <3>5 DEF TalkInv, SendInv, WireInv
  <2>17. CloseInv'
    <3>1. \A k \in All(todo') : k.t \in {"close", "closed"} => k = f BY <1>3, <2>2, <2>3, <2>6 DEF N
    <3>2. Pending(c)' BY <2>1, <2>9 DEF Pending, One
    <3>3. \A k \in All(todo') : k.t = "closed" => curs[k.h].open /\ Pending(CloseIt(k.h))'
      BY <1>9, <2>2, <3>1, <3>2
    <3>4. (Has("close_eof")' => Has("close_eof")) /\ (Has("commit_send")' => Has("commit_send"))
      BY <1>1, <1>3, <2>2, <2>3, <2>6 DEF N, Has
    <3>5. Has("commit_send") => InUse /\ ~conn.err /\ curs[h].hold BY <1>1, LiveParts DEF CloseInv
    <3>6. \A k \in All(todo') : k.t # "moved" BY <1>3, <2>2, <2>3, <2>6 DEF N
    <3>7. Has("close_eof") => InUse /\ ~conn.err BY LiveParts DEF CloseInv
    <3>8. ~Top("close")' BY <2>9 DEF Top, H
    <3> HIDE DEF c
    <3> QED BY <1>1, <2>2, <2>4, <3>1, <3>3, <3>4, <3>5, <3>6, <3>7, <3>8 DEF CloseInv, InUse
  <2>18. IgnInv'
    <3>1. \A k \in All(todo') : k.t \in {"close", "closed"} => k = f BY <1>3, <2>2, <2>3, <2>6 DEF N
    <3>2. /\ conn.ignored => \A g \in Handles : ~(curs[g].open /\ curs[g].hold)
          /\ curs[h].open /\ curs[h].doubt /\ ~curs[h].hold =>
               \A g \in Handles : ~(curs[g].open /\ curs[g].hold)
      BY <1>1, LiveParts DEF IgnInv
    <3> QED BY <1>1, <2>2, <2>4, <3>1, <3>2 DEF IgnInv
  <2>19. DiscInv'
    <3>1. \A k \in Rest : k.t \notin Discs BY <1>3 DEF Discs
    <3>2. discardp # << >> => conn.err BY <1>1, <1>3, <3>1, LiveParts DEF DiscInv, Discs
    <3> QED BY <1>1, <2>2, <2>3, <2>4, <2>7, <3>1, <3>2, LiveParts, TurnedDisc DEF N, Discs
  <2>20. OpeningInv' BY <1>3, <2>2, <2>3, <2>6 DEF OpeningInv, N
  <2>21. RetInv' /\ ExtInv'
    <3>1. Ending => Ending' BY <1>1, <1>3, <2>6 DEF Ending, Has, Top, H
    <3>2. ~Beginning BY <1>1 DEF Beginning, Top, H
    <3>3. ~In("svp_sent") BY <1>3 DEF In
    <3> QED BY <1>1, <2>2, <2>3, <2>7, <2>9, <3>1, <3>2, <3>3, LiveParts, TurnedRest DEF N
  <2> QED BY <2>6, <2>11, <2>12, <2>13, <2>16, <2>17, <2>18, <2>19, <2>20, <2>21, LiveFrom, LiveParts
<1> QED BY <1>7, <1>8, <1>9
--------------------
(* Opening a cursor *)
\* Tasks that end a statement.
Plain == {"stmt_end", "stmt_clean", "exec_end"}
LEMMA Plainly ==
  ASSUME \A k \in All(todo') : k.t \in Plain, todo' # << >> => H' \in All(todo'),
         conn'.op = "none"
  PROVE  /\ Truthful(todo') /\ TalkInv' /\ CloseInv' /\ OpeningInv' /\ RetInv' /\ ExtInv'
         /\ ~OnQuery' /\ ~Unsettled' /\ ~Busy' /\ \A h : ~Closing(h)' /\ ~Opening(h)'
         /\ \A k \in All(todo') : k.t \notin {"close", "closed", "discard", "discard_free"} \cup Discs
         /\ \A c : ~Pending(c)'
         /\ ~Has("closed")' /\ ~Top("stmt_rollback")'
<1>1. /\ \A t : Top(t)' => t \in Plain
      /\ \A t : Has(t)' => t \in Plain
  BY DEF Top, H, Has
<1>2. TalkInv' BY <1>1, TalkNone DEF Calls, Plain
<1>3. Truthful(todo') BY DEF Truthful, Plain, All
<1>4. CloseInv' /\ OpeningInv' BY <1>1 DEF CloseInv, OpeningInv, Plain
<1>5. RetInv' /\ ExtInv' BY <1>1 DEF RetInv, ExtInv, Plain
<1>6. ~OnQuery' /\ ~Unsettled' /\ ~Busy' /\ \A h : ~Closing(h)' /\ ~Opening(h)'
  BY <1>1 DEF OnQuery, Unsettled, Busy, Closing, Opening, Plain, Chores, Discs, Clears
<1>7. \A k \in All(todo') : k.t \notin {"close", "closed", "discard", "discard_free"} \cup Discs
  BY DEF Plain, Discs
<1>8. \A c : ~Pending(c)' BY <1>1 DEF Pending, Plain
<1> QED BY <1>1, <1>2, <1>3, <1>4, <1>5, <1>6, <1>7, <1>8 DEF Plain

LEMMA CursorIs ==
  ASSUME NEW hold \in BOOLEAN, NEW eof \in BOOLEAN
  PROVE  LET r == [open |-> TRUE, hold |-> hold, perm |-> FALSE, doubt |-> FALSE, eof |-> eof]
         IN  r \in Cursors /\ r.open /\ (r.hold <=> hold) /\ ~r.perm
BY DEF Cursors

\* The cursor exists if and only if the statement succeeded.
LEMMA OpenedStep ==
  ASSUME IInv, Opened
  PROVE  IInv'
<1> PICK h : h = H.h OBVIOUS
<1> PICK eof \in BOOLEAN : eof \in BOOLEAN /\ curs' = IF ret = "ok" /\ conn.alive
                  THEN [curs EXCEPT ![Head(todo).h] =
                          [open |-> TRUE, hold |-> "on" \in Head(todo).f,
                           perm |-> FALSE, doubt |-> FALSE, eof |-> eof]]
                  ELSE curs
  BY DEF Opened
<1> DEFINE on == "on" \in H.f
           r == [open |-> TRUE, hold |-> on, perm |-> FALSE, doubt |-> FALSE, eof |-> eof]
<1>1. /\ todo # << >> /\ H.t = "opened" /\ StackInv /\ Sound(todo) /\ todo \in Seq(Tasks)
      /\ UNCHANGED <<conn, srv, discardp, ret, last>> /\ H \in All(todo)
      /\ curs \in [Handles -> Cursors] /\ ret \in {"ok", "error"}
      /\ curs' = IF ret = "ok" /\ conn.alive THEN [curs EXCEPT ![h] = r] ELSE curs
  BY TypesOf, StackFacts DEF Opened, Top, H
<1>2. todo' = Tail(todo) BY <1>1, NoCat DEF Opened, Then
<1>3. h \in Handles BY <1>1 DEF StackInv, HandleTasks
<1>4. /\ r \in Cursors /\ r.open /\ (r.hold <=> on) /\ ~r.perm
  <2>1. on \in BOOLEAN OBVIOUS
  <2> HIDE DEF on
  <2> QED BY <2>1, CursorIs
<1> PICK x : x = IF ret = "ok" /\ conn.alive THEN r ELSE curs[h] OBVIOUS
<1>5. x \in Cursors /\ curs' = [curs EXCEPT ![h] = x]
  <2>1. curs[h] \in Cursors /\ curs = [curs EXCEPT ![h] = curs[h]] BY <1>1, <1>3
  <2> HIDE DEF r
  <2> QED BY <1>1, <1>4, <2>1
<1>6. ret = "ok" /\ conn.alive => x.open /\ (x.hold <=> on) /\ ~x.perm
  <2> HIDE DEF r
  <2> QED BY <1>4
<1>7. ~(ret = "ok" /\ conn.alive) => x = curs[h] OBVIOUS
<1> HIDE DEF r
<1>8. BaseInv' BY <1>1, <1>2, <1>3, <1>5, PoppedCursor DEF Marks
<1> SUFFICES ASSUME conn.alive
             PROVE  LiveInv'
  BY <1>1, <1>8 DEF IInv
<1>9. /\ All(todo) = {H} \cup Rest /\ All(todo') = Rest
      /\ \A k \in Rest : k.t = "stmt_end"
      /\ todo' # << >> /\ H' \in Rest
  <2>1. All(todo) = {H} \cup Rest /\ All(todo') = Rest /\ \A k \in Rest : k.t \in Lower("opened")
    BY <1>1, <1>2, StackFacts, Pop
  <2>2. \A k \in Rest : k.t = "stmt_end" BY <2>1 DEF Lower, Talk, Clears, Discs
  <2>3. Has("stmt_end") BY <1>1 DEF StackInv, Under
  <2>4. Rest # {} BY <1>1, <2>1, <2>3 DEF Has
  <2>5. todo' # << >> BY <2>1, <2>4, AllNone
  <2> QED BY <1>1, <1>2, <2>1, <2>2, <2>5, Pop
<1>10. Top("stmt_end")' /\ ~Top("stmt_end") /\ ~Top("stmt_clean") /\ ~Top("wire") /\ ~Top("send")
  BY <1>1, <1>9 DEF Top, H
<1>11. /\ ~Unsettled /\ Mirrors /\ Matches /\ ~OnQuery /\ \A c : ~Pending(c)
       /\ conn.op = "none" /\ ~conn.committing
  BY <1>1, <1>9, <1>10, Settled, NoOp DEF StackInv, Has
<1>12. /\ Truthful(todo') /\ TalkInv' /\ CloseInv' /\ OpeningInv' /\ RetInv' /\ ExtInv'
       /\ ~OnQuery' /\ ~Unsettled' /\ ~Busy' /\ \A g : ~Closing(g)' /\ ~Opening(g)'
       /\ \A k \in All(todo') : k.t \notin {"close", "closed", "discard", "discard_free"} \cup Discs
       /\ ~Has("closed")' /\ ~Top("stmt_rollback")'
  BY <1>1, <1>9, <1>11, Plainly DEF Plain
<1>13. /\ ~curs[h].open /\ (on => ~conn.ignored)
       /\ Failed1 => ~InUse
       /\ \/ Failed1 /\ ~(srv.port[h].st = "trans" /\ srv.port[h].hold)
          \/ InUse /\ srv.port[h].st = "trans" /\ (srv.port[h].hold <=> on)
  BY <1>1, <1>10, LiveParts DEF OpeningInv
<1>14. Failed1 <=> ret = "error" BY <1>1, <1>9 DEF Failed1, Top, H
<1>15. \A g \in Handles : curs'[g] = IF g = h THEN x ELSE curs[g] BY <1>1, <1>5
<1>16. /\ \A g \in Handles : ~Closing(g) /\ (Opening(g) => g = h)
       /\ \A k \in All(todo) : k.t \notin Discs
       /\ Base' = Base
  BY <1>1, <1>9, <1>11, <1>12 DEF Closing, Opening, Discs, Base
<1>17. StatusInv' BY <1>1, <1>9, <1>11, <1>12, LiveParts DEF StatusInv, Mirrors, Matches, NewTrans
<1>18. SvpInv' BY <1>1, <1>9, <1>10, <1>11, <1>12, <1>16, LiveParts DEF SvpInv, Has
<1>19. LevelInv'
  <2>1. ASSUME NEW g \in Handles, srv.port[g].st = "trans"
        PROVE  /\ srv.st # "IDLE" /\ srv.port[g].lvl <= Base
               /\ srv.port[g].hold => \A i \in Indices(srv, "user") : srv.port[g].lvl < i
               /\ conn.point /\ curs'[g].open /\ ~curs'[g].perm =>
                     srv.port[g].lvl < Base \/ ret = "ok"
    BY <1>1, <1>7, <1>10, <1>13, <1>15, <2>1, LiveParts DEF LevelInv
  <2> QED BY <1>1, <1>10, <1>16, <2>1 DEF LevelInv, Indices
<1>20. PermInv' BY <1>1, <1>6, <1>7, <1>13, <1>15, <1>16, LiveParts DEF PermInv
<1>21. OpenInv'
  <2> SUFFICES ASSUME NEW g \in Handles, curs'[g].open, ~curs'[g].perm
               PROVE  /\ srv.st # "IDLE"
                      /\ \/ srv.port[g].st = "trans" /\ (srv.port[g].hold <=> curs'[g].hold)
                         \/ srv.port[g].st = "none" /\ curs'[g].doubt /\ ~curs'[g].hold
    BY <1>1 DEF OpenInv
  <2>1. CASE g = h /\ ret = "ok" BY <1>6, <1>13, <1>14, <1>15, <2>1 DEF InUse
  <2>2. CASE ~(g = h /\ ret = "ok") BY <1>7, <1>11, <1>13, <1>15, <1>16, <2>2, LiveParts DEF OpenInv
  <2> QED BY <2>1, <2>2
<1>22. PortInv'
  <2> SUFFICES ASSUME NEW g \in Handles, srv.port[g].st # "none", ~curs'[g].open
               PROVE  \/ srv.port[g].st = "trans" /\ ~srv.port[g].hold
                      \/ srv.port[g].st = "held" /\ Marked(g)
    BY <1>1 DEF PortInv, Marked
  <2>1. CASE g = h BY <1>1, <1>6, <1>13, <1>14, <1>15, <2>1, LiveParts DEF PortInv
  <2>2. CASE g # h BY <1>15, <1>16, <2>2, LiveParts DEF PortInv
  <2> QED BY <2>1, <2>2
<1>23. DiscInv'
  <2>1. CASE InUse
    <3>1. discardp = << >> BY <1>11, <1>16, <2>1, LiveParts DEF DiscInv, InUse, Mirrors
    <3> QED BY <1>1, <1>12, <3>1 DEF DiscInv
  <2>2. CASE ~InUse
    <3>1. \A g \in Handles : curs'[g] = curs[g] BY <1>1, <1>7, <1>13, <1>14, <1>15, <2>2
    <3>2. \A j \in 1..Len(discardp) : discardp[j].type = "p" =>
           /\ discardp[j].h \in Handles /\ srv.port[discardp[j].h].st = "held"
           /\ ~curs[discardp[j].h].open
           /\ \A i \in 1..Len(discardp) :
                  i # j /\ discardp[i].type = "p" => discardp[i].h # discardp[j].h
      BY <1>16, LiveParts DEF DiscInv, Discs
    <3>3. discardp # << >> => conn.err BY <1>16, LiveParts DEF DiscInv
    <3> QED BY <1>1, <1>12, <3>1, <3>2, <3>3 DEF DiscInv
  <2> QED BY <2>1, <2>2
<1>24. IgnInv'
  <2>1. conn.ignored => \A g \in Handles : ~(curs'[g].open /\ curs'[g].hold)
    BY <1>1, <1>6, <1>7, <1>13, <1>15, LiveParts DEF IgnInv
  <2> QED BY <1>1, <1>12, <2>1 DEF IgnInv
<1> QED BY <1>12, <1>17, <1>18, <1>19, <1>20, <1>21, <1>22, <1>23, <1>24, LiveFrom
--------------------
(* The session is lost *)
LEMMA LostParts ==
  ASSUME IInv
  PROVE  /\ NewServer \in Servers /\ CursAborted \in [Handles -> Cursors]
         /\ conn.err => conn.inTrans
<1>1. curs \in [Handles -> Cursors] /\ Gone /\ (conn.alive => StatusInv) BY TypesOf, LiveParts
<1>2. NewServer \in Servers
  <2>1. [h \in Handles |-> NoPort] \in [Handles -> Ports] BY NoPortType
  <2> DEFINE port == [h \in Handles |-> NoPort]
  <2> HIDE DEF port
  <2>2. << >> \in Seq(Svp) /\ 0 \in Nat /\ "IDLE" \in StNames BY DEF StNames
  <2>3. [st |-> "IDLE", w |-> 0, svps |-> << >>, port |-> port] \in Servers
    BY <2>1, <2>2, ServerType DEF port
  <2> QED BY <2>3 DEF NewServer, port
<1>3. CursAborted \in [Handles -> Cursors] BY <1>1 DEF CursAborted, NoCursor, Cursors
<1>4. conn.err => conn.inTrans BY <1>1 DEF Gone, StatusInv
<1> QED BY <1>2, <1>3, <1>4

\* Only the types and the stack matter when the connection is lost.
LEMMA LostBase ==
  ASSUME IInv, LostConn, srv' = NewServer, curs' = CursAborted,
         discardp' = discardp, ret' \in {"ok", "error"}, last' = last,
         Sound(todo'), StackInv'
  PROVE  IInv'
<1>1. /\ conn' \in Conns /\ ~conn'.alive /\ ~conn'.inTrans /\ ~conn'.svp /\ conn'.op = "none"
      /\ ~conn'.point /\ ~conn'.err
  <2>1. conn \in Conns BY TypesOf
  <2>2. /\ conn' \in Conns /\ ~conn'.alive /\ ~conn'.inTrans /\ ~conn'.svp /\ conn'.op = "none"
        /\ ~conn'.point
        /\ (conn.err => conn.inTrans) => ~conn'.err
    BY <2>1, Dead
  <2> QED BY <2>2, LostParts
<1>2. TypeOK' BY <1>1, TypesOf, LostParts DEF TypeOK, LastType, Sound
<1>3. Gone'
  <2>1. srv'.st = "IDLE" BY DEF NewServer
  <2> QED BY <1>1, <2>1 DEF Gone
<1> QED BY <1>1, <1>2, <1>3 DEF IInv, BaseInv

\* What is left of a query that has failed.
LEMMA TaskCut ==
  ASSUME NEW k \in Tasks, NEW f \in SUBSET Flags
  PROVE  /\ [k EXCEPT !.q = << >>, !.f = f] \in Tasks
         /\ [k EXCEPT !.q = << >>, !.f = f].t = k.t
         /\ [k EXCEPT !.q = << >>, !.f = f].q = << >>
         /\ [k EXCEPT !.q = << >>, !.f = f].f = f
<1> DEFINE none == << >>
           k1 == [k EXCEPT !.q = none]
<1>1. none \in Seq(Cmds) BY NoCmds
<1> HIDE DEF none
<1>2. k1 \in Tasks /\ k1.t = k.t /\ k1.q = none BY <1>1, TaskQ
<1> HIDE DEF k1
<1>3. /\ [k1 EXCEPT !.f = f] \in Tasks /\ [k1 EXCEPT !.f = f].t = k.t
      /\ [k1 EXCEPT !.f = f].q = none /\ [k1 EXCEPT !.f = f].f = f
  BY <1>2, TaskF
<1> QED BY <1>3 DEF k1, none

LEMMA WireLostStep ==
  ASSUME IInv, WireLost
  PROVE  IInv'
<1> DEFINE f == H.f \cup {"failed"}
           e == [H EXCEPT !.q = << >>, !.f = f]
           N == {e}
<1>1. /\ todo # << >> /\ H.t = "wire" /\ todo' = <<e>> \o Tail(todo)
      /\ Sound(todo) /\ StackInv /\ conn \in Conns /\ ret \in {"ok", "error"}
      /\ LostConn /\ srv' = NewServer
      /\ curs' = CursAborted /\ UNCHANGED <<discardp, ret, last>>
  BY TypesOf DEF WireLost, LostConn, Top, Then, H
<1>2. e \in Tasks /\ e.t = "wire"
  <2>1. H \in Tasks BY <1>1, StackFacts
  <2>2. f \in SUBSET Flags BY <2>1, TaskFields DEF Flags
  <2> HIDE DEF f
  <2> QED BY <1>1, <2>1, <2>2, TaskCut
<1> HIDE DEF e
<1>3. Sound(todo') /\ All(todo') = N \cup Rest
  <2>1. \A k \in Rest : k.t \in Lower("wire") BY <1>1, StackFacts
  <2> QED BY <1>1, <1>2, <2>1, Replace DEF Awaits, Works
<1>4. conn'.committing <=> conn.committing BY <1>1, LostParts, Dead
<1>5. StackInv'
  <2>1. \A k \in N : k.t \notin HandleTasks /\ k.t # "on_commit_end" /\ Under(k.t) = {}
    BY <1>2 DEF HandleTasks, Under
  <2>2. conn'.committing <=> In("on_commit_end") BY <1>1, <1>4, RestCommit
  <2> HIDE DEF N
  <2> QED BY <1>1, <1>3, <2>1, <2>2, StackFrom
<1> QED BY <1>1, <1>3, <1>5, LostBase

LEMMA ExecExtLostStep ==
  ASSUME IInv, ExecExtLost
  PROVE  IInv'
<1>1. /\ todo # << >> /\ H.t = "exec_ext" /\ todo' = Tail(todo)
      /\ Sound(todo) /\ StackInv /\ conn \in Conns
      /\ LostConn /\ srv' = NewServer
      /\ curs' = CursAborted /\ ret' = "error" /\ UNCHANGED <<discardp, last>>
  BY TypesOf, NoCat DEF ExecExtLost, LostConn, Top, Then, H
<1>2. conn'.committing <=> conn.committing BY <1>1, LostParts, Dead
<1>3. Sound(todo') /\ StackInv' BY <1>1, <1>2, Pop, StackPopped
<1> QED BY <1>1, <1>3, LostBase

\* Without a connection a query fails, and a savepoint stops the statement.
LEMMA SendQueryDead ==
  ASSUME IInv, SendQuery, ~conn.alive
  PROVE  IInv'
<1>1. /\ todo # << >> /\ H.t = "send" /\ todo' = Tail(todo)
      /\ Sound(todo) /\ StackInv /\ ret' = "error" /\ UNCHANGED <<conn, srv, curs, discardp, last>>
  <2>1. Top("send") /\ Then(<< >>) /\ ret' = "error" /\ UNCHANGED <<conn, srv, curs, discardp, last>>
    BY DEF SendQuery
  <2> QED BY <2>1, TypesOf, NoCat DEF Top, Then, H
<1>2. StackInv' /\ Sound(todo') BY <1>1, Pop, StackPopped
<1>3. TypeOK' /\ Gone' BY <1>1, <1>2, TypesOf DEF TypeOK, Gone, Sound, LastType
<1> QED BY <1>1, <1>2, <1>3 DEF IInv, BaseInv

LEMMA UpdateDead ==
  ASSUME IInv, UpdateStatus, ~conn.alive
  PROVE  IInv'
<1>1. Top("update") /\ Then(<< >>) /\ UNCHANGED <<conn, srv, curs, discardp, last, ret>>
  BY DEF UpdateStatus
<1>2. /\ todo # << >> /\ H.t = "update" /\ todo' = Tail(todo)
      /\ Sound(todo) /\ StackInv
  BY <1>1, TypesOf, NoCat DEF Top, Then, H
<1>3. StackInv' /\ Sound(todo') BY <1>1, <1>2, Pop, StackPopped
<1>4. TypeOK' /\ Gone' BY <1>1, <1>3, TypesOf DEF TypeOK, Gone, Sound, LastType
<1> QED BY <1>1, <1>3, <1>4 DEF IInv, BaseInv
--------------------
(* The internal savepoint of a statement *)
\* A record that differs from the driver's in what protects a statement only.
Kept(c) ==
  /\ c \in Conns
  /\ c.alive <=> conn.alive
  /\ c.auto <=> conn.auto
  /\ c.inTrans <=> conn.inTrans
  /\ c.manual <=> conn.manual
  /\ c.err <=> conn.err
  /\ c.svp <=> conn.svp
  /\ c.point <=> conn.point
  /\ c.committing <=> conn.committing
  /\ c.ignored <=> conn.ignored
LEMMA KeptSelf ==
  ASSUME conn \in Conns
  PROVE  Kept(conn)
BY DEF Kept

LEMMA KeptFields ==
  ASSUME NEW c, Kept(c), NEW b \in BOOLEAN
  PROVE  /\ Kept([c EXCEPT !.prog = b]) /\ [c EXCEPT !.prog = b].op = c.op
         /\ Kept([c EXCEPT !.acc = b]) /\ [c EXCEPT !.acc = b].op = c.op
<1>1. c \in Conns BY DEF Kept
<1>2. [c EXCEPT !.prog = b] \in Conns /\ [c EXCEPT !.acc = b] \in Conns BY <1>1, Zenon DEF Conns
<1> DEFINE d == [c EXCEPT !.prog = b]
           e == [c EXCEPT !.acc = b]
<1>3. /\ d.alive <=> c.alive
      /\ d.auto <=> c.auto
      /\ d.inTrans <=> c.inTrans
      /\ d.manual <=> c.manual
      /\ d.err <=> c.err
      /\ d.svp <=> c.svp
      /\ d.point <=> c.point
      /\ d.committing <=> c.committing
      /\ d.ignored <=> c.ignored
      /\ d.op = c.op
  BY <1>1 DEF Conns
<1>4. /\ e.alive <=> c.alive
      /\ e.auto <=> c.auto
      /\ e.inTrans <=> c.inTrans
      /\ e.manual <=> c.manual
      /\ e.err <=> c.err
      /\ e.svp <=> c.svp
      /\ e.point <=> c.point
      /\ e.committing <=> c.committing
      /\ e.ignored <=> c.ignored
      /\ e.op = c.op
  BY <1>1 DEF Conns
<1> HIDE DEF d, e
<1>5. Kept(d) /\ Kept(e) BY <1>2, <1>3, <1>4 DEF Kept, d, e
<1> QED BY <1>3, <1>4, <1>5 DEF d, e

LEMMA KeptOp ==
  ASSUME NEW c, Kept(c), NEW op \in {"none", "savepoint", "prepend"}
  PROVE  Kept([c EXCEPT !.op = op]) /\ [c EXCEPT !.op = op].op = op
<1>1. c \in Conns BY DEF Kept
<1> DEFINE d == [c EXCEPT !.op = op]
<1>2. d \in Conns BY <1>1, Zenon DEF Conns
<1>3. /\ d.alive <=> c.alive
      /\ d.auto <=> c.auto
      /\ d.inTrans <=> c.inTrans
      /\ d.manual <=> c.manual
      /\ d.err <=> c.err
      /\ d.svp <=> c.svp
      /\ d.point <=> c.point
      /\ d.committing <=> c.committing
      /\ d.ignored <=> c.ignored
      /\ d.op = op
  BY <1>1 DEF Conns
<1> HIDE DEF d
<1>4. Kept(d) BY <1>2, <1>3 DEF Kept
<1> QED BY <1>3, <1>4 DEF d

LEMMA SetSvpIs ==
  ASSUME conn \in Conns, NEW cmd, NEW ro \in BOOLEAN, NEW inner \in BOOLEAN
  PROVE  /\ Kept(SetSvp(cmd, ro, inner))
         /\ SetSvp(cmd, ro, inner).op = conn.op
            \/ /\ SetSvp(cmd, ro, inner).op = "prepend"
               /\ ~conn.err /\ conn.inTrans /\ ~conn.point /\ StmtType(cmd) = "other"
<1> DEFINE b == conn.prog /\ ro
           c == [conn EXCEPT !.prog = b]
           d == [c EXCEPT !.op = "prepend"]
           e == [d EXCEPT !.acc = TRUE]
           g == [c EXCEPT !.acc = TRUE]
<1>1. b \in BOOLEAN OBVIOUS
<1> HIDE DEF b
<1>2. Kept(c) /\ c.op = conn.op BY <1>1, KeptSelf, KeptFields
<1> HIDE DEF c
<1>3. Kept(d) /\ d.op = "prepend" /\ Kept(g) /\ g.op = c.op BY <1>2, KeptOp, KeptFields
<1> HIDE DEF d
<1>4. Kept(e) /\ e.op = "prepend" BY <1>3, KeptFields
<1>5. NeedSvp(c, inner) => conn.inTrans /\ ~conn.point BY <1>2 DEF NeedSvp, Kept
<1> DEFINE s == SetSvp(cmd, ro, inner)
<1>6. s = IF conn.err THEN conn
          ELSE IF StmtType(cmd) # "other" THEN c
          ELSE IF NeedSvp(c, inner) THEN e ELSE g
  BY Zenon DEF s, SetSvp, c, d, e, g, b
<1> HIDE DEF e, g, s
<1>7. Kept(conn) BY KeptSelf
<1> QED BY <1>2, <1>3, <1>4, <1>5, <1>6, <1>7 DEF s
\* What surrounds the start of an extended query.
LEMMA StartFacts ==
  ASSUME IInv, todo # << >>, H.t \in {"request_start", "svp_sent"}
  PROVE  /\ Sound(todo) /\ StackInv /\ All(todo) = {H} \cup Rest /\ H \in Tasks /\ H \in All(todo)
         /\ \A k \in Rest : k.t \in {"exec_ext", "exec_end", "stmt_end"} /\ k.t \in Lower("send")
                            /\ k.t \in Lower("begin") /\ k.t \in Lower("svp_sent")
         /\ In("exec_ext") /\ In("exec_end") /\ In("stmt_end")
         /\ ~Busy /\ ~conn.committing /\ conn.op = "none"
<1>1. /\ Sound(todo) /\ StackInv /\ All(todo) = {H} \cup Rest /\ H \in Tasks /\ H \in All(todo)
      /\ \A k \in Rest : k.t \in Lower(H.t)
  BY TypesOf, StackFacts
<1>2. \A k \in Rest : k.t \in {"exec_ext", "exec_end", "stmt_end"} /\ k.t \in Lower("send")
                      /\ k.t \in Lower("begin") /\ k.t \in Lower("svp_sent")
  BY <1>1 DEF Lower, Talk, Clears, Discs, Ends
<1>3. In("exec_ext") /\ In("exec_end") /\ In("stmt_end")
  <2>1. Under(H.t) = {"exec_ext", "exec_end", "stmt_end"} BY DEF Under
  <2>2. \A t \in Under(H.t) : \E m \in All(todo) : m.t = t BY <1>1 DEF StackInv, Has
  <2> QED BY <1>1, <2>1, <2>2 DEF In
<1>4. ~Busy /\ ~conn.committing BY <1>1, <1>2 DEF Busy, Chores, Discs, Clears, StackInv, Has
<1>5. conn.op = "none" BY NoOp DEF Top, H
<1> QED BY <1>1, <1>2, <1>3, <1>4, <1>5

\* The statement runs without a savepoint of its own, after what N does first.
LEMMA StartTurn ==
  ASSUME IInv, conn.alive, todo # << >>, H.t = "request_start", NEW N, Turned(N),
         Truthful(todo') , BaseInv', Kept(conn'), UNCHANGED <<srv, curs, discardp, ret, last>>,
         \A k \in N : k.t \in {"begin", "send", "svp_sent"}, H'.t \in {"begin", "send"},
         H'.t = "send" => H'.q = InternalSavepoint(conn'), SendInv',
         H'.t = "begin" => conn'.op = "none",
         (\E k \in N : k.t = "svp_sent") => InUse /\ ~conn.err
  PROVE  IInv'
<1>1. /\ Sound(todo) /\ StackInv /\ All(todo) = {H} \cup Rest /\ H \in Tasks /\ H \in All(todo)
      /\ \A k \in Rest : k.t \in {"exec_ext", "exec_end", "stmt_end"}
      /\ In("exec_ext") /\ In("exec_end") /\ In("stmt_end")
      /\ ~Busy /\ ~conn.committing /\ conn.op = "none"
  BY StartFacts
<1>2. /\ ~Unsettled /\ Mirrors /\ Matches /\ ~OnQuery /\ \A c : ~Pending(c) BY Settled
<1>3. /\ todo' # << >> /\ All(todo') = N \cup Rest /\ H' \in N
      /\ \A t : Top(t)' <=> H'.t = t
      /\ \A k \in All(todo') : k.t \in {"begin", "send", "svp_sent", "exec_ext", "exec_end", "stmt_end"}
  BY <1>1 DEF Turned, Top, H
<1>4. ~Unsettled' /\ ~OnQuery' /\ ~Busy' /\ ~Has("closed")' /\ Mirrors' /\ Matches'
  BY <1>2, <1>3 DEF Unsettled, OnQuery, Busy, Has, Chores, Discs, Clears, Mirrors, Matches, Kept
<1>5. StatusInv'
  <2>1. conn.err \/ conn.svp \/ conn.manual => conn.inTrans BY LiveParts DEF StatusInv
  <2>2. conn'.op # "none" => conn'.inTrans
    BY <1>2, <1>3 DEF SendInv, SvpSend, StmtSend, BeginSend, EndSend, QuickSend, InUse, Matches, Kept
  <2>3. conn'.err \/ conn'.svp \/ conn'.op # "none" \/ conn'.manual => conn'.inTrans
    BY <2>1, <2>2 DEF Kept
  <2> QED BY <1>1, <1>4, <2>3, TypesOf, TurnedStatus DEF Kept
<1>6. SvpInv' /\ LevelInv' BY <1>2, <1>4, TypesOf, TurnedSvp
<1>7. PermInv' /\ OpenInv' /\ PortInv'
  <2>1. \A k \in N : k.t # "closed" BY <1>3
  <2> QED BY <1>2, <2>1, TypesOf, TurnedCursors DEF Kept
<1>8. CloseInv' /\ IgnInv'
  <2>1. \A k \in N : k.t \notin {"close", "closed", "moved", "close_eof", "commit_send"} BY <1>3
  <2> QED BY <1>2, <2>1, TypesOf, TurnedCloses DEF Kept
<1>9. DiscInv'
  <2>1. \A k \in Rest : k.t # "discard_free" BY <1>1
  <2>2. \A k \in N : k.t \notin {"discard", "discard_free"} BY <1>3
  <2>3. discardp # << >> => conn'.err BY <1>1, LiveParts DEF DiscInv, Busy, Chores, Discs, Clears, Kept
  <2> QED BY <2>1, <2>2, <2>3, TypesOf, TurnedDisc
<1>10. OpeningInv' BY <1>3 DEF OpeningInv
<1>11. RetInv'
  <2>1. (\E k \in N : k.t = "svp_sent") => InUse' /\ ~conn'.err BY DEF Kept, InUse
  <2>2. (\E k \in All(todo') : k.t = "svp_sent") => InUse' /\ ~conn'.err BY <1>1, <1>3, <2>1
  <2> QED BY <1>3, <1>4, <2>2 DEF RetInv, Has
<1>12. ExtInv'
  <2>1. ~Beginning BY DEF Beginning, Top, H
  <2>2. \A k \in Rest : k.t = "exec_ext" =>
          /\ last.op \in Kinds \ EndKinds /\ One(k.q, Cmd(last.op))
          /\ ~conn.auto /\ last.op # "special" => srv.st # "IDLE"
    BY <1>1, <2>1, LiveParts DEF ExtInv
  <2> QED BY <1>3, <2>2 DEF ExtInv, Kept
<1>13. TalkInv' BY <1>3 DEF TalkInv, WireInv
<1>14. LiveInv' BY <1>5, <1>6, <1>7, <1>8, <1>9, <1>10, <1>11, <1>12, <1>13, LiveFrom
<1> QED BY <1>14 DEF IInv
LEMMA InternalSavepointIs ==
  ASSUME NEW c
  PROVE  /\ InternalSavepoint(c) \in Seq(Cmds) /\ InternalSavepoint(c) # << >>
         /\ c.svp => /\ InternalSavepoint(c) = <<SvpCmd("release", "exec")>> \o <<SvpCmd("savepoint", "exec")>>
                     /\ Head(InternalSavepoint(c)) = SvpCmd("release", "exec")
                     /\ One(Tail(InternalSavepoint(c)), SvpCmd("savepoint", "exec"))
         /\ ~c.svp => /\ InternalSavepoint(c) = <<SvpCmd("savepoint", "exec")>>
                      /\ One(InternalSavepoint(c), SvpCmd("savepoint", "exec"))
<1> DEFINE r == SvpCmd("release", "exec")
           s == SvpCmd("savepoint", "exec")
<1>1. r \in Cmds /\ s \in Cmds BY SvpCmdType DEF CmdNames, Kinds, Svps
<1> HIDE DEF r, s
<1>2. <<s>> \in Seq(Cmds) /\ << >> \o <<s>> = <<s>> /\ <<r>> \o <<s>> \in Seq(Cmds) BY <1>1
<1>3. <<s>> # << >> /\ Head(<<s>>) = s /\ Tail(<<s>>) = << >> OBVIOUS
<1>4. /\ <<r>> \o <<s>> # << >> /\ Head(<<r>> \o <<s>>) = r /\ Tail(<<r>> \o <<s>>) = <<s>>
  <2> DEFINE q == <<s>>
  <2> HIDE DEF q
  <2>1. /\ <<r>> \o q # << >> /\ Head(<<r>> \o q) = r /\ Tail(<<r>> \o q) = q
    <3>1. q \in Seq(Cmds) BY <1>2 DEF q
    <3> QED BY <1>1, <3>1, Cons
  <2> QED BY <2>1 DEF q
<1>5. InternalSavepoint(c) = IF c.svp THEN <<r>> \o <<s>> ELSE << >> \o <<s>>
  BY DEF InternalSavepoint, If, r, s
<1> QED BY <1>2, <1>3, <1>4, <1>5 DEF One, r, s

LEMMA RequestStartStep ==
  ASSUME IInv, RequestStart
  PROVE  IInv'
<1> DEFINE cmd == Head(H.q)
           c == IF conn.point THEN conn ELSE SetSvp(cmd, FALSE, FALSE)
           need == c.op = "prepend"
           begin == ~conn.inTrans /\ (~conn.auto \/ conn.manual) /\ cmd.op # "special" /\ ~conn.point
           q == InternalSavepoint(c)
           a == Send(q, {})
           b == Call("svp_sent")
           g == Call("begin")
<1>1. /\ todo # << >> /\ H.t = "request_start" /\ BaseInv /\ Sound(todo) /\ StackInv
      /\ conn \in Conns /\ UNCHANGED <<srv, curs, discardp, ret, last>> /\ Gone
  BY TypesOf DEF RequestStart, Top, H
<1>2. /\ All(todo) = {H} \cup Rest
      /\ \A k \in Rest : k.t \in {"exec_ext", "exec_end", "stmt_end"} /\ k.t \in Lower("send")
                         /\ k.t \in Lower("begin") /\ k.t \in Lower("svp_sent")
      /\ In("exec_ext") /\ In("exec_end") /\ In("stmt_end")
      /\ ~Busy /\ ~conn.committing /\ conn.op = "none"
  BY <1>1, StartFacts
<1>3. /\ IF conn.alive
         THEN /\ conn' = IF need THEN [c EXCEPT !.op = "savepoint"] ELSE c
              /\ Then(If(need, <<a, b>>) \o If(begin, <<g>>))
         ELSE UNCHANGED conn /\ Then(<< >>)
  BY Zenon DEF RequestStart, H, cmd, c, need, begin, q, a, b, g
<1>4. Kept(c) /\ (c.op = "none" \/ (need /\ ~conn.err /\ conn.inTrans /\ ~conn.point))
  <2> DEFINE d == SetSvp(cmd, FALSE, FALSE)
  <2>1. /\ Kept(d)
        /\ d.op = conn.op \/ (d.op = "prepend" /\ ~conn.err /\ conn.inTrans /\ ~conn.point)
    BY <1>1, SetSvpIs
  <2>2. Kept(conn) BY <1>1, KeptSelf
  <2>3. c = IF conn.point THEN conn ELSE d OBVIOUS
  <2> HIDE DEF c, d
  <2> QED BY <1>2, <2>1, <2>2, <2>3
<1>5. /\ q \in Seq(Cmds) /\ a \in Tasks /\ a.t = "send" /\ a.q = q /\ a.f = {}
      /\ b \in Tasks /\ b.t = "svp_sent" /\ g \in Tasks /\ g.t = "begin"
  <2>1. q \in Seq(Cmds) BY InternalSavepointIs
  <2> HIDE DEF q
  <2>2. {} \in SUBSET Flags OBVIOUS
  <2> QED BY <2>1, <2>2, SendType, CallType DEF TaskNames
<1>6. /\ conn' \in Conns /\ srv' \in Servers /\ ret' \in {"ok", "error"} /\ last' \in LastType
      /\ discardp' \in Seq([type : {"s", "p"}, h : Handles \cup {NoHandle}])
      /\ (conn'.alive <=> conn.alive) /\ (conn.alive => Kept(conn'))
  <2>1. CASE conn.alive
    <3>1. need => Kept([c EXCEPT !.op = "savepoint"]) BY <1>4, KeptOp
    <3> HIDE DEF c, need
    <3> QED BY <1>1, <1>3, <1>4, <2>1, <3>1, TypesOf DEF Kept
  <2>2. CASE ~conn.alive BY <1>1, <1>3, <2>2, TypesOf
  <2> QED BY <2>1, <2>2
<1>7. CASE ~conn.alive
  <2>1. todo' = Tail(todo) /\ conn' = conn BY <1>1, <1>3, <1>7, NoCat, HeadTailProperties DEF Then, Sound
  <2> QED BY <1>1, <1>7, <2>1, PoppedSame, TypesOf DEF Marks, Calls, LastType
<1> HIDE DEF a, b, g, q
<1>8. CASE conn.alive /\ need
  <2>1. ~begin /\ ~conn.err /\ conn.inTrans /\ ~conn.point BY <1>4, <1>8
  <2>2. todo' = <<a, b>> \o Tail(todo) /\ conn' = [c EXCEPT !.op = "savepoint"]
    <3>1. Then(<<a, b>> \o << >>) BY <1>3, <1>8, <2>1 DEF If
    <3>2. <<a, b>> \o << >> = <<a, b>> BY <1>5
    <3> QED BY <1>3, <1>8, <3>1, <3>2 DEF Then
  <2>3. Kept(conn') /\ conn'.op = "savepoint" BY <1>4, <2>2, KeptOp
  <2> DEFINE N == {a, b}
  <2>4. /\ Sound(todo') /\ todo' # << >> /\ H' = a /\ Rest' = {b} \cup Rest
        /\ All(todo') = N \cup Rest /\ Truthful(todo')
    <3>1. b.t \in Lower(a.t) BY <1>5 DEF Lower, Talk, Ends
    <3>2. Truthful(todo) BY <1>8, TypesOf
    <3> QED BY <1>1, <1>2, <1>5, <2>2, <3>1, <3>2, Replace2 DEF Awaits, Works
  <2>5. \A k \in N : k.t \in {"send", "svp_sent"} BY <1>5
  <2> HIDE DEF N
  <2>6. Turned(N)
    <3>1. H' \in N BY <2>4 DEF N
    <3> QED BY <1>1, <1>2, <2>3, <2>4, <2>5, <3>1 DEF Turned, SameSrv, Kept
  <2>7. BaseInv'
    <3>1. \A k \in N : k.t \notin HandleTasks BY <2>5 DEF HandleTasks
    <3>2. \A k \in N : \A t \in Under(k.t) : In(t) BY <1>2, <2>5 DEF Under
    <3>3. Gone' BY <1>6, <1>8 DEF Gone
    <3> QED BY <1>6, <2>4, <2>6, <3>1, <3>2, <3>3, TurnedBase DEF In
  <2>8. InUse /\ ~conn.err
    <3>1. Mirrors BY <1>1, <1>8, Settled
    <3>2. srv.st \in StNames BY TypesOf, ServerFields
    <3> QED BY <2>1, <3>1, <3>2 DEF Mirrors, Matches, InUse, StNames
  <2>9. H'.q = InternalSavepoint(conn')
    <3>1. c.svp <=> conn'.svp
      <4> HIDE DEF c
      <4> QED BY <1>4, <2>3 DEF Kept
    <3> HIDE DEF c
    <3>2. InternalSavepoint(c) = InternalSavepoint(conn') BY <3>1 DEF InternalSavepoint, If
    <3> QED BY <1>5, <2>4, <3>2 DEF q
  <2>10. SendInv'
    <3>1. ForSvp'
      <4>1. \A k \in Rest' : k.t \in {"svp_sent", "exec_ext", "exec_end", "stmt_end"} BY <1>2, <1>5, <2>4
      <4>2. b \in Rest' /\ \E k \in Rest' : k.t = "stmt_end" BY <1>2, <2>4 DEF In
      <4> QED BY <1>5, <4>1, <4>2 DEF ForSvp, Only, In
    <3>2. InUse' BY <1>1, <2>8 DEF InUse
    <3> QED BY <1>5, <2>1, <2>3, <2>4, <2>9, <3>1, <3>2 DEF SendInv, SvpSend, Kept
  <2>11. H'.t = "send" BY <1>5, <2>4
  <2> QED BY <1>1, <1>8, <2>3, <2>4, <2>5, <2>6, <2>7, <2>8, <2>9, <2>10, <2>11, StartTurn
<1>9. CASE conn.alive /\ ~need /\ begin
  <2>2. todo' = <<g>> \o Tail(todo) /\ conn' = c
    <3>1. Then(<< >> \o <<g>>) BY <1>3, <1>9 DEF If
    <3> QED BY <1>3, <1>9, <3>1 DEF Then
  <2>3. Kept(conn') /\ conn'.op = "none" BY <1>4, <1>9, <2>2
  <2> DEFINE N == {g}
  <2>4. /\ Sound(todo') /\ todo' # << >> /\ H' = g
        /\ All(todo') = N \cup Rest /\ Truthful(todo')
    <3>2. Truthful(todo) BY <1>9, TypesOf
    <3> QED BY <1>1, <1>2, <1>5, <2>2, <3>2, Replace DEF Awaits, Works
  <2>5. \A k \in N : k.t = "begin" BY <1>5
  <2> HIDE DEF N
  <2>6. Turned(N)
    <3>1. H' \in N BY <2>4 DEF N
    <3> QED BY <1>1, <1>2, <2>3, <2>4, <2>5, <3>1 DEF Turned, SameSrv, Kept
  <2>7. BaseInv'
    <3>1. \A k \in N : k.t \notin HandleTasks /\ Under(k.t) = {} BY <2>5 DEF HandleTasks, Under
    <3>3. Gone' BY <1>6, <1>9 DEF Gone
    <3> QED BY <1>6, <2>4, <2>6, <3>1, <3>3, TurnedBase
  <2>11. H'.t = "begin" /\ SendInv' BY <1>5, <2>4 DEF SendInv, Top, H
  <2> QED BY <1>1, <1>9, <2>3, <2>4, <2>5, <2>6, <2>7, <2>11, StartTurn
<1>10. CASE conn.alive /\ ~need /\ ~begin
  <2>1. todo' = Tail(todo) /\ conn' = c
    <3>1. Then(<< >> \o << >>) BY <1>3, <1>10 DEF If
    <3>2. << >> \o << >> = << >> OBVIOUS
    <3>3. Tail(todo) \in Seq(Tasks) BY <1>1, HeadTailProperties DEF Sound
    <3>4. todo' = << >> \o Tail(todo) BY <3>1, <3>2 DEF Then
    <3> QED BY <1>3, <1>10, <3>3, <3>4, NoCat
  <2>2. Kept(conn') /\ conn'.op = "none" BY <1>4, <1>10, <2>1
  <2> HIDE DEF c, need, begin
  <2>3. BaseInv' /\ All(todo') = Rest
    <3>1. Gone' BY <1>6, <1>10 DEF Gone
    <3>2. curs' \in [Handles -> Cursors] BY <1>1, TypesOf
    <3> QED BY <1>1, <1>6, <2>1, <2>2, <3>1, <3>2, PoppedConn DEF Kept
  <2>4. PoppedOnly BY <1>1, <2>1, <2>2 DEF PoppedOnly, Marks, Calls, Kept
  <2>5. Mirrors /\ Mirrors' BY <1>1, <1>10, <2>2, Settled DEF Mirrors, Matches, Kept
  <2>6. /\ conn.svp \/ conn.manual => conn.inTrans
        /\ srv.st # "IDLE" /\ ~conn.manual => NewTrans
    BY <1>10, LiveParts DEF StatusInv
  <2>7. srv.st # "IDLE" /\ ~conn'.manual => \E k \in Rest : k.t = "exec_end" /\ "was_in" \notin k.f
    BY <1>1, <1>2, <2>2, <2>6 DEF NewTrans, Kept
  <2>8. discardp # << >> => conn'.err
    BY <1>2, <1>10, <2>2, LiveParts DEF DiscInv, Busy, Chores, Discs, Clears, Kept
  <2>9. ~Top("moved")' /\ ~Top("svp_sent")' BY <1>1, <1>2, <2>1, Pop DEF Top, H
  <2> HIDE DEF Mirrors
  <2>10. LiveInv' BY <1>1, <1>2, <1>10, <2>2, <2>4, <2>5, <2>6, <2>7, <2>8, <2>9, PoppedLive DEF Kept
  <2> QED BY <2>3, <2>10 DEF IInv
<1> QED BY <1>7, <1>8, <1>9, <1>10
LEMMA SoundTail ==
  ASSUME NEW s, Sound(s), s # << >>
  PROVE  /\ Sound(Tail(s)) /\ Head(s) \in Tasks /\ All(s) = {Head(s)} \cup All(Tail(s))
         /\ \A k \in All(Tail(s)) : k.t \in Lower(Head(s).t)
BY SoundParts, OrderedRest, AnsweredRest, HeadTailProperties DEF Sound

\* The statement goes on, or it ends because there is no connection.
LEMMA SvpSentStep ==
  ASSUME IInv, SvpSent
  PROVE  IInv'
<1>1. /\ todo # << >> /\ H.t = "svp_sent" /\ BaseInv /\ Sound(todo) /\ StackInv
      /\ conn \in Conns /\ UNCHANGED <<srv, curs, discardp, ret, last>> /\ Gone
      /\ ret \in {"ok", "error"}
      /\ conn' = [conn EXCEPT !.op = "none"]
      /\ todo' = IF ret = "ok" THEN Tail(todo) ELSE Tail(Tail(Tail(todo)))
  BY TypesOf DEF SvpSent, Top, H
<1>2. /\ All(todo) = {H} \cup Rest
      /\ \A k \in Rest : k.t \in {"exec_ext", "exec_end", "stmt_end"}
      /\ In("exec_ext") /\ In("exec_end") /\ In("stmt_end")
      /\ ~Busy /\ ~conn.committing /\ conn.op = "none"
  BY <1>1, StartFacts
<1>3. conn' = conn BY <1>1, <1>2 DEF Conns
<1>4. CASE ret = "ok"
  <2>1. todo' = Tail(todo) BY <1>1, <1>4
  <2>2. ~Top("moved")' /\ ~Top("svp_sent")' BY <1>1, <1>2, <2>1, Pop DEF Top, H
  <2> QED BY <1>1, <1>3, <2>1, <2>2, PoppedSame, TypesOf DEF Marks, Calls, LastType
<1>5. CASE ret = "error"
  <2>1. ~conn.alive
    <3> SUFFICES ASSUME conn.alive
                 PROVE  FALSE
      OBVIOUS
    <3>1. H \in All(todo) /\ Top("svp_sent") BY <1>1, <1>2 DEF Top, H
    <3> QED BY <1>1, <1>5, <3>1, LiveParts DEF RetInv, Has
  <2> DEFINE s1 == Tail(todo)
             s2 == Tail(s1)
             s3 == Tail(s2)
  <2>2. Sound(s1) /\ All(s1) = Rest BY <1>1, SoundTail DEF Rest
  <2> HIDE DEF s1
  <2>3. s1 # << >> BY <1>2, <2>2, AllNone DEF In
  <2>4. Sound(s2) /\ All(s1) = {Head(s1)} \cup All(s2) /\ \A k \in All(s2) : k.t \in Lower(Head(s1).t)
    BY <2>2, <2>3, SoundTail
  <2> HIDE DEF s2
  <2>5. Head(s1).t = "exec_ext"
    <3>1. Head(s1).t \in {"exec_ext", "exec_end", "stmt_end"} BY <1>2, <2>2, <2>4
    <3>2. Lower("exec_end") = {"stmt_end"} /\ Lower("stmt_end") = {} BY DEF Lower, Talk, Clears, Discs
    <3>3. PICK k \in Rest : k.t = "exec_ext" BY <1>2 DEF In
    <3> QED BY <2>2, <2>4, <3>1, <3>2, <3>3
  <2>6. PICK m \in All(s2) : m.t = "exec_end" BY <1>2, <2>2, <2>4, <2>5 DEF In
  <2>7. s2 # << >> BY <2>6, AllNone
  <2>8. Sound(s3) /\ All(s2) = {Head(s2)} \cup All(s3) /\ \A k \in All(s3) : k.t \in Lower(Head(s2).t)
    BY <2>4, <2>7, SoundTail
  <2> HIDE DEF s3
  <2>9. \A k \in All(s3) : k.t = "stmt_end"
    <3>1. Head(s2).t \in {"exec_end", "stmt_end"} BY <2>4, <2>5, <2>8 DEF Lower, Talk, Clears, Discs
    <3>2. Lower("exec_end") = {"stmt_end"} /\ Lower("stmt_end") = {} BY DEF Lower, Talk, Clears, Discs
    <3> QED BY <2>8, <3>1, <3>2
  <2>10. todo' = s3 BY <1>1, <1>5 DEF s1, s2, s3
  <2>11. StackInv'
    <3>1. \A k \in All(todo') : k.t \notin HandleTasks /\ Under(k.t) = {} /\ k.t # "on_commit_end"
      BY <2>9, <2>10 DEF HandleTasks, Under
    <3> QED BY <1>2, <1>3, <2>8, <2>10, <3>1, StackNew
  <2>12. TypeOK' /\ Gone' BY <1>1, <1>3, <2>8, <2>10, TypesOf DEF TypeOK, Gone, Sound, LastType
  <2> QED BY <1>3, <2>1, <2>11, <2>12 DEF IInv, BaseInv
<1> QED BY <1>1, <1>4, <1>5
--------------------
(* CC_send_query_append *)
\* A query that takes the place of the task that sends it.
Sends(e) ==
  /\ Top("send") /\ e \in Tasks /\ e.t = "wire" /\ e.q # << >>
  /\ e.f \cap {"failed", "discard_release"} = {}
  /\ todo' = <<e>> \o Tail(todo) /\ UNCHANGED <<srv, curs, discardp, ret, last>>
  /\ Kept(conn') /\ (conn'.op # "none" => conn.inTrans)
LEMMA SendsFacts ==
  ASSUME IInv, conn.alive, NEW e, Sends(e)
  PROVE  /\ todo # << >> /\ H.t = "send" /\ Sound(todo) /\ StackInv /\ All(todo) = {H} \cup Rest
         /\ H \in Tasks /\ H \in All(todo)
         /\ \A k \in Rest : k.t \in Lower("send") /\ k.t \in Ends \cup Chores \cup {"update", "return"}
         /\ Sound(todo') /\ todo' # << >> /\ H' = e /\ Rest' = Rest /\ All(todo') = {e} \cup Rest
         /\ Truthful(todo') /\ Turned({e}) /\ BaseInv'
         /\ \A t : Top(t)' <=> t = "wire"
<1>1. /\ todo # << >> /\ H.t = "send" /\ Sound(todo) /\ StackInv /\ BaseInv /\ Truthful(todo)
  BY TypesOf, LiveParts DEF Sends, Top, H
<1>2. /\ All(todo) = {H} \cup Rest /\ H \in Tasks /\ H \in All(todo)
      /\ \A k \in Rest : k.t \in Lower("send")
  BY <1>1, StackFacts
<1>3. \A k \in Rest : k.t \in Ends \cup Chores \cup {"update", "return"} BY <1>2, Lowers
<1>4. e \in Tasks /\ e.t = "wire" BY DEF Sends
<1>5. \A k \in Rest : k.t \in Lower("wire") BY <1>2 DEF Lower, Talk
<1>6. /\ Sound(todo') /\ todo' # << >> /\ H' = e /\ Rest' = Rest /\ All(todo') = {e} \cup Rest
      /\ Truthful(todo')
  BY <1>1, <1>4, <1>5, Replace DEF Sends, Awaits, Works
<1> DEFINE N == {e}
<1>7. \A k \in N : k.t = "wire" BY <1>4
<1>8. H' \in N BY <1>6
<1> HIDE DEF N
<1>9. Turned(N) BY <1>1, <1>6, <1>7, <1>8 DEF Turned, Sends, SameSrv, Kept, N
<1>10. BaseInv'
  <2>1. \A k \in N : k.t \notin HandleTasks /\ Under(k.t) = {} BY <1>7 DEF HandleTasks, Under
  <2>2. /\ conn' \in Conns /\ srv' \in Servers /\ ret' \in {"ok", "error"} /\ last' \in LastType
        /\ discardp' \in Seq([type : {"s", "p"}, h : Handles \cup {NoHandle}])
    BY TypesOf DEF Sends, Kept
  <2>3. Gone' BY DEF Sends, Kept, Gone
  <2> QED BY <1>6, <1>9, <2>1, <2>2, <2>3, TurnedBase
<1>11. \A t : Top(t)' <=> t = "wire" BY <1>4, <1>6 DEF Top, H
<1> QED BY <1>1, <1>2, <1>3, <1>6, <1>9, <1>10, <1>11 DEF N

LEMMA SendTurn ==
  ASSUME IInv, conn.alive, NEW e, Sends(e), WireInv',
         \A c : c.op = "close" => ((Head(e.q) = c \/ (Tail(e.q) # << >> /\ Head(Tail(e.q)) = c))
                                   <=> (H.q # << >> /\ Head(H.q) = c)),
         \A h \in Handles : ~One(e.q, Fetch(h)),
         IsEnd(H.q) => IsEnd(e.q) \/ ~In("transact_end"),
         One(H.q, Cmd("begin")) => One(e.q, Cmd("begin")) \/ ~(In("request_start") \/ In("exec_ext"))
  PROVE  IInv'
<1> DEFINE N == {e}
<1>1. /\ todo # << >> /\ H.t = "send" /\ Sound(todo) /\ StackInv /\ All(todo) = {H} \cup Rest
      /\ H \in Tasks /\ H \in All(todo)
      /\ \A k \in Rest : k.t \in Ends \cup Chores \cup {"update", "return"}
      /\ Sound(todo') /\ todo' # << >> /\ H' = e /\ Rest' = Rest /\ All(todo') = N \cup Rest
      /\ Truthful(todo') /\ Turned(N) /\ BaseInv' /\ BaseInv
      /\ \A t : Top(t)' <=> t = "wire"
  BY SendsFacts, TypesOf
<1>2. /\ e.t = "wire" /\ e.q # << >> /\ "failed" \notin e.f /\ "discard_release" \notin e.f
      /\ UNCHANGED <<srv, curs, discardp, ret, last>> /\ Kept(conn')
      /\ conn'.op # "none" => conn.inTrans
  BY DEF Sends
<1>3. /\ ~Unsettled /\ Mirrors /\ Matches /\ ~OnQuery /\ LiveInv BY <1>1, Settled, LiveParts
<1>4. \A k \in N : k.t = "wire" BY <1>2
<1> HIDE DEF N
<1>5. ~Unsettled' /\ ~OnQuery' /\ Mirrors' /\ Matches'
  BY <1>1, <1>2, <1>3 DEF Unsettled, OnQuery, Mirrors, Matches, Kept
<1>6. Busy' => Busy BY <1>1, <1>4 DEF Busy, Chores, Discs, Clears
<1>7. StatusInv'
  <2>1. /\ conn.err \/ conn.svp \/ conn.manual => conn.inTrans
        /\ Busy => ~conn.err /\ srv.st # "INERROR"
    BY LiveParts DEF StatusInv
  <2>2. /\ conn'.err \/ conn'.svp \/ conn'.op # "none" \/ conn'.manual => conn'.inTrans
        /\ Busy' => ~conn'.err /\ srv'.st # "INERROR" /\ Matches'
    BY <1>2, <1>5, <1>6, <2>1 DEF Kept
  <2> QED BY <1>1, <1>2, <1>3, <1>5, <2>2, TurnedStatus DEF Kept
<1>8. SvpInv' /\ LevelInv' BY <1>1, <1>3, <1>5, TurnedSvp
<1>9. PermInv' /\ OpenInv' /\ PortInv'
  <2>1. \A k \in N : k.t # "closed" BY <1>4
  <2> QED BY <1>1, <1>2, <1>3, <2>1, TurnedCursors DEF Kept
<1>10. \A c : c.op = "close" => (Pending(c)' <=> Pending(c)) BY <1>1, <1>2 DEF Pending, Top, H
<1>11. CloseInv' /\ IgnInv'
  <2>1. \A k \in N : k.t \notin {"close", "closed", "moved", "close_eof", "commit_send"} BY <1>4
  <2> QED BY <1>1, <1>2, <1>3, <1>10, <2>1, TurnedCloses DEF Kept
<1>12. DiscInv'
  <2>1. \A k \in N : k.t \notin {"discard", "discard_free"} BY <1>4
  <2>2. discardp # << >> => conn.err \/ \E k \in Rest : k.t \in Discs
    BY <1>1, LiveParts DEF DiscInv, Discs
  <2> QED BY <1>1, <1>2, <1>3, <1>10, <2>1, <2>2, TurnedDisc DEF Kept
<1>13. OpeningInv'
  <2>1. Failed1' <=> Failed1 BY <1>1, <1>2, <1>4 DEF Failed1, Top, H
  <2>2. ForStmt => ForStmt' BY <1>1 DEF ForStmt, Only, In
  <2> HIDE DEF Failed1, ForStmt
  <2>3. Top("wire")' /\ H'.q # << >> /\ \A h \in Handles : ~One(H'.q, Fetch(h)) BY <1>1, <1>2
  <2> QED BY <1>1, <1>2, <1>3, <2>1, <2>2, <2>3, TurnedOpening DEF Kept
<1>14. RetInv' /\ ExtInv'
  <2>1. Has("transact_end") /\ Ending => Ending' BY <1>1 DEF Ending, Top, H, Has, In
  <2>2. Beginning /\ (In("request_start") \/ In("exec_ext")) => Beginning' BY <1>1 DEF Beginning, Top, H
  <2>3. \A k \in N : k.t \notin Chores /\ k.t \notin {"svp_sent", "transact_end", "return"}
    BY <1>4 DEF Chores, Discs, Clears
  <2> QED BY <1>1, <1>2, <1>3, <2>1, <2>2, <2>3, TurnedRest DEF Kept
<1>15. TalkInv' BY <1>1 DEF TalkInv, SendInv
<1>16. LiveInv' BY <1>1, <1>7, <1>8, <1>9, <1>11, <1>12, <1>13, <1>14, <1>15, LiveFrom
<1> QED BY <1>1, <1>16 DEF IInv

\* The body of a statement and what a command is sent for, after a step that leaves them alone.
LEMMA BodyKept ==
  ASSUME All(todo) = {H} \cup Rest, All(todo') = {H'} \cup Rest', Rest' = Rest,
         H.t # "exec_end", H'.t # "exec_end", UNCHANGED <<curs, last>>,
         srv'.st = "IDLE" => srv.st = "IDLE", NEW q, Body(q),
         Indices(srv, "user") = {} => Indices(srv', "user") = {},
         \A h \in Handles : srv'.port[h].st = srv.port[h].st,
         \A h \in Handles : srv'.port[h].hold <=> srv.port[h].hold,
         conn'.point => conn.point \/ Head(q).op \notin EndKinds
  PROVE  Body(q)'
<1>1. NewTrans => NewTrans' BY DEF NewTrans
<1>2. CASE \E op \in Kinds : IsOp(q, op)
  <2>1. PICK op \in Kinds : IsOp(q, op) BY <1>2
  <2>2. Head(q).op = op BY <2>1, CmdType DEF IsOp, One, CmdNames
  <2> QED BY <1>1, <2>1, <2>2 DEF Body, IsOp
<1>3. CASE \E h \in Handles, hold \in BOOLEAN : IsOpen(q, h, hold) BY <1>3 DEF Body, IsOpen
<1> QED BY <1>2, <1>3 DEF Body

LEMMA QuickKept ==
  ASSUME Rest' = Rest, UNCHANGED <<curs, discardp>>, srv'.port = srv.port, NEW c
  PROVE  /\ Quick(c)' <=> Quick(c)
         /\ Sure(c)' <=> Sure(c)
         /\ Maybe(c)' <=> Maybe(c)
<1>1. Quick(c)' <=> Quick(c) BY DEF Quick, Only, In
<1>2. Sure(c)' <=> Sure(c) BY DEF Sure
<1>3. Maybe(c)' <=> Maybe(c) BY <1>2 DEF Maybe, Only
<1> QED BY <1>1, <1>2, <1>3
LEMMA Around ==
  ASSUME NEW S, NEW a \in Seq(S), NEW q \in Seq(S), NEW d \in Seq(S)
  PROVE  /\ ((((<< >> \o << >>) \o << >>) \o q) \o << >>) = q
         /\ ((((a \o << >>) \o << >>) \o q) \o << >>) = a \o q
         /\ ((((<< >> \o << >>) \o a) \o q) \o << >>) = a \o q
         /\ ((((<< >> \o a) \o << >>) \o q) \o d) = (a \o q) \o d
<1>1. << >> \o << >> = << >> OBVIOUS
<1>2. << >> \o a = a /\ a \o << >> = a /\ << >> \o q = q /\ q \o << >> = q BY NoCat
<1>3. a \o q \in Seq(S) /\ (a \o q) \o << >> = a \o q BY ConcatProperties, NoCat
<1> QED BY <1>1, <1>2, <1>3

\* The query that is sent.
WireTask(q, f) == [Call("wire") EXCEPT !.q = q, !.f = f]
LEMMA WireTaskIs ==
  ASSUME NEW q \in Seq(Cmds), NEW f \in SUBSET Flags
  PROVE  WireTask(q, f) \in Tasks /\ WireTask(q, f).t = "wire"
         /\ WireTask(q, f).q = q /\ WireTask(q, f).f = f
<1>1. Call("wire") \in Tasks /\ Call("wire").t = "wire" BY CallType DEF TaskNames
<1> DEFINE k == Call("wire")
           k1 == [k EXCEPT !.q = q]
<1> HIDE DEF k
<1>2. k1 \in Tasks /\ k1.t = "wire" /\ k1.q = q BY <1>1, TaskQ DEF k
<1> HIDE DEF k1
<1>3. /\ [k1 EXCEPT !.f = f] \in Tasks /\ [k1 EXCEPT !.f = f].t = "wire"
      /\ [k1 EXCEPT !.f = f].q = q /\ [k1 EXCEPT !.f = f].f = f
  BY <1>2, TaskF
<1> QED BY <1>3 DEF k1, k, WireTask

\* What CC_send_query_append decides.
AddsBegin(k) == "begin" \in k.f /\ ~conn.inTrans
Considers(k) == AddsBegin(k) \/ (conn.inTrans /\ ~conn.err) \/ Head(k.q).op = "begin"
AddsQuery(k) == "rollback_on_error" \in k.f /\ Considers(k) /\ "end_with_commit" \notin k.f
Protects(k) == ~AddsQuery(k) /\ Considers(k) /\ "stmt" \in k.f
               /\ "end_with_commit" \notin k.f /\ ~conn.point
Protected(k) == IF Protects(k) THEN SetSvp(Head(k.q), "read_only" \in k.f, "inner" \in k.f) ELSE conn
Prepends(k) == Protected(k).op = "prepend" /\ ~AddsBegin(k) /\ ~AddsQuery(k)
WireFlags(k) == (k.f \cap {"ignore_abort"}) \cup
                (IF AddsQuery(k) THEN {"query_rollback", "discard_svp"} ELSE {})
LEMMA SendQueryIs ==
  ASSUME SendQuery, conn.alive
  PROVE  /\ Top("send") /\ UNCHANGED <<srv, curs, discardp, ret, last>>
         /\ conn' = IF Prepends(H) THEN [Protected(H) EXCEPT !.op = "savepoint"] ELSE Protected(H)
         /\ todo' = <<WireTask(((((IF AddsBegin(H) THEN <<Cmd("begin")>> ELSE << >>)
                                \o (IF AddsQuery(H) THEN <<SvpCmd("savepoint", "query")>> ELSE << >>))
                                \o (IF Prepends(H) THEN InternalSavepoint(Protected(H)) ELSE << >>))
                                \o H.q)
                                \o (IF AddsQuery(H) THEN <<SvpCmd("release", "query")>> ELSE << >>),
                               WireFlags(H))>> \o Tail(todo)
<1> USE DEF SendQuery, H, Prepends, Protected, Protects, AddsQuery, Considers, AddsBegin
<1>1. Top("send") /\ UNCHANGED <<srv, curs, discardp, last>> /\ ret' = ret BY Zenon
<1>2. conn' = IF Prepends(H) THEN [Protected(H) EXCEPT !.op = "savepoint"] ELSE Protected(H) BY Zenon
<1>3. todo' = <<WireTask(((((IF AddsBegin(H) THEN <<Cmd("begin")>> ELSE << >>)
                                \o (IF AddsQuery(H) THEN <<SvpCmd("savepoint", "query")>> ELSE << >>))
                                \o (IF Prepends(H) THEN InternalSavepoint(Protected(H)) ELSE << >>))
                                \o H.q)
                                \o (IF AddsQuery(H) THEN <<SvpCmd("release", "query")>> ELSE << >>),
                               WireFlags(H))>> \o Tail(todo)
  BY Zenon DEF WireTask, WireFlags, If, Then
<1> QED BY <1>1, <1>2, <1>3, Zenon
LEMMA FetchType ==
  ASSUME NEW h \in Handles
  PROVE  /\ Fetch(h) \in Cmds /\ Fetch(h).op = "fetch" /\ Fetch(h).h = h
         /\ CloseIt(h) \in Cmds /\ CloseIt(h).op = "close" /\ CloseIt(h).h = h
<1>1. "fetch" \in CmdNames /\ "close" \in CmdNames BY DEF CmdNames
<1>2. CursCmd("fetch", h) \in Cmds /\ CursCmd("fetch", h).op = "fetch" /\ CursCmd("fetch", h).h = h
  BY <1>1, CursCmdType
<1>3. CursCmd("close", h) \in Cmds /\ CursCmd("close", h).op = "close" /\ CursCmd("close", h).h = h
  BY <1>1, CursCmdType
<1> QED BY <1>2, <1>3 DEF Fetch, CloseIt

LEMMA ProtectedIs ==
  ASSUME conn \in Conns, NEW k
  PROVE  /\ Kept(Protected(k))
         /\ \/ Protected(k).op = conn.op
            \/ /\ Protected(k).op = "prepend" /\ Protects(k)
               /\ ~conn.err /\ conn.inTrans /\ ~conn.point /\ StmtType(Head(k.q)) = "other"
<1> DEFINE ro == "read_only" \in k.f
           inner == "inner" \in k.f
           d == SetSvp(Head(k.q), ro, inner)
<1>1. ro \in BOOLEAN /\ inner \in BOOLEAN OBVIOUS
<1> HIDE DEF ro, inner
<1>2. /\ Kept(d)
      /\ d.op = conn.op \/ (d.op = "prepend" /\ ~conn.err /\ conn.inTrans /\ ~conn.point
                            /\ StmtType(Head(k.q)) = "other")
  BY <1>1, SetSvpIs
<1>3. Protected(k) = IF Protects(k) THEN d ELSE conn BY Zenon DEF Protected, d, ro, inner
<1> HIDE DEF d
<1> QED BY <1>2, <1>3, KeptSelf

\* Nothing is put around the query.
LEMMA SendPlain ==
  ASSUME IInv, SendQuery, conn.alive, H.q # << >>,
         ~AddsBegin(H), ~AddsQuery(H), ~Prepends(H), Protected(H).op # "none" => conn.inTrans
  PROVE  \E e \in Tasks : /\ Sends(e) /\ e.q = H.q /\ e.f = H.f \cap {"ignore_abort"}
                          /\ conn' = Protected(H)
<1> DEFINE f == WireFlags(H)
           q == H.q
           e == WireTask(q, f)
<1>1. /\ Top("send") /\ UNCHANGED <<srv, curs, discardp, ret, last>> /\ conn' = Protected(H)
      /\ todo' = <<WireTask((((( << >> \o << >>) \o << >>) \o H.q) \o << >>), WireFlags(H))>> \o Tail(todo)
  BY SendQueryIs
<1>2. H \in Tasks /\ q \in Seq(Cmds) /\ H.f \in SUBSET Flags
  BY <1>1, TypesOf, StackFacts, TaskFields DEF Top
<1>3. f = H.f \cap {"ignore_abort"} /\ f \in SUBSET Flags BY <1>2 DEF WireFlags
<1> HIDE DEF f
<1>4. e \in Tasks /\ e.t = "wire" /\ e.q = q /\ e.f = f BY <1>2, <1>3, WireTaskIs
<1>5. todo' = <<e>> \o Tail(todo)
  <2>1. ((((<< >> \o << >>) \o << >>) \o q) \o << >>) = q BY <1>2, Around
  <2> QED BY <1>1, <2>1 DEF f
<1>6. Kept(conn') BY <1>1, TypesOf, ProtectedIs
<1> HIDE DEF e
<1>7. e.f \cap {"failed", "discard_release"} = {} BY <1>3, <1>4
<1>8. Sends(e) BY <1>1, <1>4, <1>5, <1>6, <1>7 DEF Sends
<1> QED BY <1>1, <1>3, <1>4, <1>8

\* The driver's own SAVEPOINT, sent by itself.
LEMMA SvpSendStep ==
  ASSUME IInv, SendQuery, conn.alive, conn.op # "none"
  PROVE  IInv'
<1>1. Top("send") /\ SvpSend /\ todo # << >> /\ ~OnQuery
  BY LiveParts, Settled DEF SendQuery, TalkInv, SendInv, Top, H
<1>2. /\ H.f = {} /\ H.q = InternalSavepoint(conn) /\ ForSvp /\ InUse
      /\ conn.op = "savepoint" /\ ~conn.point
  BY <1>1 DEF SvpSend
<1> DEFINE q == H.q
           sp == SvpCmd("savepoint", "exec")
           rl == SvpCmd("release", "exec")
<1>3. /\ q \in Seq(Cmds) /\ q # << >>
      /\ conn.svp => Head(q) = rl /\ One(Tail(q), sp)
      /\ ~conn.svp => One(q, sp)
  BY <1>2, InternalSavepointIs
<1>4. /\ sp.op = "savepoint" /\ rl.op = "release" BY SvpCmdType DEF CmdNames, Kinds, Svps
<1> HIDE DEF sp, rl
<1>5. ~AddsBegin(H) /\ ~AddsQuery(H) /\ ~Protects(H) BY <1>2 DEF AddsBegin, AddsQuery, Protects
<1>6. Protected(H) = conn BY <1>5 DEF Protected
<1>7. ~Prepends(H) /\ conn.inTrans
  <2>1. conn.inTrans BY <1>2, LiveParts DEF StatusInv
  <2> QED BY <1>2, <1>6, <2>1 DEF Prepends
<1>8. PICK e \in Tasks : Sends(e) /\ e.q = q /\ e.f = {} /\ conn' = conn
  BY <1>2, <1>3, <1>5, <1>6, <1>7, SendPlain
<1>9. /\ todo' # << >> /\ H' = e /\ Rest' = Rest /\ UNCHANGED srv BY <1>8, SendsFacts DEF Sends
<1>10. WireInv'
  <2>1. SvpWire'
    <3>1. \A r : One(r, sp) => SvpQuery(r)' BY <1>2, <1>9 DEF SvpQuery, One, After, ForSvp, Only, In, sp
    <3> QED BY <1>2, <1>3, <1>8, <1>9, <3>1 DEF SvpWire, InUse, rl
  <2> QED BY <1>2, <1>3, <1>8, <1>9, <2>1 DEF WireInv
<1>11. \A c : c.op = "close" => /\ ~(Head(e.q) = c \/ (Tail(e.q) # << >> /\ Head(Tail(e.q)) = c))
                               /\ ~(H.q # << >> /\ Head(H.q) = c)
  BY <1>3, <1>4, <1>8 DEF One
<1>12. \A h \in Handles : ~One(q, Fetch(h)) BY <1>3, <1>4, FetchType DEF One
<1>13. ~IsEnd(q) /\ ~One(q, Cmd("begin")) BY <1>3, <1>4, CmdType DEF One, IsEnd, CmdNames, Kinds
<1> QED BY <1>8, <1>10, <1>11, <1>12, <1>13, SendTurn
\* A BEGIN, COMMIT or ROLLBACK by itself.
LEMMA BoundarySendStep ==
  ASSUME IInv, SendQuery, conn.alive, conn.op = "none", BeginSend \/ EndSend
  PROVE  IInv'
<1>1. Top("send") /\ todo # << >> /\ ~OnQuery BY Settled DEF SendQuery, Top, H
<1> DEFINE q == H.q
<1>2. PICK op \in {"begin", "commit", "rollback"} : One(q, Cmd(op)) BY DEF BeginSend, EndSend, IsEnd
<1>3. Cmd(op).op = op /\ Cmd("begin").op = "begin" /\ q # << >> BY <1>2, CmdType DEF CmdNames, Kinds, One
<1>4. H.f = {} /\ ~AddsBegin(H) /\ ~AddsQuery(H) /\ ~Protects(H)
  BY DEF BeginSend, EndSend, AddsBegin, AddsQuery, Protects
<1>5. Protected(H) = conn BY <1>4 DEF Protected
<1>6. ~Prepends(H) BY <1>5 DEF Prepends
<1>7. PICK e \in Tasks : Sends(e) /\ e.q = q /\ e.f = {} /\ conn' = conn
  BY <1>3, <1>4, <1>5, <1>6, SendPlain
<1>8. /\ todo' # << >> /\ H' = e /\ Rest' = Rest BY <1>7, SendsFacts
<1>9. WireInv'
  <2>1. SoloWire'
    <3>1. CASE BeginSend BY <1>4, <1>7, <1>8, <3>1 DEF SoloWire, NoQuery, BeginSend, ForBegin, Only, One
    <3>2. CASE EndSend BY <1>4, <1>7, <1>8, <3>2 DEF SoloWire, NoQuery, EndSend, IsEnd, ForEnd, Only, One
    <3> QED BY <3>1, <3>2
  <2> QED BY <1>3, <1>7, <1>8, <2>1 DEF WireInv
<1>10. \A c : c.op = "close" => /\ ~(Head(e.q) = c \/ (Tail(e.q) # << >> /\ Head(Tail(e.q)) = c))
                                /\ ~(H.q # << >> /\ Head(H.q) = c)
  BY <1>2, <1>3, <1>7 DEF One
<1>11. \A h \in Handles : ~One(q, Fetch(h)) BY <1>2, <1>3, FetchType DEF One
<1> QED BY <1>7, <1>9, <1>10, <1>11, SendTurn

\* The commands of the connection's own work.
LEMMA QuickIs ==
  ASSUME NEW c, Quick(c)
  PROVE  c.op \in {"deallocate", "close", "move"}
<1>1. CASE c = Cmd("deallocate") BY <1>1, CmdType DEF CmdNames
<1>2. ASSUME NEW h, c = CloseIt(h)
      PROVE  c.op = "close"
  BY <1>2 DEF CloseIt, CursCmd, Cmd
<1>3. ASSUME NEW h, c = CursCmd("move", h)
      PROVE  c.op = "move"
  BY <1>3 DEF CursCmd, Cmd
<1> QED BY <1>1, <1>2, <1>3 DEF Quick

\* A cursor that may be lost is only closed inside a transaction.
LEMMA MaybeSure ==
  ASSUME IInv, conn.alive, todo # << >>, NEW c, Maybe(c), ~Unsettled, ~conn.committing, srv.st = "IDLE"
  PROVE  Sure(c)
<1> SUFFICES ASSUME NEW k \in Rest, k.t = "closed", k.h = c.h, curs[k.h].doubt, ~curs[k.h].hold,
                    k \in All(todo), k.h \in Handles
             PROVE  FALSE
  <2>1. Rest \subseteq All(todo) BY TypesOf, StackFacts
  <2> QED BY <2>1, TypesOf DEF Maybe, StackInv, HandleTasks
<1>1. curs[k.h].open BY LiveParts DEF CloseInv
<1>2. ~curs[k.h].perm BY <1>1, LiveParts DEF PermInv
<1> QED BY <1>1, <1>2, LiveParts DEF OpenInv
\* A CLOSE, MOVE or DEALLOCATE, protected by a savepoint if it may fail a transaction.
LEMMA QuickSendStep ==
  ASSUME IInv, SendQuery, conn.alive, conn.op = "none", QuickSend
  PROVE  IInv'
<1>1. /\ Top("send") /\ todo # << >> /\ H.t = "send" /\ ~OnQuery /\ ~Unsettled /\ Mirrors /\ Matches
      /\ H \in Tasks /\ H.f \in SUBSET Flags
  BY Settled, TypesOf, StackFacts, TaskFields DEF SendQuery, Top, H
<1> DEFINE q == H.q
<1>2. PICK c \in Cmds : /\ One(q, c) /\ Quick(c)
                        /\ IF {"rollback_on_error", "ignore_abort"} \subseteq H.f
                           THEN Maybe(c) ELSE "rollback_on_error" \notin H.f /\ Sure(c)
  BY DEF QuickSend
<1>3. H.f \subseteq {"rollback_on_error", "ignore_abort", "read_only"} /\ ~conn.err BY DEF QuickSend
<1>4. c.op \in {"deallocate", "close", "move"} /\ q # << >> /\ Head(q) = c /\ Tail(q) = << >>
  BY <1>2, QuickIs DEF One
<1>5. /\ ~AddsBegin(H) /\ ~Protects(H)
      /\ AddsQuery(H) <=> "rollback_on_error" \in H.f /\ conn.inTrans
  BY <1>3, <1>4 DEF AddsBegin, AddsQuery, Protects, Considers
<1>6. Protected(H) = conn BY <1>5 DEF Protected
<1>7. ~Prepends(H) BY <1>6 DEF Prepends
<1>8. srv.st \in StNames BY TypesOf, ServerFields
<1>9. conn.inTrans => InUse BY <1>1, <1>3, <1>8 DEF Mirrors, Matches, InUse, StNames
<1>10. ~IsEnd(q) /\ ~One(q, Cmd("begin")) BY <1>4, CmdType DEF One, IsEnd, CmdNames, Kinds
<1>11. CASE ~AddsQuery(H)
  <2>1. PICK e \in Tasks : /\ Sends(e) /\ e.q = q /\ e.f = H.f \cap {"ignore_abort"} /\ conn' = conn
    BY <1>4, <1>5, <1>6, <1>7, <1>11, SendPlain
  <2>2. /\ todo' # << >> /\ H' = e /\ Rest' = Rest /\ UNCHANGED <<srv, curs, discardp>>
    BY <2>1, SendsFacts DEF Sends
  <2>3. Sure(c)
    <3>1. CASE {"rollback_on_error", "ignore_abort"} \subseteq H.f
      <4>1. ~conn.inTrans /\ srv.st = "IDLE" /\ Maybe(c) BY <1>1, <1>2, <1>5, <1>11, <3>1 DEF Matches
      <4>2. CASE conn.committing
        <5>1. In("on_commit_end") BY <1>1, <4>2, TypesOf, RestCommit
        <5>2. ~Only(Ends) BY <5>1 DEF Only, In, Ends
        <5> QED BY <4>1, <5>2 DEF Maybe
      <4> QED BY <1>1, <4>1, <4>2, MaybeSure
    <3> QED BY <1>2, <3>1
  <2>4. Quick(c)' /\ Sure(c)' BY <1>2, <2>2, <2>3, QuickKept
  <2>5. SoloWire'
    <3>1. NoQuery' BY <2>1, <2>2 DEF NoQuery
    <3>2. One(H'.q, c) BY <1>2, <2>1, <2>2
    <3>3. ~conn'.err BY <1>3, <2>1
    <3> QED BY <2>4, <3>1, <3>2, <3>3 DEF SoloWire
  <2>6. WireInv' BY <1>4, <2>1, <2>2, <2>5 DEF WireInv
  <2>7. \A d : d.op = "close" => ((Head(e.q) = d \/ (Tail(e.q) # << >> /\ Head(Tail(e.q)) = d))
                                  <=> (H.q # << >> /\ Head(H.q) = d))
    BY <1>4, <2>1
  <2>8. \A h \in Handles : ~One(e.q, Fetch(h)) BY <1>4, <2>1, FetchType DEF One
  <2> QED BY <1>10, <2>1, <2>6, <2>7, <2>8, SendTurn
<1>12. CASE AddsQuery(H)
  <2> DEFINE sv == SvpCmd("savepoint", "query")
             rl == SvpCmd("release", "query")
             w == (<<sv>> \o q) \o <<rl>>
             f == WireFlags(H)
             e == WireTask(w, f)
  <2>1. /\ sv \in Cmds /\ sv.op = "savepoint" /\ rl \in Cmds /\ rl.op = "release" /\ q \in Seq(Cmds)
    BY <1>1, SvpCmdType, TaskFields DEF CmdNames, Kinds, Svps
  <2>2. w \in Seq(Cmds) /\ w # << >> /\ Head(w) = sv /\ Two(Tail(w), c, rl)
    <3> HIDE DEF sv, rl
    <3> DEFINE d == <<rl>>
    <3>1. d \in Seq(Cmds) /\ d # << >> /\ Head(d) = rl /\ Tail(d) = << >> BY <2>1
    <3> HIDE DEF d
    <3>2. q = <<c>>
      <4>1. q = <<c>> \o << >> BY <1>4, <2>1, HeadRest
      <4> QED BY <4>1, NoCat
    <3>3. <<c>> \o d \in Seq(Cmds) BY <3>1, Cons
    <3>4. w = <<sv>> \o (<<c>> \o d)
      <4> DEFINE a == <<sv>>
      <4>1. a \in Seq(Cmds) BY <2>1
      <4> HIDE DEF a, q
      <4>2. (a \o q) \o d = a \o (q \o d) BY <2>1, <3>1, <4>1, ConcatAssociative
      <4> QED BY <3>2, <4>2 DEF a, d
    <3>5. <<c>> \o d # << >> /\ Head(<<c>> \o d) = c /\ Tail(<<c>> \o d) = d BY <3>1, Cons
    <3> DEFINE r == <<c>> \o d
    <3> HIDE DEF r
    <3>6. <<sv>> \o r \in Seq(Cmds) /\ <<sv>> \o r # << >> /\ Head(<<sv>> \o r) = sv /\ Tail(<<sv>> \o r) = r
      BY <2>1, <3>3, Cons DEF r
    <3>7. w = <<sv>> \o r BY <3>4 DEF r
    <3> HIDE DEF w
    <3> QED BY <3>1, <3>5, <3>6, <3>7 DEF Two, One, r
  <2>3. /\ f = (H.f \cap {"ignore_abort"}) \cup {"query_rollback", "discard_svp"}
        /\ f \in SUBSET Flags
    BY <1>1, <1>12 DEF WireFlags, Flags
  <2>4. /\ todo' = <<e>> \o Tail(todo) /\ conn' = conn /\ UNCHANGED <<srv, curs, discardp, ret, last>>
    <3>1. /\ UNCHANGED <<srv, curs, discardp, ret, last>> /\ conn' = Protected(H)
          /\ todo' = <<WireTask((((( << >> \o <<sv>>) \o << >>) \o H.q) \o <<rl>>), WireFlags(H))>>
                     \o Tail(todo)
      BY <1>5, <1>7, <1>12, SendQueryIs
    <3> HIDE DEF sv, rl
    <3>2. <<sv>> \in Seq(Cmds) /\ <<rl>> \in Seq(Cmds) BY <2>1
    <3>3. ((((<< >> \o <<sv>>) \o << >>) \o q) \o <<rl>>) = w BY <2>1, <3>2, Around
    <3> QED BY <1>6, <3>1, <3>3
  <2> HIDE DEF w, f, sv, rl
  <2>5. e \in Tasks /\ e.t = "wire" /\ e.q = w /\ e.f = f BY <2>2, <2>3, WireTaskIs
  <2> HIDE DEF e
  <2>6. Kept(conn') BY <2>4, TypesOf, KeptSelf
  <2>7. Sends(e) BY <1>1, <2>2, <2>3, <2>4, <2>5, <2>6 DEF Sends
  <2>8. /\ todo' # << >> /\ H' = e /\ Rest' = Rest BY <2>7, SendsFacts
  <2>9. Quick(c) /\ Maybe(c) /\ "ignore_abort" \in H.f BY <1>2, <1>5, <1>12 DEF Maybe
  <2>10. Quick(c)' /\ Maybe(c)' /\ InUse' BY <1>5, <1>9, <1>12, <2>4, <2>8, <2>9, QuickKept DEF InUse
  <2>11. QueryWire'
    <3>1. /\ Head(H'.q) = sv /\ Two(Tail(H'.q), c, rl)
          /\ {"query_rollback", "ignore_abort"} \subseteq H'.f /\ "discard_svp" \in H'.f
          /\ "discard_release" \notin H'.f
      BY <2>2, <2>3, <2>5, <2>8, <2>9
    <3> QED BY <2>10, <3>1 DEF QueryWire, sv, rl
  <2>12. WireInv' BY <2>2, <2>3, <2>4, <2>5, <2>8, <2>11 DEF WireInv
  <2>13. \A d : d.op = "close" => ((Head(e.q) = d \/ (Tail(e.q) # << >> /\ Head(Tail(e.q)) = d))
                                   <=> (H.q # << >> /\ Head(H.q) = d))
    BY <1>4, <2>1, <2>2, <2>5 DEF Two, sv
  <2>14. \A h \in Handles : ~One(e.q, Fetch(h)) BY <2>1, <2>2, <2>5, FetchType DEF One, sv
  <2> QED BY <1>10, <2>7, <2>12, <2>13, <2>14, SendTurn
<1> QED BY <1>11, <1>12
\* A statement is neither a CLOSE nor a single FETCH.
LEMMA BodyIs ==
  ASSUME NEW q, Body(q)
  PROVE  /\ q # << >> /\ Head(q) \in Cmds /\ Head(q).op \in Kinds \cup {"declare"}
         /\ \A c : c.op = "close" => ~(Head(q) = c \/ (Tail(q) # << >> /\ Head(Tail(q)) = c))
         /\ \A h \in Handles : ~One(q, Fetch(h))
<1>1. CASE \E op \in Kinds : IsOp(q, op)
  <2>1. PICK op \in Kinds : One(q, Cmd(op)) BY <1>1 DEF IsOp
  <2>2. Cmd(op) \in Cmds /\ Cmd(op).op = op BY CmdType DEF CmdNames
  <2>3. op \notin {"close", "fetch"} BY DEF Kinds
  <2>4. \A h \in Handles : ~One(q, Fetch(h)) BY <2>1, <2>2, <2>3, FetchType DEF One
  <2> QED BY <2>1, <2>2, <2>3, <2>4 DEF One
<1>2. CASE \E h \in Handles, hold \in BOOLEAN : IsOpen(q, h, hold)
  <2>1. PICK h \in Handles, hold \in BOOLEAN : Two(q, Declare(h, hold), Fetch(h)) BY <1>2 DEF IsOpen
  <2>2. Declare(h, hold) \in Cmds /\ Declare(h, hold).op = "declare" /\ Fetch(h).op = "fetch"
    BY DeclareType, FetchType
  <2>3. \A g \in Handles : Fetch(g).op = "fetch" BY FetchType
  <2> QED BY <2>1, <2>2, <2>3 DEF Two, One
<1> QED BY <1>1, <1>2 DEF Body

\* What stands under a statement.
LEMMA ForStmtIs ==
  ASSUME ForStmt
  PROVE  ~In("transact_end") /\ ~In("request_start") /\ ~In("exec_ext")
BY DEF ForStmt, Only, In

\* A statement, with the BEGIN or the internal savepoint it needs.
LEMMA StmtSendStep ==
  ASSUME IInv, SendQuery, conn.alive, conn.op = "none", StmtSend
  PROVE  IInv'
<1>1. /\ Top("send") /\ todo # << >> /\ H.t = "send" /\ ~OnQuery /\ Mirrors /\ Matches
      /\ H \in Tasks /\ H.f \in SUBSET Flags /\ H.q \in Seq(Cmds) /\ All(todo) = {H} \cup Rest
      /\ conn \in Conns
  BY Settled, TypesOf, StackFacts, TaskFields DEF SendQuery, Top, H
<1>q. PICK q : q = H.q OBVIOUS
<1> DEFINE c == Protected(H)
<1>2. /\ "stmt" \in H.f /\ H.f \cap {"rollback_on_error", "ignore_abort", "end_with_commit"} = {}
      /\ ForStmt /\ Body(q) /\ ~conn.point
      /\ IF "begin" \in H.f THEN ~conn.inTrans ELSE Inside(q)
  BY <1>q DEF StmtSend
<1>3. /\ q # << >> /\ Head(q) \in Cmds /\ Head(q).op \in Kinds \cup {"declare"}
      /\ \A d : d.op = "close" => ~(Head(q) = d \/ (Tail(q) # << >> /\ Head(Tail(q)) = d))
      /\ \A h \in Handles : ~One(q, Fetch(h))
  BY <1>2, BodyIs
<1>4. ~AddsQuery(H) /\ (AddsBegin(H) <=> "begin" \in H.f) BY <1>2 DEF AddsQuery, AddsBegin
<1>5. /\ Kept(c)
      /\ c.op = "none" \/ (/\ c.op = "prepend" /\ ~conn.err /\ conn.inTrans /\ ~conn.point
                           /\ StmtType(Head(q)) = "other")
  BY <1>1, <1>q, ProtectedIs
<1> HIDE DEF c
<1>6. Prepends(H) <=> c.op = "prepend" BY <1>2, <1>4, <1>5 DEF Prepends, c
<1>7. ~In("transact_end") /\ ~In("request_start") /\ ~In("exec_ext") BY <1>2, ForStmtIs
<1>8. ASSUME NEW e, Sends(e)
      PROVE  /\ todo' # << >> /\ H' = e /\ Rest' = Rest /\ UNCHANGED srv
             /\ Body(q)' /\ ForStmt' /\ conn' \in Conns /\ Kept(conn')
  <2>1. /\ todo' # << >> /\ H' = e /\ Rest' = Rest /\ All(todo') = {e} \cup Rest /\ e.t = "wire"
        /\ UNCHANGED <<srv, curs, last>> /\ Kept(conn')
    BY <1>8, SendsFacts DEF Sends
  <2>2. Body(q)' BY <1>1, <1>2, <2>1, BodyKept DEF Kept
  <2> QED BY <1>2, <2>1, <2>2 DEF ForStmt, Only, In, Kept
<1>9. CASE AddsBegin(H)
  <2> DEFINE b == Cmd("begin")
             w == <<b>> \o q
             f == WireFlags(H)
             e == WireTask(w, f)
  <2>1. b \in Cmds /\ b.op = "begin" /\ q \in Seq(Cmds) BY <1>1, <1>q, CmdType DEF CmdNames, Kinds
  <2>2. w \in Seq(Cmds) /\ w # << >> /\ Head(w) = b /\ Tail(w) = q
    <3> HIDE DEF b
    <3> QED BY <2>1, Cons
  <2>3. f = {} /\ f \in SUBSET Flags BY <1>2, <1>4 DEF WireFlags
  <2>4. ~conn.inTrans /\ c.op = "none" /\ ~Prepends(H) BY <1>5, <1>6, <1>9 DEF AddsBegin
  <2>5. /\ todo' = <<e>> \o Tail(todo) /\ conn' = c /\ UNCHANGED <<srv, curs, discardp, ret, last>>
    <3>1. /\ UNCHANGED <<srv, curs, discardp, ret, last>> /\ conn' = c
          /\ todo' = <<WireTask(((((<<b>> \o << >>) \o << >>) \o H.q) \o << >>), WireFlags(H))>>
                     \o Tail(todo)
      BY <1>4, <1>9, <2>4, SendQueryIs DEF c
    <3> HIDE DEF b
    <3>2. <<b>> \in Seq(Cmds) BY <2>1
    <3>3. ((((<<b>> \o << >>) \o << >>) \o q) \o << >>) = w BY <2>1, <3>2, Around
    <3> QED BY <1>q, <3>1, <3>3
  <2> HIDE DEF w, f, b
  <2>6. e \in Tasks /\ e.t = "wire" /\ e.q = w /\ e.f = f BY <2>2, <2>3, WireTaskIs
  <2> HIDE DEF e
  <2>7. Sends(e) BY <1>1, <1>5, <2>2, <2>3, <2>4, <2>5, <2>6 DEF Sends
  <2>8. /\ todo' # << >> /\ H' = e /\ Rest' = Rest /\ Body(q)' /\ ForStmt' BY <1>8, <2>7
  <2>9. BeginWire' BY <1>5, <2>2, <2>3, <2>4, <2>5, <2>6, <2>8 DEF BeginWire, Kept, b
  <2>10. WireInv' BY <2>2, <2>3, <2>4, <2>5, <2>6, <2>8, <2>9 DEF WireInv
  <2>11. \A d : d.op = "close" => /\ ~(Head(e.q) = d \/ (Tail(e.q) # << >> /\ Head(Tail(e.q)) = d))
                                  /\ ~(H.q # << >> /\ Head(H.q) = d)
    BY <1>q, <1>3, <2>1, <2>2, <2>6 DEF b
  <2>12. \A h \in Handles : ~One(e.q, Fetch(h)) BY <2>1, <2>2, <2>6, FetchType DEF One, b
  <2> QED BY <1>7, <2>7, <2>10, <2>11, <2>12, SendTurn
<1>10. CASE ~AddsBegin(H) /\ Prepends(H)
  <2>1. c.op = "prepend" /\ ~conn.err /\ conn.inTrans /\ ~conn.point /\ StmtType(Head(q)) = "other"
    BY <1>5, <1>6, <1>10
  <2> DEFINE sp == SvpCmd("savepoint", "exec")
             rl == SvpCmd("release", "exec")
             i == InternalSavepoint(c)
             w == i \o q
             f == WireFlags(H)
             e == WireTask(w, f)
  <2>2. /\ sp \in Cmds /\ sp.op = "savepoint" /\ rl \in Cmds /\ rl.op = "release" /\ q \in Seq(Cmds)
    BY <1>1, <1>q, SvpCmdType DEF CmdNames, Kinds, Svps
  <2>3. i \in Seq(Cmds) /\ i = IF c.svp THEN <<rl>> \o <<sp>> ELSE <<sp>> BY InternalSavepointIs
  <2> HIDE DEF sp, rl, i
  <2> DEFINE v == <<sp>> \o q
  <2>4. v \in Seq(Cmds) /\ v # << >> /\ Head(v) = sp /\ Tail(v) = q BY <2>2, Cons
  <2>5. /\ w \in Seq(Cmds) /\ w # << >>
        /\ c.svp => Head(w) = rl /\ Tail(w) = v
        /\ ~c.svp => w = v
    <3>1. CASE ~c.svp BY <2>3, <2>4, <3>1
    <3>2. CASE c.svp
      <4> DEFINE a == <<rl>>
                 d == <<sp>>
      <4>1. a \in Seq(Cmds) /\ d \in Seq(Cmds) BY <2>2
      <4> HIDE DEF a, d
      <4>2. (a \o d) \o q = a \o (d \o q) BY <2>2, <4>1, ConcatAssociative
      <4>3. w = <<rl>> \o v BY <2>3, <3>2, <4>2 DEF a, d
      <4> HIDE DEF w, v
      <4>4. <<rl>> \o v \in Seq(Cmds) /\ <<rl>> \o v # << >> /\ Head(<<rl>> \o v) = rl /\ Tail(<<rl>> \o v) = v
        BY <2>2, <2>4, Cons
      <4> QED BY <3>2, <4>3, <4>4
    <3> QED BY <3>1, <3>2
  <2>6. f = {} /\ f \in SUBSET Flags BY <1>2, <1>4 DEF WireFlags
  <2>7. /\ todo' = <<e>> \o Tail(todo) /\ conn' = [c EXCEPT !.op = "savepoint"]
        /\ UNCHANGED <<srv, curs, discardp, ret, last>>
    <3>1. /\ UNCHANGED <<srv, curs, discardp, ret, last>> /\ conn' = [c EXCEPT !.op = "savepoint"]
          /\ todo' = <<WireTask((((( << >> \o << >>) \o i) \o H.q) \o << >>), WireFlags(H))>>
                     \o Tail(todo)
      BY <1>4, <1>10, SendQueryIs DEF c, i
    <3>2. (((( << >> \o << >>) \o i) \o q) \o << >>) = w BY <2>2, <2>3, Around
    <3> QED BY <1>q, <3>1, <3>2
  <2> HIDE DEF w, v, f
  <2>8. e \in Tasks /\ e.t = "wire" /\ e.q = w /\ e.f = f BY <2>5, <2>6, WireTaskIs
  <2> HIDE DEF e
  <2>9. Kept(conn') /\ conn'.op = "savepoint" BY <1>5, <2>7, KeptOp
  <2>10. Sends(e) BY <1>1, <2>1, <2>5, <2>6, <2>7, <2>8, <2>9 DEF Sends
  <2>11. /\ todo' # << >> /\ H' = e /\ Rest' = Rest /\ UNCHANGED srv /\ Body(q)' /\ ForStmt'
    BY <1>8, <2>10
  <2>12. Head(q).op \notin EndKinds BY <2>1 DEF StmtType
  <2>13. InUse'
    <3>1. srv.st \in StNames BY TypesOf, ServerFields
    <3> QED BY <1>1, <2>1, <2>11, <3>1 DEF Mirrors, Matches, InUse, StNames
  <2>14. SvpWire'
    <3>1. SvpQuery(v)' BY <1>3, <2>4, <2>11, <2>12 DEF SvpQuery, After, sp, v
    <3> QED BY <1>5, <2>1, <2>5, <2>6, <2>8, <2>9, <2>11, <2>13, <3>1 DEF SvpWire, Kept, rl
  <2>15. WireInv' BY <2>5, <2>6, <2>8, <2>9, <2>11, <2>14 DEF WireInv
  <2>16. \A d : d.op = "close" => /\ ~(Head(e.q) = d \/ (Tail(e.q) # << >> /\ Head(Tail(e.q)) = d))
                                  /\ ~(H.q # << >> /\ Head(H.q) = d)
    BY <1>q, <1>3, <2>2, <2>4, <2>5, <2>8
  <2>17. \A h \in Handles : ~One(e.q, Fetch(h)) BY <2>2, <2>4, <2>5, <2>8, FetchType DEF One
  <2> QED BY <1>7, <2>10, <2>15, <2>16, <2>17, SendTurn
<1>11. CASE ~AddsBegin(H) /\ ~Prepends(H)
  <2>1. c.op = "none" /\ Inside(q) /\ H.f \cap {"ignore_abort"} = {} BY <1>2, <1>4, <1>5, <1>6, <1>11
  <2>2. PICK e \in Tasks : /\ Sends(e) /\ e.q = q /\ e.f = {} /\ conn' = c
    BY <1>q, <1>3, <1>4, <1>11, <2>1, SendPlain DEF c
  <2>3. /\ todo' # << >> /\ H' = e /\ Rest' = Rest /\ UNCHANGED srv /\ Body(q)' /\ ForStmt' BY <1>8, <2>2
  <2>4. Inside(q)' BY <1>5, <2>1, <2>2, <2>3 DEF Inside, Kept
  <2>5. SoloWire' BY <2>2, <2>3, <2>4 DEF SoloWire, NoQuery
  <2>6. WireInv' BY <1>3, <2>1, <2>2, <2>3, <2>5 DEF WireInv
  <2>7. \A d : d.op = "close" => ((Head(e.q) = d \/ (Tail(e.q) # << >> /\ Head(Tail(e.q)) = d))
                                  <=> (H.q # << >> /\ Head(H.q) = d))
    BY <1>q, <1>3, <2>2
  <2> QED BY <1>q, <1>3, <1>7, <2>2, <2>6, <2>7, SendTurn
<1> QED BY <1>9, <1>10, <1>11

LEMMA SendQueryStep ==
  ASSUME IInv, SendQuery
  PROVE  IInv'
<1>1. CASE ~conn.alive BY <1>1, SendQueryDead
<1>2. CASE conn.alive
  <2>1. conn.op = "none" => StmtSend \/ BeginSend \/ EndSend \/ QuickSend
    BY <1>2, LiveParts DEF TalkInv, SendInv, SendQuery
  <2> QED BY <1>2, <2>1, SvpSendStep, StmtSendStep, BoundarySendStep, QuickSendStep
<1> QED BY <1>1, <1>2
--------------------
(* The end of a query *)
\* What WireDone needs of the query that has ended.
LEMMA DoneFacts ==
  ASSUME IInv, conn.alive, Top("wire"), H.q = << >>
  PROVE  /\ conn.op = "none"
         /\ "failed" \in H.f =>
              /\ Only(Ends) /\ ~In("svp_sent") /\ ~InUse
              /\ "query_rollback" \in H.f =>
                   /\ "discard_release" \in H.f /\ "discard_svp" \notin H.f
                   /\ srv.st = "INERROR" /\ conn.err /\ conn.inTrans /\ ~In("opened")
              /\ "query_rollback" \notin H.f => "discard_release" \notin H.f
              /\ "ignore_abort" \in H.f =>
                   ~In("opened") /\ \A g \in Handles : ~(curs[g].open /\ curs[g].hold)
         /\ "failed" \notin H.f =>
              /\ "discard_release" \notin H.f
              /\ "query_rollback" \in H.f => ~conn.err
<1>1. WireInv /\ (conn.err => conn.inTrans) BY LiveParts DEF TalkInv, StatusInv
<1>2. /\ conn.op = "none"
      /\ IF "failed" \in H.f THEN Failing ELSE Succeeded
  BY <1>1 DEF WireInv
<1> QED BY <1>1, <1>2 DEF Failing, Succeeded, InUse

\* The new record of a query that has ended.
LEMMA IgnoredIs ==
  ASSUME conn \in Conns, NEW b \in BOOLEAN, conn' = [conn EXCEPT !.ignored = b]
  PROVE  /\ conn' \in Conns /\ conn'.op = conn.op
         /\ conn'.alive <=> conn.alive
         /\ conn'.auto <=> conn.auto
         /\ conn'.inTrans <=> conn.inTrans
         /\ conn'.manual <=> conn.manual
         /\ conn'.err <=> conn.err
         /\ conn'.svp <=> conn.svp
         /\ conn'.point <=> conn.point
         /\ conn'.committing <=> conn.committing
         /\ conn'.ignored <=> b
BY Zenon DEF Conns

LEMMA WireDoneLive ==
  ASSUME IInv, conn.alive, Top("wire"), H.q = << >>, NEW N, Turned(N), Sound(todo'), Truthful(todo'),
         BaseInv', UNCHANGED <<srv, curs, discardp, ret, last>>, conn'.op = conn.op,
         conn'.alive <=> conn.alive, conn'.auto <=> conn.auto, conn'.inTrans <=> conn.inTrans,
         conn'.manual <=> conn.manual, conn'.err <=> conn.err, conn'.svp <=> conn.svp,
         conn'.point <=> conn.point,
         conn'.ignored <=> conn.ignored \/ {"failed", "ignore_abort"} \subseteq H.f,
         \A k \in N : k.t \in {"query_rollback", "update", "return"},
         \E r \in N : r.t = "return" /\ ("ok" \in r.f <=> "failed" \notin H.f),
         \A r \in N : r.t = "return" => ("ok" \in r.f <=> "failed" \notin H.f),
         H'.t = IF "query_rollback" \in H.f /\ conn.err THEN "query_rollback" ELSE "update"
  PROVE  IInv'
<1>1. /\ conn.op = "none"
      /\ "failed" \in H.f =>
           /\ Only(Ends) /\ ~In("svp_sent") /\ ~InUse
           /\ "query_rollback" \in H.f =>
                /\ "discard_release" \in H.f /\ "discard_svp" \notin H.f
                /\ srv.st = "INERROR" /\ conn.err /\ conn.inTrans /\ ~In("opened")
           /\ "query_rollback" \notin H.f => "discard_release" \notin H.f
           /\ "ignore_abort" \in H.f =>
                ~In("opened") /\ \A g \in Handles : ~(curs[g].open /\ curs[g].hold)
      /\ "failed" \notin H.f =>
           /\ "discard_release" \notin H.f
           /\ "query_rollback" \in H.f => ~conn.err
  BY DoneFacts
<1>2. /\ BaseInv /\ LiveInv /\ Sound(todo) /\ todo # << >> /\ H.t = "wire" /\ todo' # << >>
      /\ All(todo) = {H} \cup Rest /\ All(todo') = N \cup Rest /\ H' \in N
  BY TypesOf, LiveParts, StackFacts DEF Turned, Top, H
<1>3. \A t : (Top(t)' <=> H'.t = t) /\ (Top(t) <=> t = "wire") BY <1>2 DEF Top, H
<1>4. Unsettled' BY <1>3 DEF Unsettled
<1>5. OnQuery' <=> OnQuery BY <1>1, <1>3 DEF OnQuery
<1>6. (Busy' <=> Busy) /\ (Matches' <=> Matches) /\ (Has("closed")' <=> Has("closed"))
  BY <1>2 DEF Busy, Chores, Discs, Clears, Matches, Has
<1>7. StatusInv'
  <2>1. /\ conn.err \/ conn.svp \/ conn.op # "none" \/ conn.manual => conn.inTrans
        /\ Has("closed") => Matches
        /\ Busy => ~conn.err /\ srv.st # "INERROR" /\ Matches
    BY LiveParts DEF StatusInv
  <2> QED BY <1>2, <1>4, <1>6, <2>1, TurnedStatus
<1>8. SvpInv' /\ LevelInv' BY <1>2, <1>5, TurnedSvp
<1>9. PermInv' /\ OpenInv' /\ PortInv' BY <1>2, <1>4, TurnedCursors
<1>10. \A c : ~Pending(c) /\ ~Pending(c)' BY <1>2, <1>3 DEF Pending
<1>11. CloseInv' /\ IgnInv'
  <2>1. conn'.ignored => conn.ignored \/ \A h \in Handles : ~(curs[h].open /\ curs[h].hold) BY <1>1
  <2>2. \A k \in N : k.t \notin {"close", "closed", "moved", "close_eof", "commit_send"} OBVIOUS
  <2> QED BY <1>2, <1>10, <2>1, <2>2, TurnedCloses
<1>12. DiscInv'
  <2>1. discardp # << >> => conn.err \/ \E k \in Rest : k.t \in Discs
    BY <1>2, LiveParts DEF DiscInv, Discs
  <2> QED BY <1>2, <1>10, <2>1, TurnedDisc
<1>13. (Failed1 => Failed1') /\ (Failed1' => Failed1)
  <2>1. Failed1 <=> \/ "failed" \in H.f
                    \/ \E r \in Rest : r.t = "return" /\ "ok" \notin r.f
    BY <1>2, <1>3 DEF Failed1
  <2>2. Failed1' <=> \E r \in N \cup Rest : r.t = "return" /\ "ok" \notin r.f BY <1>2, <1>3 DEF Failed1
  <2> QED BY <2>1, <2>2
<1>14. OpeningInv'
  <2> HIDE DEF Failed1
  <2> QED BY <1>1, <1>2, <1>3, <1>13, TurnedOpening
<1>15. RetInv' /\ ExtInv'
  <2>1. ~Beginning /\ (Ending => Ending') BY <1>2, <1>3 DEF Ending, Beginning, IsEnd, One, Has
  <2> QED BY <1>1, <1>2, <2>1, TurnedRest DEF Chores, Discs, Clears
<1>16. TalkInv'
  <2>1. H'.t = "query_rollback" => srv.st = "INERROR" /\ conn.err /\ ~Busy /\ ~In("opened")'
    <3> SUFFICES ASSUME H'.t = "query_rollback"
                 PROVE  srv.st = "INERROR" /\ conn.err /\ ~Busy /\ ~In("opened")'
      OBVIOUS
    <3>1. "failed" \in H.f /\ "query_rollback" \in H.f BY <1>1
    <3>2. ~Busy BY <1>1, <1>2, <3>1 DEF Busy, Only, Ends, Chores, Discs, Clears
    <3>4. All(todo') = {H'} \cup Rest'
      <4> DEFINE s == todo'
      <4>1. All(s) = {Head(s)} \cup All(Tail(s))
        <5> HIDE DEF s
        <5> QED BY <1>2, SoundParts DEF s
      <4> QED BY <4>1 DEF H, Rest
    <3> QED BY <1>1, <1>2, <3>1, <3>2, <3>4 DEF In
  <2> QED BY <1>1, <1>3, <1>6, <2>1 DEF TalkInv, SendInv, WireInv
<1>17. LiveInv' BY <1>7, <1>8, <1>9, <1>11, <1>12, <1>14, <1>15, <1>16, LiveFrom
<1> QED BY <1>17 DEF IInv
LEMMA WireDoneStep ==
  ASSUME IInv, WireDone
  PROVE  IInv'
<1> DEFINE undo == /\ "query_rollback" \in H.f /\ "discard_svp" \notin H.f
                   /\ conn.inTrans /\ conn.err
           ok == IF "failed" \in H.f THEN "error" ELSE "ok"
           u == Call("update")
           r == Return(ok)
           k0 == Call("query_rollback")
           f0 == H.f \cap {"ignore_abort"}
           d == [k0 EXCEPT !.f = f0]
           lost == {"failed", "ignore_abort"} \subseteq H.f
           ign == conn.ignored \/ lost
<1>1. /\ Top("wire") /\ todo # << >> /\ H.t = "wire" /\ H.q = << >>
      /\ conn' = [conn EXCEPT !.ignored = ign]
      /\ todo' = (If(undo, <<d>>) \o <<u, r>>) \o Tail(todo)
      /\ UNCHANGED <<srv, curs, discardp, ret, last>>
      /\ Sound(todo) /\ StackInv /\ conn \in Conns /\ Gone
  BY TypesOf DEF WireDone, Top, Then, H
<1>2. /\ All(todo) = {H} \cup Rest /\ H \in Tasks /\ H.f \in SUBSET Flags
      /\ \A k \in Rest : k.t \in Lower("wire")
  BY <1>1, StackFacts, TaskFields
<1>3. /\ d \in Tasks /\ d.t = "query_rollback" /\ u \in Tasks /\ u.t = "update"
      /\ r \in Tasks /\ r.t = "return" /\ r.f = {ok} /\ ("ok" \in r.f <=> "failed" \notin H.f)
  <2>1. ok \in {"ok", "error"} /\ ("ok" \in {ok} <=> "failed" \notin H.f) OBVIOUS
  <2>2. f0 \in SUBSET Flags BY DEF Flags
  <2>3. k0 \in Tasks /\ k0.t = "query_rollback" BY CallType DEF TaskNames
  <2>4. u \in Tasks /\ u.t = "update" BY CallType DEF TaskNames
  <2> HIDE DEF ok, u, f0, k0
  <2>5. d \in Tasks /\ d.t = "query_rollback" BY <2>2, <2>3, TaskF
  <2> QED BY <2>1, <2>4, <2>5, ReturnType
<1>4. /\ conn' \in Conns /\ conn'.op = conn.op
      /\ conn'.alive <=> conn.alive
      /\ conn'.auto <=> conn.auto
      /\ conn'.inTrans <=> conn.inTrans
      /\ conn'.manual <=> conn.manual
      /\ conn'.err <=> conn.err
      /\ conn'.svp <=> conn.svp
      /\ conn'.point <=> conn.point
      /\ conn'.committing <=> conn.committing
      /\ conn'.ignored <=> ign
  <2>1. ign \in BOOLEAN BY <1>1 DEF Conns
  <2> HIDE DEF ign
  <2> QED BY <1>1, <2>1, IgnoredIs
<1> HIDE DEF d, u, r, ok
<1>5. \A k \in Rest : /\ k.t \in Lower("query_rollback") /\ k.t \in Lower("update") /\ k.t \in Lower("return")
  BY <1>2 DEF Lower, Talk
<1>6. "failed" \in H.f /\ conn.alive => \A k \in Rest : k.t \notin Late
  <2>1. "failed" \in H.f /\ conn.alive => Only(Ends) BY <1>1, DoneFacts
  <2> QED BY <2>1 DEF Only, Ends, Late, Chores, Discs, Clears
<1>7. conn.alive => Truthful(todo) BY TypesOf
<1>8. /\ "update" \in Lower("query_rollback") /\ "return" \in Lower("query_rollback")
      /\ "return" \in Lower("update")
  BY DEF Lower, Talk
<1>h. /\ \A k \in Rest : k.t \in Lower(d.t) /\ k.t \in Lower(u.t) /\ k.t \in Lower(r.t)
      /\ u.t \in Lower(d.t) /\ r.t \in Lower(d.t) /\ r.t \in Lower(u.t)
      /\ Answers(u) /\ Answers(r) /\ ~Works(d) /\ ~Works(u) /\ ~Works(r) /\ ~Awaits(r)
      /\ u.t # "return" /\ d.t # "return"
  BY <1>3, <1>5, <1>8 DEF Awaits, Works, Answers
<1>9. \E N : /\ Sound(todo') /\ todo' # << >> /\ All(todo') = N \cup Rest /\ H' \in N
             /\ (conn.alive => Truthful(todo')) /\ {u, r} \subseteq N /\ N \subseteq {d, u, r}
             /\ H' = IF undo THEN d ELSE u
  <2> DEFINE v == <<u, r>>
             w == v \o Tail(todo)
  <2>1. v \in Seq(Tasks) /\ Tail(todo) \in Seq(Tasks) BY <1>1, <1>3, StackFacts DEF Sound
  <2>2. CASE undo
    <3>1. todo' = (<<d>> \o v) \o Tail(todo) BY <1>1, <2>2 DEF If
    <3> HIDE DEF v
    <3>2. todo' = <<d>> \o w
      <4> DEFINE a == <<d>>
      <4>1. a \in Seq(Tasks) BY <1>3
      <4> HIDE DEF a
      <4>2. (a \o v) \o Tail(todo) = a \o (v \o Tail(todo)) BY <2>1, <4>1, ConcatAssociative
      <4> QED BY <3>1, <4>2 DEF a
    <3>3. todo' = <<d>> \o (<<u, r>> \o Tail(todo)) BY <3>2 DEF v
    <3>4. /\ Sound(todo') /\ todo' # << >>
          /\ H' = d /\ All(todo') = {d, u, r} \cup Rest
          /\ Truthful(todo) /\ ("ok" \in r.f \/ \A k \in Rest : k.t \notin Late) => Truthful(todo')
      BY <1>1, <1>3, <1>h, <3>3, Replace3
    <3> QED BY <1>3, <1>6, <1>7, <2>2, <3>4
  <2>3. CASE ~undo
    <3>1. todo' = (<< >> \o v) \o Tail(todo) BY <1>1, <2>3 DEF If
    <3> HIDE DEF v
    <3>2. todo' = v \o Tail(todo) BY <2>1, <3>1, NoCat
    <3>3. todo' = <<u, r>> \o Tail(todo) BY <3>2 DEF v
    <3>4. /\ Sound(todo') /\ todo' # << >>
          /\ H' = u /\ All(todo') = {u, r} \cup Rest
          /\ Truthful(todo) /\ ("ok" \in r.f \/ \A k \in Rest : k.t \notin Late) => Truthful(todo')
      BY <1>1, <1>3, <1>h, <3>3, Replace2
    <3> QED BY <1>3, <1>6, <1>7, <2>3, <3>4
  <2> QED BY <2>2, <2>3
<1>10. PICK N : /\ Sound(todo') /\ todo' # << >> /\ All(todo') = N \cup Rest /\ H' \in N
                /\ (conn.alive => Truthful(todo')) /\ {u, r} \subseteq N /\ N \subseteq {d, u, r}
                /\ H' = IF undo THEN d ELSE u
  BY <1>9
<1>11. \A k \in N : k.t \in {"query_rollback", "update", "return"} BY <1>3, <1>10
<1>12. Turned(N) BY <1>1, <1>4, <1>10, <1>11 DEF Turned, SameSrv
<1>13. BaseInv'
  <2>1. \A k \in N : k.t \notin HandleTasks /\ Under(k.t) = {} BY <1>11 DEF HandleTasks, Under
  <2>2. /\ srv' \in Servers /\ ret' \in {"ok", "error"} /\ last' \in LastType
        /\ discardp' \in Seq([type : {"s", "p"}, h : Handles \cup {NoHandle}])
    BY <1>1, TypesOf
  <2>3. Gone' BY <1>1, <1>4 DEF Gone
  <2> QED BY <1>4, <1>10, <1>12, <2>1, <2>2, <2>3, TurnedBase
<1>14. CASE ~conn.alive BY <1>4, <1>13, <1>14 DEF IInv
<1>15. CASE conn.alive
  <2>1. undo <=> "query_rollback" \in H.f /\ conn.err BY <1>1, <1>15, DoneFacts
  <2>2. H'.t = IF "query_rollback" \in H.f /\ conn.err THEN "query_rollback" ELSE "update"
    BY <1>3, <1>10, <2>1
  <2>3. /\ \E x \in N : x.t = "return" /\ ("ok" \in x.f <=> "failed" \notin H.f)
        /\ \A x \in N : x.t = "return" => ("ok" \in x.f <=> "failed" \notin H.f)
    BY <1>3, <1>10
  <2> HIDE DEF undo
  <2> QED BY <1>1, <1>4, <1>10, <1>11, <1>12, <1>13, <1>15, <2>2, <2>3, WireDoneLive
<1> QED BY <1>14, <1>15
\* ROLLBACK TO and RELEASE of the savepoint of a query leave what was there before it.
LEMMA QuerySavepoint ==
  ASSUME IInv, conn.alive, Top("query_rollback")
  PROVE  LET i == Len(srv.svps)
             t == Released(RolledBackTo(srv, i), i)
         IN  /\ Indices(srv, "query") # {} /\ Latest(srv, "query") = i /\ i > 0 /\ i \in Nat
             /\ Base = i - 1
             /\ t \in Servers /\ t.st = "INTRANS" /\ Len(t.svps) = i - 1
             /\ \A j \in 1..(i - 1) : t.svps[j] = srv.svps[j]
             /\ Indices(t, "user") = Indices(srv, "user")
             /\ \A h \in Handles :
                  /\ t.port[h].st = srv.port[h].st
                  /\ t.port[h].hold <=> srv.port[h].hold
                  /\ srv.port[h].st = "trans" => t.port[h].lvl = srv.port[h].lvl
<1> DEFINE i == Len(srv.svps)
           r == RolledBackTo(srv, i)
           t == Released(r, i)
<1>1. /\ srv \in Servers /\ srv.svps \in Seq(Svp) /\ i \in Nat /\ srv.port \in [Handles -> Ports]
  BY TypesOf, ServerFields
<1>2. /\ OnQuery /\ Base = i - 1 /\ Base >= 0 /\ srv.svps[Base + 1].name = "query"
  BY LiveParts DEF OnQuery, Base, SvpInv
<1> HIDE DEF i
<1>3. i > 0 /\ srv.svps[i].name = "query" /\ i \in 1..i BY <1>1, <1>2
<1>4. i \in Indices(srv, "query") /\ \A j \in Indices(srv, "query") : j <= i BY <1>1, <1>3 DEF Indices, i
<1>5. Latest(srv, "query") = i BY <1>1, <1>4, LatestTop
<1>6. /\ r \in Servers /\ r.st = "INTRANS"
      /\ Len(r.svps) = i /\ \A j \in 1..i : r.svps[j] = srv.svps[j]
      /\ \A h \in Handles :
           r.port[h] = IF srv.port[h].st = "trans" /\ srv.port[h].lvl >= i THEN NoPort
                       ELSE srv.port[h]
  BY <1>1, <1>3, RolledBack DEF i
<1>7. \A h \in Handles : r.port[h] = srv.port[h]
  <2> SUFFICES ASSUME NEW h \in Handles, srv.port[h].st = "trans"
               PROVE  ~(srv.port[h].lvl >= i)
    BY <1>6
  <2>1. srv.port[h].lvl <= i - 1 BY <1>2, LiveParts DEF LevelInv
  <2>2. srv.port[h].lvl \in Nat BY <1>1, PortFields
  <2> QED BY <1>1, <2>1, <2>2
<1> HIDE DEF r
<1>8. /\ t \in Servers /\ t.st = "INTRANS"
      /\ Len(t.svps) = i - 1 /\ \A j \in 1..(i - 1) : t.svps[j] = r.svps[j]
      /\ \A h \in Handles :
           /\ t.port[h].st = r.port[h].st
           /\ t.port[h].hold <=> r.port[h].hold
           /\ t.port[h].lvl = IF r.port[h].lvl >= i THEN i - 1 ELSE r.port[h].lvl
  <2>1. i \in 1..Len(r.svps) BY <1>3, <1>6
  <2> QED BY <1>6, <2>1, ReleasedTo
<1> HIDE DEF t
<1>9. \A j \in 1..(i - 1) : t.svps[j] = srv.svps[j] BY <1>1, <1>6, <1>8
<1>10. Indices(t, "user") = Indices(srv, "user")
  <2>1. Indices(srv, "user") = {j \in 1..i : srv.svps[j].name = "user"} BY DEF Indices, i
  <2>2. Indices(t, "user") = {j \in 1..(i - 1) : t.svps[j].name = "user"} BY <1>8 DEF Indices
  <2>3. \A j \in 1..i : srv.svps[j].name = "user" => j \in 1..(i - 1) BY <1>1, <1>3
  <2>4. \A j \in 1..(i - 1) : j \in 1..i BY <1>1
  <2> QED BY <1>9, <2>1, <2>2, <2>3, <2>4
<1>11. \A h \in Handles : srv.port[h].st = "trans" => t.port[h].lvl = srv.port[h].lvl
  <2> SUFFICES ASSUME NEW h \in Handles, srv.port[h].st = "trans"
               PROVE  t.port[h].lvl = srv.port[h].lvl
    OBVIOUS
  <2>1. srv.port[h].lvl <= i - 1 BY <1>2, LiveParts DEF LevelInv
  <2>2. srv.port[h].lvl \in Nat BY <1>1, PortFields
  <2> QED BY <1>1, <1>7, <1>8, <2>1, <2>2
<1> QED BY <1>1, <1>2, <1>3, <1>4, <1>5, <1>7, <1>8, <1>9, <1>10, <1>11 DEF i, r, t

LEMMA QueryRollbackDead ==
  ASSUME IInv, QueryRollback, ~conn.alive
  PROVE  IInv'
<1> DEFINE e == Call("update")
           N == {e}
<1>1. /\ todo # << >> /\ H.t = "query_rollback" /\ todo' = <<e>> \o Tail(todo)
      /\ Sound(todo) /\ StackInv /\ conn \in Conns /\ srv \in Servers
      /\ UNCHANGED <<curs, discardp, ret, last>>
  BY TypesOf DEF QueryRollback, Top, Then, H
<1>2. /\ ~conn.inTrans /\ ~conn.err /\ ~conn.svp /\ ~conn.point /\ conn.op = "none" BY TypesOf DEF Gone
<1>3. /\ conn' \in Conns /\ ~conn'.alive /\ ~conn'.inTrans /\ ~conn'.err /\ ~conn'.svp
      /\ ~conn'.point /\ conn'.op = "none"
      /\ conn'.committing <=> conn.committing
  <2> DEFINE b == conn.err /\ "ignore_abort" \notin H.f
             k == [conn EXCEPT !.ignored = FALSE]
  <2>1. conn' = conn \/ conn' = [conn EXCEPT !.ignored = FALSE, !.err = b] BY DEF QueryRollback, H
  <2>2. b = FALSE BY <1>2
  <2> HIDE DEF b
  <2>3. /\ k \in Conns
        /\ k.alive <=> conn.alive
        /\ k.inTrans <=> conn.inTrans
        /\ k.svp <=> conn.svp
        /\ k.point <=> conn.point
        /\ k.op = conn.op
        /\ k.committing <=> conn.committing
    BY <1>1, Zenon DEF Conns
  <2>4. [conn EXCEPT !.ignored = FALSE, !.err = FALSE] = [k EXCEPT !.err = FALSE] BY <1>1 DEF Conns
  <2> HIDE DEF k
  <2> DEFINE m == [k EXCEPT !.err = FALSE]
  <2>5. /\ m \in Conns /\ ~m.err
        /\ m.alive <=> k.alive
        /\ m.inTrans <=> k.inTrans
        /\ m.svp <=> k.svp
        /\ m.point <=> k.point
        /\ m.op = k.op
        /\ m.committing <=> k.committing
    BY <2>3, Zenon DEF Conns
  <2> QED BY <1>1, <1>2, <2>1, <2>2, <2>3, <2>4, <2>5
<1>4. srv' \in Servers
  <2>1. CASE srv.st # "IDLE" /\ Indices(srv, "query") # {}
    <3> DEFINE i == Latest(srv, "query")
               r == RolledBackTo(srv, i)
    <3>1. srv' = Released(r, i) BY <2>1 DEF QueryRollback
    <3>2. i \in 1..Len(srv.svps) BY <1>1, <2>1, LatestIs DEF Indices
    <3> HIDE DEF i
    <3>3. r \in Servers /\ Len(r.svps) = i BY <1>1, <3>2, RolledBack
    <3> HIDE DEF r
    <3>4. i \in 1..Len(r.svps) BY <3>2, <3>3
    <3> QED BY <3>1, <3>3, <3>4, ReleasedTo
  <2>2. CASE ~(srv.st # "IDLE" /\ Indices(srv, "query") # {})
    <3>1. srv' = Failed(srv).srv BY <2>2 DEF QueryRollback
    <3> QED BY <1>1, <3>1, FailedIs DEF FailedTrans
  <2> QED BY <2>1, <2>2
<1>5. e \in Tasks /\ e.t = "update" BY CallType DEF TaskNames
<1> HIDE DEF e
<1>6. Sound(todo') /\ All(todo') = N \cup Rest
  <2>1. \A k \in Rest : k.t \in Lower("update") BY <1>1, StackFacts DEF Lower, Talk
  <2>2. Tail(todo) # << >> => Answers(Head(Tail(todo))) BY <1>1, StackFacts DEF Awaits
  <2> QED BY <1>1, <1>5, <2>1, <2>2, Replace DEF Works
<1>7. StackInv'
  <2>1. \A k \in N : k.t \notin HandleTasks /\ k.t # "on_commit_end" /\ Under(k.t) = {}
    BY <1>5 DEF HandleTasks, Under
  <2>2. conn'.committing <=> In("on_commit_end") BY <1>1, <1>3, RestCommit
  <2> HIDE DEF N
  <2> QED BY <1>1, <1>6, <2>1, <2>2, StackFrom
<1>8. TypeOK' /\ Gone'
  <2>1. srv'.st = "IDLE"
    <3>1. srv.st = "IDLE" /\ srv \in Servers BY <1>1, TypesOf DEF Gone
    <3>2. srv' = Failed(srv).srv BY <3>1 DEF QueryRollback
    <3> QED BY <3>1, <3>2, FailedIs DEF FailedTrans
  <2> QED BY <1>1, <1>3, <1>4, <1>6, <2>1, TypesOf DEF TypeOK, Gone, Sound, LastType
<1> QED BY <1>3, <1>7, <1>8 DEF IInv, BaseInv
LEMMA QueryRollbackLive ==
  ASSUME IInv, QueryRollback, conn.alive
  PROVE  IInv'
<1> DEFINE e == Call("update")
           N == {e}
<1>1. /\ todo # << >> /\ H.t = "query_rollback" /\ Top("query_rollback")
      /\ todo' = <<e>> \o Tail(todo)
      /\ Sound(todo) /\ StackInv /\ BaseInv /\ LiveInv
      /\ UNCHANGED <<curs, discardp, ret, last>>
  BY TypesOf, LiveParts DEF QueryRollback, Top, Then, H
<1>2. PICK t : t = Released(RolledBackTo(srv, Len(srv.svps)), Len(srv.svps)) OBVIOUS
<1>3. /\ srv.st = "INERROR" /\ conn.err /\ ~Busy /\ conn.op = "none" /\ ~In("opened") /\ OnQuery
      /\ conn.inTrans
  BY <1>1, LiveParts DEF TalkInv, OnQuery, StatusInv, Top
<1>4. /\ Indices(srv, "query") # {} /\ Latest(srv, "query") = Len(srv.svps)
      /\ Len(srv.svps) \in Nat /\ Len(srv.svps) > 0 /\ Base = Len(srv.svps) - 1
      /\ t \in Servers /\ t.st = "INTRANS" /\ Len(t.svps) = Base
      /\ \A j \in 1..Base : t.svps[j] = srv.svps[j]
      /\ Indices(t, "user") = Indices(srv, "user")
      /\ \A h \in Handles : t.port[h].st = srv.port[h].st
      /\ \A h \in Handles : t.port[h].hold <=> srv.port[h].hold
      /\ \A h \in Handles : srv.port[h].st = "trans" => t.port[h].lvl = srv.port[h].lvl
  BY <1>1, <1>2, QuerySavepoint
<1>5. srv' = t /\ conn' = conn BY <1>2, <1>3, <1>4 DEF QueryRollback
<1>6. e \in Tasks /\ e.t = "update" BY CallType DEF TaskNames
<1> HIDE DEF e
<1>7. /\ Sound(todo') /\ todo' # << >> /\ H' = e /\ Rest' = Rest /\ All(todo') = N \cup Rest
      /\ Truthful(todo')
  <2>1. \A k \in Rest : k.t \in Lower("update") BY <1>1, StackFacts DEF Lower, Talk
  <2>2. Tail(todo) # << >> => Answers(Head(Tail(todo))) BY <1>1, StackFacts DEF Awaits
  <2>3. Truthful(todo) BY TypesOf
  <2> QED BY <1>1, <1>6, <2>1, <2>2, <2>3, Replace DEF Works
<1>8. \A k \in N : k.t = "update" BY <1>6
<1> HIDE DEF N
<1>9. All(todo) = {H} \cup Rest BY <1>1, StackFacts
<1>10. \A u : (Top(u)' <=> u = "update") /\ (Top(u) <=> u = "query_rollback")
  BY <1>1, <1>6, <1>7 DEF Top, H
<1>11. BaseInv'
  <2>1. StackInv'
    <3>1. \A k \in N : k.t \notin HandleTasks /\ k.t # "on_commit_end" /\ Under(k.t) = {}
      BY <1>8 DEF HandleTasks, Under
    <3>2. conn'.committing <=> In("on_commit_end") BY <1>1, <1>5, RestCommit
    <3> QED BY <1>1, <1>7, <3>1, <3>2, StackFrom
  <2>2. TypeOK' /\ Gone' BY <1>1, <1>4, <1>5, <1>7, TypesOf DEF TypeOK, Gone, Sound, LastType
  <2> QED BY <2>1, <2>2 DEF BaseInv
<1>12. ~OnQuery' /\ Unsettled' /\ Base' = Base /\ InUse' /\ ~InUse /\ ~Busy' /\ Matches'
  <2>1. ~Busy' BY <1>3, <1>7, <1>8, <1>9 DEF Busy, Chores, Discs, Clears
  <2> QED BY <1>3, <1>4, <1>5, <1>10, <2>1 DEF OnQuery, Unsettled, Base, InUse, Matches
<1>13. \A u : u \notin {"update", "query_rollback"} => (Has(u)' <=> Has(u))
  BY <1>1, <1>7, <1>8, <1>9 DEF Has
<1>14. \A c : ~Pending(c) /\ ~Pending(c)' BY <1>10 DEF Pending
<1>15. /\ ~Has("close_eof") /\ ~Has("svp_sent")
       /\ Has("commit_send") => \A k \in All(todo) : k.t \notin {"close", "closed"}
       /\ Has("transact_end") => Ending
  BY <1>3, <1>12, LiveParts DEF CloseInv, RetInv
<1>16. /\ \A h : Closing(h)' <=> Closing(h)
       /\ \A h : Opening(h)' <=> Opening(h)
       /\ \A h : Marked(h)' <=> Marked(h)
  BY <1>1, <1>7, <1>8, <1>9 DEF Closing, Opening, Marked
<1>17. StatusInv'
  <2>1. NewTrans => NewTrans' BY <1>1, <1>7, <1>9 DEF NewTrans
  <2>2. conn.committing => srv.st = "IDLE" BY LiveParts DEF StatusInv
  <2> QED BY <1>3, <1>4, <1>5, <1>12, <2>1, <2>2, LiveParts DEF StatusInv
<1>18. TalkInv' BY <1>3, <1>5, <1>10 DEF TalkInv, SendInv, WireInv
<1>19. SvpInv'
  <2>1. conn.svp => Base > 0 /\ srv.svps[Base].name = "exec" BY <1>3, LiveParts DEF SvpInv
  <2>2. conn.svp => t.svps[Base].name = "exec" BY <1>4, <2>1
  <2>3. conn.point => Has("stmt_end") \/ Has("stmt_clean") BY LiveParts DEF SvpInv
  <2> QED BY <1>5, <1>10, <1>12, <1>13, <2>1, <2>2, <2>3 DEF SvpInv
<1>20. LevelInv'
  <2> SUFFICES ASSUME NEW h \in Handles, srv.port[h].st = "trans"
               PROVE  /\ t.port[h].lvl <= Base
                      /\ t.port[h].hold => \A i \in Indices(t, "user") : t.port[h].lvl < i
                      /\ conn.point /\ curs[h].open /\ ~curs[h].perm => t.port[h].lvl < Base
    BY <1>1, <1>3, <1>4, <1>5, <1>12 DEF LevelInv
  <2>1. /\ srv.port[h].lvl <= Base
        /\ srv.port[h].hold => \A i \in Indices(srv, "user") : srv.port[h].lvl < i
        /\ conn.point /\ curs[h].open /\ ~curs[h].perm => srv.port[h].lvl < Base
    BY <1>10, LiveParts DEF LevelInv
  <2> QED BY <1>4, <2>1
<1>21. PermInv' /\ OpenInv' /\ PortInv'
  <2>1. PermInv' BY <1>1, <1>4, <1>5, <1>16, LiveParts DEF PermInv
  <2>2. OpenInv' BY <1>1, <1>3, <1>4, <1>5, <1>16, LiveParts DEF OpenInv
  <2>3. PortInv' BY <1>1, <1>4, <1>5, <1>16, LiveParts DEF PortInv
  <2> QED BY <2>1, <2>2, <2>3
<1>22. /\ \A k \in All(todo') : k.t # "update" => k \in All(todo)
       /\ \A k \in All(todo') : k.h \in Handles => srv'.port[k.h].st = srv.port[k.h].st
  BY <1>4, <1>5, <1>7, <1>8, <1>9
<1>23. CloseInv' /\ IgnInv'
  <2>1. ASSUME NEW k \in All(todo'), k.t = "closed"
        PROVE  curs[k.h].open /\ srv'.port[k.h].st = "none"
    <3>1. k \in All(todo) /\ k.h \in Handles BY <1>1, <1>22, <2>1 DEF StackInv, HandleTasks
    <3>2. curs[k.h].open /\ (Pending(CloseIt(k.h)) \/ srv.port[k.h].st = "none")
      BY <2>1, <3>1, LiveParts DEF CloseInv
    <3> QED BY <1>14, <1>22, <3>1, <3>2
  <2>2. \A k \in All(todo') : k.t = "moved" => curs[k.h].open /\ curs[k.h].hold /\ ~curs[k.h].perm
    BY <1>22, LiveParts DEF CloseInv
  <2>3. CloseInv' BY <1>1, <1>10, <1>13, <1>15, <1>22, <2>1, <2>2 DEF CloseInv
  <2>4. IgnInv' BY <1>1, <1>5, <1>22, LiveParts DEF IgnInv
  <2> QED BY <2>3, <2>4
<1>24. OpeningInv' BY <1>3, <1>7, <1>8, <1>9 DEF OpeningInv, In
<1>25. DiscInv'
  <2>1. \A k \in All(todo) : k.t \in {"discard", "discard_free"} => k \in All(todo') BY <1>1, <1>7, <1>9
  <2>2. \A k \in All(todo') : k.t = "discard_free" /\ discardp[k.i].type = "p" =>
          srv'.port[discardp[k.i].h].st = "none"
    <3> SUFFICES ASSUME NEW k \in All(todo'), k.t = "discard_free", discardp[k.i].type = "p"
                 PROVE  srv'.port[discardp[k.i].h].st = "none"
      OBVIOUS
    <3>1. k \in All(todo) BY <1>22
    <3>2. srv.port[discardp[k.i].h].st = "none" /\ k.i \in 1..Len(discardp)
      <4>1. srv.port[discardp[k.i].h].st = "none" /\ k.i = Len(discardp) /\ k.i > 0
        BY <1>14, <3>1, LiveParts DEF DiscInv
      <4>2. Len(discardp) \in Nat BY TypesOf
      <4> QED BY <4>1, <4>2
    <3>3. discardp[k.i].h \in Handles BY <3>2, LiveParts DEF DiscInv
    <3> QED BY <1>4, <1>5, <3>2, <3>3
  <2>3. \A j \in 1..Len(discardp) : discardp[j].type = "p" =>
          /\ discardp[j].h \in Handles /\ ~curs[discardp[j].h].open
          /\ \/ srv'.port[discardp[j].h].st = "held"
             \/ \E k \in All(todo') : k.t = "discard_free" /\ j = k.i
          /\ \A i \in 1..Len(discardp) :
                i # j /\ discardp[i].type = "p" => discardp[i].h # discardp[j].h
    BY <1>4, <1>5, <2>1, LiveParts DEF DiscInv
  <2>4. \A k \in All(todo') : k.t \in {"discard", "discard_free"} => k.i = Len(discardp) /\ k.i > 0
    BY <1>22, LiveParts DEF DiscInv
  <2> QED BY <1>1, <1>3, <1>5, <1>14, <2>2, <2>3, <2>4 DEF DiscInv
<1>26. RetInv' /\ ExtInv'
  <2>1. Ending => Ending' BY <1>10, <1>13 DEF Ending
  <2>2. RetInv' BY <1>10, <1>13, <1>15, <2>1 DEF RetInv
  <2>3. ExtInv' BY <1>1, <1>4, <1>5, <1>22, LiveParts DEF ExtInv
  <2> QED BY <2>2, <2>3
<1>27. LiveInv' BY <1>7, <1>17, <1>18, <1>19, <1>20, <1>21, <1>23, <1>24, <1>25, <1>26, LiveFrom
<1> QED BY <1>11, <1>27 DEF IInv

LEMMA QueryRollbackStep ==
  ASSUME IInv, QueryRollback
  PROVE  IInv'
BY QueryRollbackDead, QueryRollbackLive
--------------------
(* LIBPQ_update_transaction_status *)
\* The transaction has ended: its cursors are settled, objects are discarded.
LEMMA TransOver ==
  ASSUME IInv, conn.alive, Top("update"), srv.st = "IDLE", conn.inTrans,
         NEW N, Sound(todo'), Truthful(todo'), todo' # << >>, H' \in N, All(todo') = N \cup Rest,
         \A k \in N : k.t \in {"clear", "discard_all", "on_commit_end"},
         \A k \in N : k.t = "clear" => k.h \in Handles /\ conn'.committing,
         \E k \in N : k.t = "discard_all",
         conn'.committing <=> \E k \in N : k.t = "on_commit_end",
         UNCHANGED <<srv, discardp, ret, last>>, conn' \in Conns, conn'.alive, ~conn'.inTrans,
         ~conn'.svp, conn'.op = "none", ~conn'.point, ~conn'.err, ~conn'.manual,
         conn'.auto <=> conn.auto, conn'.ignored <=> conn.ignored,
         curs' \in [Handles -> Cursors],
         \A h \in Handles : curs'[h] = curs[h]
            \/ (~curs'[h].open /\ curs[h].open /\ ~curs[h].perm /\ conn.err),
         \A h \in Handles : curs'[h].open /\ ~curs'[h].perm =>
            conn'.committing /\ ~conn.err /\ \E k \in N : k.t = "clear" /\ k.h = h
  PROVE  IInv'
<1>1. /\ todo # << >> /\ H.t = "update" /\ BaseInv /\ Sound(todo) /\ StackInv
      /\ \A u : (Top(u)' <=> H'.t = u) /\ (Top(u) <=> u = "update")
  BY TypesOf, TopFacts DEF Top, H
<1>2. /\ All(todo) = {H} \cup Rest /\ \A k \in Rest : k.t \in Lower("update") BY <1>1, StackFacts
<1>3. /\ ~Matches /\ ~Busy /\ ~Has("closed") /\ ~Has("close_eof") /\ ~Has("svp_sent")
      /\ Has("commit_send") => \A k \in All(todo) : k.t \notin {"close", "closed"}
  BY LiveParts DEF Matches, StatusInv, CloseInv, RetInv, InUse
<1>4. \A k \in Rest : /\ k.t \in Ends \cup {"update", "return"}
                      /\ k.t \notin Chores /\ k.t \notin {"closed", "close_eof", "svp_sent", "close"}
  <2>1. \A k \in Rest : k.t \notin Chores BY <1>2, <1>3 DEF Busy
  <2>2. \A k \in Rest : k.t \notin {"closed", "close_eof", "svp_sent"} BY <1>2, <1>3 DEF Has
  <2>3. \A k \in Rest : k.t \in Ends \cup {"update", "return"} BY <1>2, <2>1 DEF Lower, Talk
  <2> QED BY <2>1, <2>2, <2>3 DEF Ends
<1>5. /\ \A k \in All(todo') : k.t \in {"clear", "discard_all", "on_commit_end"} \cup Ends \cup {"update", "return"}
      /\ \A k \in All(todo') : k.t \notin {"closed", "close_eof", "svp_sent", "close", "moved",
                                           "discard", "discard_free"}
      /\ \A k \in All(todo') : k.t \in Ends => k \in Rest
  BY <1>4 DEF Chores, Discs, Clears, Ends
<1>6. BaseInv'
  <2>1. StackInv'
    <3>1. \A k \in N : k.t \in HandleTasks => k.h \in Handles BY DEF HandleTasks
    <3>2. \A k \in N : \A t \in Under(k.t) : \E m \in N \cup Rest : m.t = t BY DEF Under
    <3>3. ~In("on_commit_end") BY <1>4 DEF In, Chores
    <3> QED BY <1>1, <3>1, <3>2, <3>3, StackFrom
  <2>2. TypeOK' /\ Gone' BY TypesOf DEF TypeOK, Gone, Sound, LastType
  <2> QED BY <2>1, <2>2 DEF BaseInv
<1>7. /\ ~OnQuery' /\ ~Unsettled' /\ Mirrors' /\ Matches' /\ ~Beginning
      /\ ~Ending \/ (Ending <=> Has("commit_send"))
  BY <1>1 DEF OnQuery, Unsettled, Mirrors, Matches, Ending, Beginning
<1>8. StatusInv'
  <2>1. ~Has("closed")' BY <1>5 DEF Has
  <2> QED BY <1>7, <2>1 DEF StatusInv, Matches
<1>9. TalkInv'
  <2>1. H'.t \notin Calls BY DEF Calls
  <2> QED BY <1>1, <2>1, TalkNone DEF Calls
<1>10. SvpInv' /\ LevelInv'
  <2>1. \A h \in Handles : srv.port[h].st # "trans" BY LiveParts DEF LevelInv
  <2> QED BY <1>1, <1>7, <2>1 DEF SvpInv, LevelInv
<1>11. \A h : ~Closing(h)' /\ ~Closing(h) /\ (Opening(h)' <=> Opening(h)) /\ (Marked(h)' <=> Marked(h))
  BY <1>1, <1>2, <1>4, <1>5 DEF Closing, Opening, Marked
<1>12. PermInv' BY <1>11, LiveParts DEF PermInv
<1>13. OpenInv'
  <2> SUFFICES ASSUME NEW h \in Handles, curs'[h].open, ~curs'[h].perm
               PROVE  /\ conn'.committing => \E k \in All(todo') : k.t \in Clears /\ k.h = h
                      /\ conn'.committing
                      /\ srv.port[h].st = IF curs'[h].hold THEN "held" ELSE "none"
    BY <1>11 DEF OpenInv
  <2>1. curs'[h] = curs[h] /\ conn'.committing /\ ~conn.err /\ \E k \in N : k.t = "clear" /\ k.h = h
    OBVIOUS
  <2>2. srv.port[h].st = IF ~conn.err /\ curs[h].hold THEN "held" ELSE "none"
    BY <2>1, LiveParts DEF OpenInv
  <2> QED BY <2>1, <2>2 DEF Clears
<1>14. PortInv'
  <2> SUFFICES ASSUME NEW h \in Handles, srv.port[h].st # "none", ~curs'[h].open
               PROVE  srv.port[h].st = "held" /\ Marked(h)
    BY <1>11 DEF PortInv
  <2>1. srv.port[h].st # "trans" BY LiveParts DEF LevelInv
  <2>2. CASE curs'[h] = curs[h] BY <2>1, <2>2, LiveParts DEF PortInv
  <2>3. CASE curs[h].open /\ ~curs[h].perm /\ conn.err BY <2>3, LiveParts DEF OpenInv
  <2> QED BY <2>2, <2>3
<1>15. CloseInv'
  <2>1. ~Top("close")' /\ ~Has("close_eof")' BY <1>1, <1>5 DEF Has
  <2> QED BY <1>5, <2>1 DEF CloseInv
<1>16. IgnInv' BY <1>5, LiveParts DEF IgnInv
<1>17. OpeningInv'
  <2>1. Failed1 => Failed1'
    <3>1. Failed1 => \E r \in Rest : r.t = "return" /\ "ok" \notin r.f BY <1>1, <1>2 DEF Failed1
    <3> QED BY <3>1 DEF Failed1
  <2> SUFFICES ASSUME NEW k \in All(todo'), k.t = "opened"
               PROVE  /\ ~curs'[k.h].open /\ ("on" \in k.f => ~conn.ignored) /\ last.op = "open"
                      /\ Failed1'
                      /\ ~(srv.port[k.h].st = "trans" /\ srv.port[k.h].hold)
    BY DEF OpeningInv, InUse
  <2>2. k \in Rest /\ k \in All(todo) /\ k.h \in Handles
    BY <1>1, <1>2, <1>5, <2>1 DEF Ends, StackInv, HandleTasks
  <2>3. /\ ~curs[k.h].open /\ ("on" \in k.f => ~conn.ignored) /\ last.op = "open"
        /\ Failed1
        /\ ~(srv.port[k.h].st = "trans" /\ srv.port[k.h].hold)
    BY <1>1, <2>2, LiveParts DEF OpeningInv, InUse
  <2> QED BY <2>1, <2>2, <2>3
<1>18. DiscInv'
  <2>1. \E k \in All(todo') : k.t \in Discs BY DEF Discs
  <2>2. \A k \in All(todo) : k.t \notin {"discard", "discard_free"} BY <1>1, <1>2, <1>4 DEF Chores, Discs
  <2>3. \A j \in 1..Len(discardp) : discardp[j].type = "p" =>
          /\ discardp[j].h \in Handles /\ ~curs[discardp[j].h].open
          /\ srv.port[discardp[j].h].st = "held"
          /\ \A i \in 1..Len(discardp) :
                i # j /\ discardp[i].type = "p" => discardp[i].h # discardp[j].h
    BY <2>2, LiveParts DEF DiscInv
  <2> QED BY <1>5, <2>1, <2>3 DEF DiscInv
<1>19. RetInv' /\ ExtInv'
  <2>1. RetInv' BY <1>1, <1>5 DEF RetInv, Has
  <2>2. \A k \in All(todo') : k.t \in {"request_start", "exec_ext"} => k \in All(todo)
    BY <1>2, <1>5 DEF Ends
  <2>3. ExtInv' BY <1>7, <2>2, LiveParts DEF ExtInv
  <2> QED BY <2>1, <2>3
<1>20. LiveInv' BY <1>8, <1>9, <1>10, <1>12, <1>13, <1>14, <1>15, <1>16, <1>17, <1>18, <1>19, LiveFrom
<1> QED BY <1>6, <1>20 DEF IInv
LEMMA UpdateIs ==
  ASSUME IInv, UpdateStatus, conn.alive
  PROVE  /\ Top("update") /\ UNCHANGED <<srv, discardp, ret, last>>
         /\ \/ srv.st = "IDLE" /\ ~conn.inTrans /\ Then(<< >>) /\ UNCHANGED <<conn, curs>>
            \/ /\ srv.st = "IDLE" /\ conn.inTrans /\ conn.err
               /\ conn' = OnAbortConn /\ curs' = CursAborted /\ Then(OnAbortCalls)
            \/ /\ srv.st = "IDLE" /\ conn.inTrans /\ ~conn.err
               /\ conn' = OnCommitConn /\ Then(OnCommitCalls) /\ UNCHANGED curs
            \/ /\ srv.st = "INTRANS" /\ conn' = [conn EXCEPT !.inTrans = TRUE, !.err = FALSE]
               /\ Then(If(conn.err, <<Call("discard_all")>>)) /\ UNCHANGED curs
            \/ /\ srv.st = "INERROR" /\ conn' = [conn EXCEPT !.inTrans = TRUE, !.err = TRUE]
               /\ Then(<< >>) /\ UNCHANGED curs
<1>1. srv.st \in StNames BY TypesOf, ServerFields
<1>2. Top("update") /\ UNCHANGED <<srv, discardp, ret, last>> BY DEF UpdateStatus
<1>3. CASE srv.st = "IDLE" BY <1>2, <1>3 DEF UpdateStatus
<1>4. CASE srv.st = "INTRANS" BY <1>2, <1>4 DEF UpdateStatus
<1>5. CASE srv.st = "INERROR" BY <1>2, <1>5 DEF UpdateStatus
<1> QED BY <1>1, <1>3, <1>4, <1>5 DEF StNames

\* The record of a connection in a transaction.
LEMMA TransIs ==
  ASSUME conn \in Conns, NEW b \in BOOLEAN, conn' = [conn EXCEPT !.inTrans = TRUE, !.err = b]
  PROVE  /\ conn' \in Conns /\ conn'.op = conn.op /\ conn'.inTrans
         /\ conn'.alive <=> conn.alive
         /\ conn'.auto <=> conn.auto
         /\ conn'.err <=> b
         /\ conn'.manual <=> conn.manual
         /\ conn'.svp <=> conn.svp
         /\ conn'.point <=> conn.point
         /\ conn'.committing <=> conn.committing
         /\ conn'.ignored <=> conn.ignored
<1>1. [conn EXCEPT !.inTrans = TRUE, !.err = b] \in Conns BY Zenon DEF Conns
<1>2. /\ conn'.op = conn.op /\ conn'.inTrans = TRUE /\ conn'.alive = conn.alive
      /\ conn'.auto = conn.auto /\ conn'.err = b /\ conn'.manual = conn.manual
      /\ conn'.svp = conn.svp /\ conn'.point = conn.point
      /\ conn'.committing = conn.committing /\ conn'.ignored = conn.ignored
  BY DEF Conns
<1>3. conn'.inTrans BY <1>2
<1> QED BY <1>1, <1>2, <1>3

\* What is known when the status is brought up to date.
LEMMA UpdateFacts ==
  ASSUME IInv, conn.alive, Top("update")
  PROVE  /\ todo # << >> /\ H.t = "update" /\ Sound(todo) /\ StackInv /\ H \in Tasks
         /\ All(todo) = {H} \cup Rest /\ \A k \in Rest : k.t \in Lower("update")
         /\ \A u : Top(u) <=> u = "update"
         /\ Tail(todo) # << >> => Answers(Head(Tail(todo)))
         /\ conn.op = "none" /\ ~OnQuery /\ (\A c : ~Pending(c))
         /\ Truthful(todo) /\ Sound(Tail(todo)) /\ (Truthful(todo) => Truthful(Tail(todo)))
<1>1. /\ todo # << >> /\ H.t = "update" /\ BaseInv /\ Sound(todo) /\ StackInv
      /\ \A u : Top(u) <=> u = "update"
  BY TypesOf, TopFacts DEF Top, H
<1>2. conn.op = "none" BY <1>1, NoOp
<1>3. ~OnQuery /\ \A c : ~Pending(c) BY <1>1 DEF OnQuery, Pending
<1> QED BY <1>1, <1>2, <1>3, StackFacts, LiveParts DEF Awaits

\* The transaction has ended, and not while another ends.
LEMMA UnderOver ==
  ASSUME IInv, conn.alive, Top("update"), srv.st = "IDLE", conn.inTrans
  PROVE  /\ ~conn.committing
         /\ \A k \in Rest : /\ k.t \in Ends \cup {"update", "return"} /\ k.t \in Lower("clear")
                            /\ k.t \in Lower("discard_all") /\ k.t \in Lower("on_commit_end")
<1>1. ~Busy BY LiveParts DEF StatusInv, Matches
<1>2. ~conn.committing BY <1>1, TypesOf DEF StackInv, Busy, Has, Chores
<1>3. \A k \in Rest : k.t \in Lower("update") /\ k.t \notin Chores BY <1>1, UpdateFacts DEF Busy
<1>4. \A k \in Rest : k.t \in Ends \cup {"update", "return"} BY <1>3 DEF Lower, Talk
<1> QED BY <1>2, <1>4 DEF Lower, Talk, Clears, Discs
LEMMA UpdateAborted ==
  ASSUME IInv, UpdateStatus, conn.alive, srv.st = "IDLE", conn.inTrans, conn.err
  PROVE  IInv'
<1> DEFINE e == Call("discard_all")
           N == {e}
<1>1. /\ UNCHANGED <<srv, discardp, ret, last>> /\ Top("update")
      /\ conn' = OnAbortConn /\ curs' = CursAborted /\ Then(OnAbortCalls)
  BY UpdateIs
<1>2. /\ todo # << >> /\ H.t = "update" /\ Sound(todo) /\ StackInv /\ Truthful(todo)
      /\ Tail(todo) # << >> => Answers(Head(Tail(todo)))
  BY <1>1, UpdateFacts
<1>3. /\ ~conn.committing
      /\ \A k \in Rest : k.t \in Ends \cup {"update", "return"} /\ k.t \in Lower("discard_all")
  BY <1>1, UnderOver
<1>4. e \in Tasks /\ e.t = "discard_all" BY CallType DEF TaskNames
<1>5. todo' = <<e>> \o Tail(todo) BY <1>1 DEF OnAbortCalls, If, Then
<1> HIDE DEF e
<1>6. /\ Sound(todo') /\ todo' # << >> /\ H' = e /\ All(todo') = N \cup Rest
      /\ Truthful(todo')
  <2>1. Tail(todo) # << >> => Head(Tail(todo)).t # "opened" BY <1>2 DEF Answers
  <2>2. \A k \in Rest : k.t \in Lower(e.t) BY <1>3, <1>4
  <2> QED BY <1>2, <1>4, <1>5, <2>1, <2>2, Replace DEF Awaits
<1>7. \A k \in N : k.t = "discard_all" BY <1>4
<1>8. /\ H' \in N /\ \E k \in N : k.t = "discard_all" BY <1>6, <1>4
<1> HIDE DEF N
<1>9. /\ conn' \in Conns /\ ~conn'.inTrans /\ ~conn'.svp /\ conn'.op = "none" /\ ~conn'.point
      /\ ~conn'.err /\ ~conn'.manual /\ ~conn'.committing /\ conn'.alive
      /\ conn'.auto <=> conn.auto
      /\ conn'.ignored <=> conn.ignored
  <2>1. conn \in Conns /\ (conn.err => conn.inTrans) /\ (conn.manual => conn.inTrans)
    BY TypesOf, LiveParts DEF StatusInv
  <2> QED BY <1>1, <1>3, <2>1, OnAbort
<1>10. /\ curs' \in [Handles -> Cursors]
       /\ \A h \in Handles : curs'[h] = IF curs[h].open /\ ~curs[h].perm THEN NoCursor ELSE curs[h]
       /\ ~NoCursor.open
  BY <1>1, LostParts, TypesOf, CursorIs DEF CursAborted, NoCursor
<1>11. /\ \A h \in Handles : curs'[h] = curs[h]
              \/ (~curs'[h].open /\ curs[h].open /\ ~curs[h].perm /\ conn.err)
       /\ \A h \in Handles : curs'[h].open => curs'[h].perm
  BY <1>10
<1> QED BY <1>1, <1>6, <1>7, <1>8, <1>9, <1>10, <1>11, TransOver

LEMMA UpdateCommitted ==
  ASSUME IInv, UpdateStatus, conn.alive, srv.st = "IDLE", conn.inTrans, ~conn.err
  PROVE  IInv'
<1> DEFINE s == ForEach("clear")
           d == Call("discard_all")
           e == Call("on_commit_end")
           q1 == <<e>> \o Tail(todo)
           q == <<d>> \o q1
           N == All(s) \cup {d, e}
<1>1. /\ UNCHANGED <<srv, discardp, ret, last, curs>> /\ Top("update")
      /\ conn' = OnCommitConn /\ Then(OnCommitCalls)
  BY UpdateIs
<1>2. /\ todo # << >> /\ H.t = "update" /\ Sound(todo) /\ StackInv /\ Truthful(todo)
      /\ Tail(todo) # << >> => Answers(Head(Tail(todo)))
      /\ Sound(Tail(todo)) /\ Truthful(Tail(todo)) /\ Tail(todo) \in Seq(Tasks)
  BY <1>1, UpdateFacts DEF Sound
<1>3. /\ ~conn.committing
      /\ \A k \in Rest : /\ k.t \in Ends \cup {"update", "return"} /\ k.t \in Lower("clear")
                         /\ k.t \in Lower("discard_all") /\ k.t \in Lower("on_commit_end")
  BY <1>1, UnderOver
<1>4. d \in Tasks /\ d.t = "discard_all" /\ e \in Tasks /\ e.t = "on_commit_end" BY CallType DEF TaskNames
<1>5. todo' = (s \o <<d, e>>) \o Tail(todo) BY <1>1, <1>3 DEF OnCommitCalls, If, Then, ForEach
<1>6. /\ s \in Seq(Tasks) /\ Ordered(s)
      /\ \A k \in All(s) : k.t = "clear" /\ k.h \in Handles
      /\ \A h \in Handles : \E k \in All(s) : k.h = h
  BY ForEachStack
<1> HIDE DEF s, d, e
<1>7. todo' = s \o q
  <2> DEFINE p == <<d, e>>
  <2>1. p \in Seq(Tasks) BY <1>4
  <2>2. p \o Tail(todo) = q BY <1>4, <1>2, Two2
  <2>3. todo' = (s \o p) \o Tail(todo) BY <1>5
  <2> HIDE DEF p, q
  <2>4. s \in Seq(Tasks) /\ Tail(todo) \in Seq(Tasks) BY <1>2, <1>6
  <2>5. (s \o p) \o Tail(todo) = s \o (p \o Tail(todo)) BY <2>1, <2>4, ConcatAssociative
  <2> QED BY <2>2, <2>3, <2>5
<1>8. /\ Sound(q1) /\ q1 # << >> /\ Head(q1) = e /\ All(q1) = {e} \cup Rest /\ Truthful(q1)
  <2>1. /\ ~Awaits(e) /\ e.t # "return" /\ \A k \in Rest : k.t \in Lower(e.t)
        /\ Tail(todo) # << >> => Head(Tail(todo)).t # "opened"
    BY <1>2, <1>3, <1>4 DEF Awaits, Answers
  <2>2. All(Tail(todo)) = Rest BY DEF Rest
  <2> QED BY <1>2, <1>4, <2>1, <2>2, Pushed
<1> HIDE DEF q1
<1>9. /\ Sound(q) /\ q # << >> /\ Head(q) = d /\ All(q) = {d, e} \cup Rest /\ Truthful(q)
  <2>1. /\ ~Awaits(d) /\ d.t # "return" /\ \A k \in All(q1) : k.t \in Lower(d.t)
    BY <1>3, <1>4, <1>8 DEF Awaits, Lower, Talk, Clears, Discs
  <2>2. Head(q1).t # "opened" BY <1>4, <1>8
  <2> QED BY <1>4, <1>8, <2>1, <2>2, Pushed
<1> HIDE DEF q
<1>10. \A a \in All(s) : /\ ~Awaits(a) /\ a.t # "return" /\ a.t # "opened"
                         /\ \A b \in All(q) : b.t \in Lower(a.t)
  BY <1>3, <1>4, <1>6, <1>9 DEF Awaits, Lower, Talk, Clears, Discs
<1>11. Sound(todo') /\ Truthful(todo')
  <2>1. Head(q).t # "opened" BY <1>4, <1>9
  <2> QED BY <1>6, <1>7, <1>9, <1>10, <2>1, StackCat
<1>12. All(todo') = N \cup Rest /\ todo' # << >> /\ H' \in N
  <2>1. q \in Seq(Tasks) BY <1>9 DEF Sound
  <2>2. All(todo') = All(s) \cup All(q) BY <1>6, <1>7, <2>1, CatParts
  <2>3. CASE s = << >>
    <3>1. todo' = q BY <1>7, <2>1, <2>3, NoCat
    <3> QED BY <1>9, <2>2, <3>1 DEF H
  <2>4. CASE s # << >>
    <3>1. todo' # << >> /\ Head(todo') = s[1] /\ s[1] \in All(s) BY <1>6, <1>7, <2>1, <2>4, CatParts
    <3> QED BY <1>9, <2>2, <3>1 DEF H
  <2> QED BY <2>3, <2>4
<1>13. /\ conn' \in Conns /\ ~conn'.inTrans /\ ~conn'.svp /\ conn'.op = "none" /\ ~conn'.point
       /\ ~conn'.err /\ ~conn'.manual /\ conn'.committing /\ conn'.alive
       /\ conn'.auto <=> conn.auto
       /\ conn'.ignored <=> conn.ignored
  <2>1. conn \in Conns /\ (conn.err => conn.inTrans) /\ (conn.manual => conn.inTrans)
    BY TypesOf, LiveParts DEF StatusInv
  <2> QED BY <1>1, <1>3, <2>1, OnCommit
<1>14. /\ \A k \in N : k.t \in {"clear", "discard_all", "on_commit_end"}
       /\ \A k \in N : k.t = "clear" => k.h \in Handles
       /\ \E k \in N : k.t = "discard_all"
       /\ \E k \in N : k.t = "on_commit_end"
       /\ \A h \in Handles : \E k \in N : k.t = "clear" /\ k.h = h
  BY <1>4, <1>6
<1> HIDE DEF N
<1>15. curs' \in [Handles -> Cursors] /\ \A h \in Handles : curs'[h] = curs[h] BY <1>1, TypesOf
<1> QED BY <1>1, <1>11, <1>12, <1>13, <1>14, <1>15, TransOver
\* The server is in a transaction that has not failed.
LEMMA UpdateInTrans ==
  ASSUME IInv, UpdateStatus, conn.alive, srv.st = "INTRANS"
  PROVE  IInv'
<1> DEFINE e == Call("discard_all")
           N == {e}
<1>1. /\ UNCHANGED <<srv, discardp, ret, last, curs>> /\ Top("update")
      /\ conn' = [conn EXCEPT !.inTrans = TRUE, !.err = FALSE]
      /\ Then(If(conn.err, <<e>>))
  BY UpdateIs
<1>2. /\ todo # << >> /\ H.t = "update" /\ Sound(todo) /\ StackInv /\ Truthful(todo)
      /\ Tail(todo) # << >> => Answers(Head(Tail(todo)))
      /\ conn.op = "none" /\ ~OnQuery /\ (\A c : ~Pending(c)) /\ todo \in Seq(Tasks)
      /\ All(todo) = {H} \cup Rest /\ (\A k \in Rest : k.t \in Lower("update"))
      /\ \A u : Top(u) <=> u = "update"
  BY <1>1, UpdateFacts DEF Sound
<1>3. /\ conn' \in Conns /\ conn'.op = conn.op /\ conn'.inTrans
      /\ conn'.alive <=> conn.alive
      /\ conn'.auto <=> conn.auto
      /\ ~conn'.err
      /\ conn'.manual <=> conn.manual
      /\ conn'.svp <=> conn.svp
      /\ conn'.point <=> conn.point
      /\ conn'.committing <=> conn.committing
      /\ conn'.ignored <=> conn.ignored
  <2>1. conn \in Conns BY TypesOf
  <2>2. PICK b \in BOOLEAN : b = FALSE OBVIOUS
  <2>3. conn' = [conn EXCEPT !.inTrans = TRUE, !.err = b] BY <1>1, <2>2
  <2> QED BY <2>1, <2>2, <2>3, TransIs
<1>4. Mirrors' /\ Matches' BY <1>1, <1>3 DEF Mirrors, Matches
<1>5. todo' = IF conn.err THEN <<e>> \o Tail(todo) ELSE Tail(todo)
  <2>1. conn.err \in BOOLEAN BY TypesOf DEF Conns
  <2> HIDE DEF e
  <2> QED BY <1>1, <1>2, <2>1, ThenIf
<1>6. CASE ~conn.err
  <2>1. todo' = Tail(todo) BY <1>5, <1>6
  <2>2. PoppedOnly BY <1>1, <1>2, <1>3, <2>1 DEF PoppedOnly, Marks, Calls
  <2>3. srv.st # "IDLE" /\ ~conn'.manual => \E k \in Rest : k.t = "exec_end" /\ "was_in" \notin k.f
    BY <1>2, <1>3, LiveParts DEF StatusInv, NewTrans
  <2>4. discardp # << >> => \E k \in Rest : k.t \in Discs BY <1>2, <1>6, LiveParts DEF DiscInv, Discs
  <2>5. ~Top("moved")' /\ ~Top("svp_sent")' BY <1>2, <2>1, PopTop DEF Awaits
  <2>6. LiveInv' BY <1>2, <1>3, <1>4, <2>2, <2>3, <2>4, <2>5, PoppedLive
  <2>7. BaseInv'
    <3>1. Gone' /\ curs' \in [Handles -> Cursors] /\ last' \in LastType BY <1>1, <1>3, TypesOf DEF Gone
    <3> QED BY <1>1, <1>2, <1>3, <2>1, <3>1, PoppedConn
  <2> QED BY <2>6, <2>7 DEF IInv
<1>7. CASE conn.err
  <2>1. e \in Tasks /\ e.t = "discard_all" BY CallType DEF TaskNames
  <2>2. todo' = <<e>> \o Tail(todo) BY <1>5, <1>7
  <2> HIDE DEF e
  <2>3. ~Busy /\ ~Has("svp_sent") BY <1>7, LiveParts DEF StatusInv, RetInv
  <2>4. \A k \in Rest : k.t \in Ends \cup {"update", "return"} /\ k.t \in Lower(e.t)
    <3>1. \A k \in Rest : k.t \notin Chores BY <1>2, <2>3 DEF Busy
    <3>2. \A k \in Rest : k.t \in Ends \cup {"update", "return"} BY <1>2, <3>1 DEF Lower, Talk
    <3> QED BY <2>1, <3>2 DEF Lower, Talk, Clears, Discs
  <2>5. Tail(todo) # << >> => Head(Tail(todo)).t # "opened" BY <1>2 DEF Answers
  <2>6. /\ Sound(todo') /\ todo' # << >> /\ H' = e /\ All(todo') = N \cup Rest
        /\ Truthful(todo')
    BY <1>2, <2>1, <2>2, <2>4, <2>5, Replace DEF Awaits
  <2>7. /\ \A k \in N : k.t = "discard_all"
        /\ H' \in N /\ e \in N /\ H'.t = "discard_all"
        /\ \A u : Top(u)' <=> u = "discard_all"
    BY <2>1, <2>6, TopNext
  <2>8. \E k \in All(todo') : k.t \in Discs BY <2>1, <2>6 DEF Discs
  <2> HIDE DEF N
  <2>9. Turned(N) BY <1>1, <1>2, <1>3, <2>6, <2>7 DEF Turned, SameSrv
  <2>10. BaseInv /\ LiveInv BY TypesOf
  <2>11. BaseInv'
    <3>1. \A k \in N : k.t \notin HandleTasks /\ Under(k.t) = {} BY <2>7 DEF HandleTasks, Under
    <3>2. Gone' BY <1>3 DEF Gone
    <3> QED BY <1>1, <1>3, <2>6, <2>9, <3>1, <3>2, TypesOf, TurnedBase
  <2>12. /\ ~OnQuery' /\ ~Unsettled' /\ (\A c : ~Pending(c)') BY <2>7 DEF OnQuery, Unsettled, Pending
  <2>13. StatusInv'
    <3>1. srv'.st = "INTRANS" /\ (conn.manual => conn'.manual) BY <1>1, <1>3
    <3> QED BY <1>3, <1>4, <2>9, <2>10, <3>1, TurnedStatus
  <2>14. TalkInv' BY <1>2, <1>3, <2>7, TalkNone DEF Calls
  <2>15. SvpInv' /\ LevelInv' BY <1>2, <2>9, <2>10, <2>12, TurnedSvp
  <2>16. PermInv' /\ OpenInv' /\ PortInv' BY <1>1, <1>2, <2>9, <2>10, TurnedCursors
  <2>17. CloseInv' /\ IgnInv' BY <1>2, <1>3, <2>7, <2>9, <2>10, TurnedCloses
  <2>18. DiscInv' BY <1>1, <1>2, <2>7, <2>8, <2>9, <2>10, <2>12, TurnedDisc
  <2>19. RetInv' /\ ExtInv'
    <3>1. Has("transact_end") /\ Ending => Ending'
      <4>1. Ending => Has("commit_send") BY <1>2 DEF Ending
      <4>2. Has("commit_send") => Has("commit_send")' BY <1>2, <2>6 DEF Has
      <4> QED BY <4>1, <4>2 DEF Ending
    <3>2. ~Beginning BY <1>2 DEF Beginning
    <3>3. ~In("svp_sent") BY <1>2, <2>3 DEF In, Has
    <3> QED BY <1>2, <1>3, <2>7, <2>9, <2>10, <3>1, <3>2, <3>3, TurnedRest
  <2>20. OpeningInv'
    <3>1. Failed1 <=> \E r \in Rest : r.t = "return" /\ "ok" \notin r.f BY <1>2 DEF Failed1
    <3>2. Failed1' <=> \E r \in Rest : r.t = "return" /\ "ok" \notin r.f BY <2>6, <2>7 DEF Failed1
    <3> QED BY <1>2, <1>3, <2>9, <2>10, <3>1, <3>2, TurnedOpening
  <2>21. LiveInv' BY <2>6, <2>13, <2>14, <2>15, <2>16, <2>17, <2>18, <2>19, <2>20, LiveFrom
  <2> QED BY <2>11, <2>21 DEF IInv
<1> QED BY <1>6, <1>7

LEMMA UpdateStatusStep ==
  ASSUME IInv, UpdateStatus
  PROVE  IInv'
<1>1. CASE ~conn.alive BY <1>1, UpdateDead
<1>2. CASE conn.alive
  <2>1. /\ Top("update") /\ UNCHANGED <<srv, discardp, ret, last>>
        /\ srv.st = "INERROR" => /\ conn' = [conn EXCEPT !.inTrans = TRUE, !.err = TRUE]
                                 /\ Then(<< >>) /\ UNCHANGED curs
        /\ srv.st = "IDLE" /\ ~conn.inTrans => Then(<< >>) /\ UNCHANGED <<conn, curs>>
    BY <1>2, UpdateIs
  <2>2. /\ todo # << >> /\ H.t = "update" /\ todo \in Seq(Tasks) /\ StackInv /\ Sound(todo)
        /\ conn.op = "none" /\ All(todo) = {H} \cup Rest
    BY <1>2, <2>1, UpdateFacts DEF Sound
  <2>3. Then(<< >>) => todo' = Tail(todo) BY <2>2, NoCat DEF Then
  <2>4. srv.st \in StNames /\ conn \in Conns /\ ret \in {"ok", "error"} /\ last \in LastType
    BY TypesOf, ServerFields
  <2>5. Then(<< >>) => ~Top("moved")' /\ ~Top("svp_sent")' BY <2>2, <2>3, PopTop DEF Awaits
  <2>6. CASE srv.st = "IDLE" /\ ~conn.inTrans
    <3>1. Mirrors BY <1>2, <2>6, LiveParts DEF StatusInv, Mirrors, Matches
    <3> QED BY <1>2, <2>1, <2>2, <2>3, <2>4, <2>5, <2>6, <3>1, PoppedSame DEF Marks, Calls, LastType
  <2>7. CASE srv.st = "INERROR"
    <3>1. /\ conn' \in Conns /\ conn'.op = conn.op /\ conn'.inTrans /\ conn'.err
          /\ conn'.alive <=> conn.alive
          /\ conn'.auto <=> conn.auto
          /\ conn'.manual <=> conn.manual
          /\ conn'.svp <=> conn.svp
          /\ conn'.point <=> conn.point
          /\ conn'.committing <=> conn.committing
          /\ conn'.ignored <=> conn.ignored
      <4>1. PICK b \in BOOLEAN : b = TRUE OBVIOUS
      <4>2. conn' = [conn EXCEPT !.inTrans = TRUE, !.err = b] BY <2>1, <2>7, <4>1
      <4> QED BY <2>4, <4>1, <4>2, TransIs
    <3>2. Mirrors' BY <2>1, <2>7, <3>1 DEF Mirrors, Matches
    <3>3. todo' = Tail(todo) /\ ~Top("moved")' /\ ~Top("svp_sent")' /\ curs' = curs
      BY <2>1, <2>3, <2>5, <2>7
    <3>4. PoppedOnly BY <2>1, <2>2, <3>1, <3>3 DEF PoppedOnly, Marks, Calls
    <3>5. srv.st # "IDLE" /\ ~conn'.manual => \E k \in Rest : k.t = "exec_end" /\ "was_in" \notin k.f
      BY <1>2, <2>2, <3>1, LiveParts DEF StatusInv, NewTrans
    <3>6. LiveInv' BY <1>2, <2>2, <3>1, <3>2, <3>3, <3>4, <3>5, PoppedLive
    <3>7. BaseInv'
      <4>1. Gone' /\ curs' \in [Handles -> Cursors] /\ last' \in LastType
        BY <1>2, <2>1, <3>1, <3>3, TypesOf DEF Gone
      <4> QED BY <2>1, <2>2, <3>1, <3>3, <4>1, PoppedConn
    <3> QED BY <3>6, <3>7 DEF IInv
  <2>8. CASE srv.st = "INTRANS" BY <1>2, <2>8, UpdateInTrans
  <2>9. CASE srv.st = "IDLE" /\ conn.inTrans BY <1>2, <2>9, UpdateAborted, UpdateCommitted
  <2> QED BY <2>4, <2>6, <2>7, <2>8, <2>9 DEF StNames
<1> QED BY <1>1, <1>2
--------------------
(* A statement in the extended protocol *)
LEMMA ExtFacts ==
  ASSUME IInv, conn.alive, Top("exec_ext")
  PROVE  /\ todo # << >> /\ H.t = "exec_ext" /\ Sound(todo) /\ StackInv /\ H \in Tasks
         /\ H \in All(todo) /\ All(todo) = {H} \cup Rest
         /\ \A k \in Rest : k.t \in {"exec_end", "stmt_end"}
         /\ In("exec_end") /\ In("stmt_end") /\ ~Busy /\ ~conn.committing
         /\ \A u : Top(u) <=> u = "exec_ext"
         /\ ~Unsettled /\ Mirrors /\ Matches /\ ~OnQuery /\ conn.op = "none"
         /\ last.op \in Kinds \ EndKinds /\ One(H.q, Cmd(last.op))
         /\ ~conn.auto /\ last.op # "special" => srv.st # "IDLE"
<1>1. /\ todo # << >> /\ H.t = "exec_ext" /\ Sound(todo) /\ StackInv
      /\ \A u : Top(u) <=> u = "exec_ext"
  BY TypesOf, TopFacts DEF Top, H
<1>2. H \in Tasks /\ H \in All(todo) /\ All(todo) = {H} \cup Rest /\ \A k \in Rest : k.t \in Lower("exec_ext")
  BY <1>1, StackFacts
<1>3. \A k \in Rest : k.t \in {"exec_end", "stmt_end"} BY <1>2 DEF Lower, Talk, Clears, Discs
<1>4. In("exec_end") /\ In("stmt_end") BY <1>1, <1>2, <1>3 DEF StackInv, Under, In, Has
<1>5. ~Busy /\ ~conn.committing BY <1>1, <1>2, <1>3 DEF Busy, Chores, Discs, Clears, StackInv, Has
<1>6. ~Unsettled /\ Mirrors /\ Matches /\ ~OnQuery BY <1>1, Settled
<1>7. conn.op = "none" BY <1>1, NoOp
<1>8. ~Beginning BY <1>1 DEF Beginning
<1>9. /\ last.op \in Kinds \ EndKinds /\ One(H.q, Cmd(last.op))
      /\ ~conn.auto /\ last.op # "special" => srv.st # "IDLE"
  BY <1>1, <1>2, <1>8, LiveParts DEF ExtInv
<1> QED BY <1>1, <1>2, <1>3, <1>4, <1>5, <1>6, <1>7, <1>9

\* The statement is done, N is what is left of it.
LEMMA ExtDone ==
  ASSUME IInv, conn.alive, Top("exec_ext"), NEW N, Sound(todo'), Truthful(todo'), todo' # << >>,
         All(todo') = N \cup Rest, \A k \in N : k.t \in {"update", "return"},
         H'.t \in {"update", "exec_end", "stmt_end"}, H'.t = "update" \/ (Mirrors' /\ ~conn'.err),
         srv' \in Servers, srv'.svps = srv.svps, srv'.port = srv.port,
         srv'.st = "IDLE" <=> srv.st = "IDLE" /\ ~(srv'.st = "INTRANS"),
         srv'.st # srv.st => H'.t = "update" \/ conn'.manual,
         UNCHANGED <<curs, discardp, last>>, ret' \in {"ok", "error"},
         conn' \in Conns, conn'.alive, conn'.op = conn.op,
         conn'.auto <=> conn.auto,
         conn'.svp <=> conn.svp,
         conn'.point <=> conn.point,
         conn'.committing <=> conn.committing,
         conn'.ignored => conn.ignored,
         conn.inTrans => conn'.inTrans,
         conn'.manual \/ conn'.err => conn'.inTrans,
         conn.manual => conn'.manual,
         conn.err => conn'.err,
         srv.st # "IDLE" \/ conn'.manual \/ srv'.st = "IDLE"
  PROVE  IInv'
<1>1. /\ todo # << >> /\ H.t = "exec_ext" /\ Sound(todo) /\ StackInv /\ H \in Tasks
      /\ H \in All(todo) /\ All(todo) = {H} \cup Rest
      /\ \A k \in Rest : k.t \in {"exec_end", "stmt_end"}
      /\ In("exec_end") /\ In("stmt_end") /\ ~Busy /\ ~conn.committing
      /\ ~Unsettled /\ Mirrors /\ Matches /\ ~OnQuery /\ conn.op = "none"
      /\ \A u : Top(u) <=> u = "exec_ext"
  BY ExtFacts
<1>2. \A k \in All(todo') : k.t \in {"update", "return", "exec_end", "stmt_end"} BY <1>1
<1>3. \A u : Top(u)' <=> H'.t = u BY DEF Top, H
<1>4. BaseInv'
  <2>1. StackInv'
    <3>1. \A k \in N : k.t \notin HandleTasks /\ Under(k.t) = {} /\ k.t # "on_commit_end"
      BY DEF HandleTasks, Under
    <3>2. ~In("on_commit_end") BY <1>1 DEF In
    <3> QED BY <1>1, <3>1, <3>2, StackFrom
  <2>2. TypeOK' /\ Gone' BY TypesOf DEF TypeOK, Gone, Sound, LastType
  <2> QED BY <2>1, <2>2 DEF BaseInv
<1>5. ~OnQuery' /\ (Unsettled' => H'.t = "update") BY <1>3 DEF OnQuery, Unsettled
<1>6. StatusInv'
  <2>1. ~Has("closed")' /\ ~Busy' BY <1>2 DEF Has, Busy, Chores, Discs, Clears
  <2>2. ~Unsettled' => Mirrors'
    <3>1. CASE H'.t = "update" BY <1>3, <3>1 DEF Unsettled
    <3> QED BY <3>1
  <2>3. conn'.svp => conn'.inTrans BY LiveParts DEF StatusInv
  <2>4. srv'.st # "IDLE" /\ ~conn'.manual => NewTrans'
    <3> SUFFICES ASSUME srv'.st # "IDLE", ~conn'.manual
                 PROVE  NewTrans'
      OBVIOUS
    <3>1. srv.st # "IDLE" /\ ~conn.manual OBVIOUS
    <3>2. NewTrans BY <3>1, LiveParts DEF StatusInv
    <3>3. \E k \in Rest : k.t = "exec_end" /\ "was_in" \notin k.f BY <1>1, <3>2 DEF NewTrans
    <3> QED BY <3>3 DEF NewTrans
  <2> QED BY <1>1, <2>1, <2>2, <2>3, <2>4 DEF StatusInv
<1>7. TalkInv' BY <1>1, <1>3, TalkNone DEF Calls
<1>8. SvpInv'
  <2>1. Has("stmt_end")' /\ ~Top("stmt_rollback")' BY <1>1, <1>3 DEF In, Has
  <2>2. conn'.svp => srv.st # "IDLE" BY <1>1, LiveParts DEF StatusInv, Matches
  <2>3. Base' = Base BY <1>1, <1>5 DEF Base
  <2> QED BY <1>5, <2>1, <2>2, <2>3, LiveParts DEF SvpInv
<1>9. LevelInv'
  <2> SUFFICES ASSUME NEW h \in Handles, srv.port[h].st = "trans"
               PROVE  /\ srv'.st # "IDLE" /\ srv.port[h].lvl <= Base'
                      /\ srv.port[h].hold => \A i \in Indices(srv', "user") : srv.port[h].lvl < i
                      /\ conn'.point /\ curs[h].open /\ ~curs[h].perm => srv.port[h].lvl < Base'
    BY DEF LevelInv
  <2>1. /\ srv.st # "IDLE" /\ srv.port[h].lvl <= Base
        /\ srv.port[h].hold => \A i \in Indices(srv, "user") : srv.port[h].lvl < i
        /\ conn.point /\ curs[h].open /\ ~curs[h].perm => srv.port[h].lvl < Base
    BY <1>1, LiveParts DEF LevelInv
  <2>2. Base' = Base /\ Indices(srv', "user") = Indices(srv, "user") BY <1>1, <1>5 DEF Base, Indices
  <2> QED BY <2>1, <2>2
<1>10. \A h : ~Closing(h) /\ ~Opening(h) /\ (Marked(h)' <=> Marked(h))
  BY <1>1 DEF Closing, Opening, Marked
<1>11. PermInv' BY <1>10, LiveParts DEF PermInv
<1>12. OpenInv'
  <2>1. \A h \in Handles : curs[h].open /\ ~curs[h].perm =>
           /\ srv.st # "IDLE"
           /\ \/ srv.port[h].st = "trans" /\ (srv.port[h].hold <=> curs[h].hold)
              \/ srv.port[h].st = "none" /\ curs[h].doubt /\ ~curs[h].hold
    BY <1>1, <1>10, LiveParts DEF OpenInv
  <2> QED BY <2>1 DEF OpenInv
<1>13. PortInv' BY <1>10, LiveParts DEF PortInv
<1>14. CloseInv' /\ IgnInv' /\ OpeningInv'
  <2>1. \A k \in All(todo') : k.t \notin {"closed", "moved", "close", "close_eof", "commit_send", "opened"}
    BY <1>2
  <2>2. ~Top("close")' /\ ~Has("close_eof")' /\ ~Has("commit_send")' BY <1>3, <2>1 DEF Has
  <2> QED BY <2>1, <2>2, LiveParts DEF CloseInv, IgnInv, OpeningInv
<1>15. DiscInv'
  <2>1. \A k \in All(todo) \cup All(todo') : k.t \notin {"discard", "discard_free"} BY <1>1, <1>2
  <2>2. discardp # << >> => conn.err BY <1>1, LiveParts DEF DiscInv, Busy, Chores
  <2> QED BY <2>1, <2>2, LiveParts DEF DiscInv
<1>16. RetInv' /\ ExtInv'
  <2>1. \A k \in All(todo') : k.t \notin {"svp_sent", "moved", "request_start", "exec_ext", "transact_end"}
    BY <1>2
  <2> QED BY <1>3, <2>1 DEF RetInv, ExtInv, Has
<1>17. LiveInv' BY <1>6, <1>7, <1>8, <1>9, <1>11, <1>12, <1>13, <1>14, <1>15, <1>16, LiveFrom
<1> QED BY <1>4, <1>17 DEF IInv
LEMMA ExtReply ==
  ASSUME IInv, conn.alive, Top("exec_ext"), NEW r \in Replies(srv, Head(H.q))
  PROVE  /\ Head(H.q) \in Cmds /\ r.srv \in Servers /\ r.srv.svps = srv.svps /\ r.srv.port = srv.port
         /\ r.tag = "ERROR" => r.srv.st = IF srv.st = "IDLE" THEN "IDLE" ELSE "INERROR"
         /\ r.tag # "ERROR" =>
              \/ r.srv.st = "INTRANS" /\ Head(H.q).op \in {"begin", "start"} /\ srv.st # "INERROR"
              \/ r.srv.st = srv.st /\ Head(H.q).op \notin {"begin", "start"} /\ srv.st # "INERROR"
<1>1. last.op \in Kinds \ EndKinds /\ One(H.q, Cmd(last.op)) /\ srv \in Servers BY ExtFacts, TypesOf
<1> PICK c : c = Head(H.q) OBVIOUS
<1>2. c = Cmd(last.op) /\ last.op \in CmdNames /\ last.op \in {"begin", "start", "write", "read", "special"}
  BY <1>1 DEF One, CmdNames, Kinds, EndKinds
<1>3. c \in Cmds /\ c.op \in {"begin", "start", "write", "read", "special"} BY <1>2, CmdType
<1>4. CASE c.op \in {"begin", "start"} BY <1>1, <1>3, <1>4, BeginReply DEF FailedTrans, Says
<1>5. CASE c.op \in {"write", "read", "special"}
  BY <1>1, <1>3, <1>5, PlainReply DEF FailedTrans, SameTrans
<1> QED BY <1>3, <1>4, <1>5

LEMMA ExtConn ==
  ASSUME conn \in Conns, NEW b \in BOOLEAN
  PROVE  LET c == [conn EXCEPT !.inTrans = FALSE, !.err = FALSE, !.manual = FALSE]
             d == [conn EXCEPT !.inTrans = TRUE, !.manual = @ \/ b]
         IN  /\ c \in Conns /\ c.op = conn.op /\ ~c.inTrans /\ ~c.err /\ ~c.manual
             /\ c.alive <=> conn.alive
             /\ c.auto <=> conn.auto
             /\ c.svp <=> conn.svp
             /\ c.point <=> conn.point
             /\ c.committing <=> conn.committing
             /\ c.ignored <=> conn.ignored
             /\ d \in Conns /\ d.op = conn.op /\ d.inTrans
             /\ d.alive <=> conn.alive
             /\ d.auto <=> conn.auto
             /\ d.err <=> conn.err
             /\ d.manual <=> conn.manual \/ b
             /\ d.svp <=> conn.svp
             /\ d.point <=> conn.point
             /\ d.committing <=> conn.committing
             /\ d.ignored <=> conn.ignored
<1> DEFINE c == [conn EXCEPT !.inTrans = FALSE, !.err = FALSE, !.manual = FALSE]
           m == conn.manual \/ b
           d == [conn EXCEPT !.inTrans = TRUE, !.manual = m]
<1>1. m \in BOOLEAN OBVIOUS
<1> HIDE DEF m
<1>2. c \in Conns /\ d \in Conns BY <1>1, Zenon DEF Conns
<1>3. /\ c.op = conn.op /\ c.inTrans = FALSE /\ c.err = FALSE /\ c.manual = FALSE
      /\ c.alive = conn.alive /\ c.auto = conn.auto /\ c.svp = conn.svp
      /\ c.point = conn.point /\ c.committing = conn.committing /\ c.ignored = conn.ignored
  BY DEF Conns
<1>4. /\ d.op = conn.op /\ d.inTrans = TRUE /\ d.err = conn.err /\ d.manual = m
      /\ d.alive = conn.alive /\ d.auto = conn.auto /\ d.svp = conn.svp
      /\ d.point = conn.point /\ d.committing = conn.committing /\ d.ignored = conn.ignored
  BY DEF Conns
<1>5. ~c.inTrans /\ ~c.err /\ ~c.manual /\ d.inTrans /\ (d.manual <=> conn.manual \/ b)
  BY <1>3, <1>4 DEF m
<1>6. d = [conn EXCEPT !.inTrans = TRUE, !.manual = @ \/ b] BY DEF m
<1> HIDE DEF c, d
<1> QED BY <1>2, <1>3, <1>4, <1>5, <1>6 DEF c

LEMMA ExecExtOkStep ==
  ASSUME IInv, ExecExtOk
  PROVE  IInv'
<1>1. PICK r \in Replies(srv, Head(H.q)) :
         /\ r.tag # "ERROR" /\ srv' = r.srv
         /\ conn' = IF r.srv.st = "IDLE"
                    THEN [conn EXCEPT !.inTrans = FALSE, !.err = FALSE, !.manual = FALSE]
                    ELSE [conn EXCEPT !.inTrans = TRUE,
                                      !.manual = @ \/ Head(H.q).op \in {"begin", "start"}]
  BY DEF ExecExtOk, H
<1>2. /\ Top("exec_ext") /\ conn.alive /\ ret' = "ok" /\ Then(<< >>)
      /\ UNCHANGED <<curs, discardp, last>>
  BY DEF ExecExtOk
<1>3. /\ srv' \in Servers /\ srv'.svps = srv.svps /\ srv'.port = srv.port
      /\ \/ srv'.st = "INTRANS" /\ Head(H.q).op \in {"begin", "start"} /\ srv.st # "INERROR"
         \/ srv'.st = srv.st /\ Head(H.q).op \notin {"begin", "start"} /\ srv.st # "INERROR"
  BY <1>1, <1>2, ExtReply
<1>4. /\ todo # << >> /\ Sound(todo) /\ todo \in Seq(Tasks) /\ conn.op = "none" /\ Mirrors /\ Matches
      /\ H.t = "exec_ext" /\ In("exec_end") /\ \A k \in Rest : k.t \in {"exec_end", "stmt_end"}
  BY <1>2, ExtFacts DEF Sound
<1>5. todo' = Tail(todo) BY <1>2, <1>4, NoCat DEF Then
<1>6. Sound(todo') /\ All(todo') = Rest /\ Truthful(todo') /\ (todo' # << >> => H' \in Rest)
  BY <1>2, <1>4, <1>5, Pop, LiveParts
<1>7. todo' # << >> BY <1>4, <1>6, NoneSound DEF In
<1>8. conn \in Conns /\ srv.st \in StNames /\ srv'.st \in StNames BY <1>3, TypesOf, ServerFields
<1> DEFINE b == Head(H.q).op \in {"begin", "start"}
<1>9. b \in BOOLEAN OBVIOUS
<1>10. conn' = IF srv'.st = "IDLE"
               THEN [conn EXCEPT !.inTrans = FALSE, !.err = FALSE, !.manual = FALSE]
               ELSE [conn EXCEPT !.inTrans = TRUE, !.manual = @ \/ b]
  BY <1>1
<1>11. \/ srv'.st = "INTRANS" /\ b /\ srv.st # "INERROR"
       \/ srv'.st = srv.st /\ ~b /\ srv.st # "INERROR"
  BY <1>3
<1> HIDE DEF b
<1>12. CASE srv'.st = "IDLE"
  <2>1. /\ conn' \in Conns /\ conn'.op = conn.op /\ ~conn'.inTrans /\ ~conn'.err /\ ~conn'.manual
        /\ conn'.alive <=> conn.alive
        /\ conn'.auto <=> conn.auto
        /\ conn'.svp <=> conn.svp
        /\ conn'.point <=> conn.point
        /\ conn'.committing <=> conn.committing
        /\ conn'.ignored <=> conn.ignored
    BY <1>8, <1>9, <1>10, <1>12, ExtConn
  <2>2. srv.st = "IDLE" /\ ~conn.inTrans /\ ~conn.manual /\ ~conn.err
    BY <1>2, <1>4, <1>11, <1>12, LiveParts DEF Matches, StatusInv
  <2>3. Mirrors' BY <1>12, <2>1 DEF Mirrors, Matches
  <2>4. H'.t \in {"exec_end", "stmt_end"} BY <1>4, <1>6, <1>7
  <2> DEFINE N == {}
  <2>5. All(todo') = N \cup Rest /\ \A k \in N : k.t \in {"update", "return"} BY <1>6
  <2> HIDE DEF N
  <2> QED BY <1>2, <1>3, <1>6, <1>7, <1>12, <2>1, <2>2, <2>3, <2>4, <2>5, ExtDone
<1>13. CASE srv'.st = "INTRANS"
  <2>1. /\ conn' \in Conns /\ conn'.op = conn.op /\ conn'.inTrans
        /\ conn'.err <=> conn.err
        /\ conn'.manual <=> conn.manual \/ b
        /\ conn'.alive <=> conn.alive
        /\ conn'.auto <=> conn.auto
        /\ conn'.svp <=> conn.svp
        /\ conn'.point <=> conn.point
        /\ conn'.committing <=> conn.committing
        /\ conn'.ignored <=> conn.ignored
    BY <1>8, <1>9, <1>10, <1>13, ExtConn
  <2>2. ~conn.err BY <1>4, <1>11 DEF Mirrors
  <2>3. Mirrors' BY <1>13, <2>1, <2>2 DEF Mirrors, Matches
  <2>4. H'.t \in {"exec_end", "stmt_end"} BY <1>4, <1>6, <1>7
  <2> DEFINE N == {}
  <2>5. All(todo') = N \cup Rest /\ \A k \in N : k.t \in {"update", "return"} BY <1>6
  <2> HIDE DEF N
  <2>6. (srv.st = srv'.st \/ conn'.manual) /\ (srv'.st = "IDLE" <=> srv.st = "IDLE" /\ ~(srv'.st = "INTRANS"))
    BY <1>11, <1>13, <2>1
  <2> QED BY <1>2, <1>3, <1>6, <1>7, <1>13, <2>1, <2>2, <2>3, <2>4, <2>5, <2>6, ExtDone
<1> QED BY <1>11, <1>12, <1>13, <1>8 DEF StNames

LEMMA ExecExtErrorStep ==
  ASSUME IInv, ExecExtError
  PROVE  IInv'
<1> DEFINE e == Call("update")
           f == Return("error")
           N == {e, f}
<1>1. PICK r \in Replies(srv, Head(H.q)) : r.tag = "ERROR" /\ srv' = r.srv BY DEF ExecExtError, H
<1>2. /\ Top("exec_ext") /\ conn.alive /\ ret' = "error" /\ Then(<<e, f>>)
      /\ conn' = [conn EXCEPT !.err = @ \/ conn.inTrans, !.ignored = FALSE]
      /\ UNCHANGED <<curs, discardp, last>>
  BY DEF ExecExtError
<1>3. /\ srv' \in Servers /\ srv'.svps = srv.svps /\ srv'.port = srv.port
      /\ srv'.st = IF srv.st = "IDLE" THEN "IDLE" ELSE "INERROR"
  BY <1>1, <1>2, ExtReply
<1>4. /\ todo # << >> /\ Sound(todo) /\ conn.op = "none" /\ Mirrors /\ Matches
      /\ H.t = "exec_ext" /\ In("exec_end") /\ \A k \in Rest : k.t \in {"exec_end", "stmt_end"}
  BY <1>2, ExtFacts
<1>5. e \in Tasks /\ e.t = "update" /\ f \in Tasks /\ f.t = "return" BY CallType, ReturnType DEF TaskNames
<1>6. todo' = <<e, f>> \o Tail(todo) BY <1>2 DEF Then
<1> HIDE DEF e, f
<1>7. /\ Sound(todo') /\ todo' # << >> /\ H' = e /\ All(todo') = N \cup Rest /\ Truthful(todo')
  <2>1. /\ \A k \in Rest : k.t \in Lower(e.t) /\ k.t \in Lower(f.t)
        /\ f.t \in Lower(e.t)
    BY <1>4, <1>5 DEF Lower, Talk, Ends
  <2>2. \A k \in Rest : k.t \notin Late BY <1>4 DEF Late, Chores, Discs, Clears
  <2> QED BY <1>2, <1>4, <1>5, <1>6, <2>1, <2>2, Replace2, LiveParts DEF Awaits, Answers, Works
<1>8. (\A k \in N : k.t \in {"update", "return"}) /\ H'.t = "update" BY <1>5, <1>7
<1> HIDE DEF N
<1>9. /\ conn' \in Conns /\ conn'.op = conn.op /\ ~conn'.ignored
      /\ conn'.inTrans <=> conn.inTrans
      /\ conn'.err <=> conn.err \/ conn.inTrans
      /\ conn'.manual <=> conn.manual
      /\ conn'.alive <=> conn.alive
      /\ conn'.auto <=> conn.auto
      /\ conn'.svp <=> conn.svp
      /\ conn'.point <=> conn.point
      /\ conn'.committing <=> conn.committing
  <2> DEFINE b == conn.err \/ conn.inTrans
  <2>1. conn \in Conns BY TypesOf
  <2>2. b \in BOOLEAN BY <2>1 DEF Conns
  <2>3. conn' = [conn EXCEPT !.err = b, !.ignored = FALSE] BY <1>2
  <2> HIDE DEF b
  <2>4. [conn EXCEPT !.err = b, !.ignored = FALSE] \in Conns BY <2>1, <2>2, Zenon DEF Conns
  <2>5. /\ conn'.op = conn.op /\ conn'.ignored = FALSE /\ conn'.inTrans = conn.inTrans
        /\ conn'.err = b /\ conn'.manual = conn.manual /\ conn'.alive = conn.alive
        /\ conn'.auto = conn.auto /\ conn'.svp = conn.svp /\ conn'.point = conn.point
        /\ conn'.committing = conn.committing
    BY <2>1, <2>3 DEF Conns
  <2>6. ~conn'.ignored /\ (conn'.err <=> conn.err \/ conn.inTrans) BY <2>5 DEF b
  <2> QED BY <2>3, <2>4, <2>5, <2>6
<1>10. (conn.err => conn.inTrans) /\ (conn.manual => conn.inTrans) BY <1>2, LiveParts DEF StatusInv
<1> QED BY <1>2, <1>3, <1>7, <1>8, <1>9, <1>10, ExtDone
--------------------
(* One command of a query *)
\* The query goes on as e.
WireOn(e) ==
  /\ Top("wire") /\ H.q # << >> /\ e \in Tasks /\ e.t = "wire"
  /\ todo' = <<e>> \o Tail(todo) /\ UNCHANGED <<discardp, ret, last>>
  /\ srv' \in Servers /\ curs' \in [Handles -> Cursors] /\ conn' \in Conns /\ conn'.alive
  /\ conn'.auto <=> conn.auto
  /\ conn'.committing <=> conn.committing
LEMMA WireFacts ==
  ASSUME IInv, conn.alive, NEW e, WireOn(e)
  PROVE  /\ todo # << >> /\ H.t = "wire" /\ Sound(todo) /\ StackInv /\ All(todo) = {H} \cup Rest
         /\ H \in Tasks /\ H \in All(todo)
         /\ \A k \in Rest : k.t \in Lower("wire") /\ k.t \in Ends \cup Chores \cup {"update", "return"}
         /\ Sound(todo') /\ todo' # << >> /\ H' = e /\ Rest' = Rest /\ All(todo') = {e} \cup Rest
         /\ Truthful(todo') /\ BaseInv' /\ "failed" \notin H.f
         /\ \A t : Top(t) <=> t = "wire"
         /\ \A t : Top(t)' <=> t = "wire"
         /\ \A k \in Rest : k \in All(todo')
<1>1. /\ todo # << >> /\ H.t = "wire" /\ Sound(todo) /\ StackInv /\ BaseInv /\ Truthful(todo)
  BY TypesOf, LiveParts DEF WireOn, Top, H
<1>2. /\ All(todo) = {H} \cup Rest /\ H \in Tasks /\ H \in All(todo)
      /\ \A k \in Rest : k.t \in Lower("wire")
  BY <1>1, StackFacts
<1>3. \A k \in Rest : k.t \in Ends \cup Chores \cup {"update", "return"} BY <1>2, Lowers
<1>4. e \in Tasks /\ e.t = "wire" BY DEF WireOn
<1>5. /\ Sound(todo') /\ todo' # << >> /\ H' = e /\ Rest' = Rest /\ All(todo') = {e} \cup Rest
      /\ Truthful(todo')
  BY <1>1, <1>2, <1>4, Replace DEF WireOn, Awaits, Works
<1> DEFINE N == {e}
<1>6. \A k \in N : k.t = "wire" BY <1>4
<1>7. All(todo') = N \cup Rest BY <1>5
<1> HIDE DEF N
<1>8. StackInv'
  <2>1. \A k \in N : k.t \notin HandleTasks /\ Under(k.t) = {} /\ k.t # "on_commit_end"
    BY <1>6 DEF HandleTasks, Under
  <2>2. In("on_commit_end") <=> conn.committing BY <1>1, RestCommit
  <2>3. conn'.committing <=> conn.committing BY DEF WireOn
  <2> QED BY <1>1, <1>5, <1>7, <2>1, <2>2, <2>3, StackFrom
<1>9. BaseInv'
  <2>1. TypeOK' /\ Gone' BY <1>5, TypesOf DEF TypeOK, Gone, Sound, LastType, WireOn
  <2> QED BY <1>8, <2>1 DEF BaseInv
<1>10. (\A t : Top(t)' <=> t = "wire") /\ (\A t : Top(t) <=> t = "wire") BY <1>1, <1>4, <1>5 DEF Top, H
<1>11. "failed" \notin H.f BY <1>10, LiveParts DEF TalkInv, WireInv, WireOn
<1> QED BY <1>1, <1>2, <1>3, <1>5, <1>9, <1>10, <1>11

\* What the stack says of the cursors and of the status, before and after.
LEMMA WireSame ==
  ASSUME IInv, conn.alive, NEW e, WireOn(e)
  PROVE  /\ \A h : Closing(h)' <=> Closing(h)
         /\ \A h : Opening(h)' <=> Opening(h)
         /\ \A h : Marked(h)' <=> Marked(h)
         /\ \A t : t # "wire" => (Has(t)' <=> Has(t))
         /\ \A t : In(t)' <=> In(t)
         /\ \A t : t # "wire" => (Has(t) <=> In(t))
         /\ Busy' <=> Busy
         /\ NewTrans' <=> NewTrans
         /\ ~Unsettled /\ Mirrors /\ Matches
         /\ OnQuery <=> "discard_release" \in H.f
         /\ OnQuery' <=> "discard_release" \in e.f
         /\ Unsettled' <=> e.q = << >>
         /\ \A T : Only(T)' <=> Only(T)
<1>1. /\ H.t = "wire" /\ e.t = "wire" /\ H' = e /\ Rest' = Rest /\ All(todo) = {H} \cup Rest
      /\ All(todo') = {e} \cup Rest /\ (\A t : Top(t) <=> t = "wire") /\ \A t : Top(t)' <=> t = "wire"
  BY WireFacts DEF WireOn
<1>2. discardp' = discardp /\ H.q # << >> BY DEF WireOn
<1>3. /\ \A h : Closing(h)' <=> Closing(h)
      /\ \A h : Opening(h)' <=> Opening(h)
  BY <1>1 DEF Closing, Opening
<1>4. \A h : Marked(h)' <=> Marked(h) BY <1>2 DEF Marked
<1>5. \A t : t # "wire" => (Has(t)' <=> Has(t)) BY <1>1 DEF Has
<1>6. (\A t : In(t)' <=> In(t)) /\ \A t : t # "wire" => (Has(t) <=> In(t)) BY <1>1 DEF In, Has
<1>7. (Busy' <=> Busy) /\ (NewTrans' <=> NewTrans)
  <2>1. \A k : k.t \in Chores \/ k.t = "exec_end" => k # H /\ k # e BY <1>1 DEF Chores, Discs, Clears
  <2>2. Busy' <=> Busy BY <1>1, <2>1 DEF Busy
  <2>3. NewTrans' <=> NewTrans BY <1>1 DEF NewTrans
  <2> QED BY <2>2, <2>3
<1>8. ~Unsettled BY <1>1, <1>2 DEF Unsettled
<1>9. Mirrors /\ Matches BY <1>8, LiveParts DEF StatusInv, Mirrors
<1>10. /\ OnQuery <=> "discard_release" \in H.f
       /\ OnQuery' <=> "discard_release" \in e.f
       /\ Unsettled' <=> e.q = << >>
  BY <1>1 DEF OnQuery, Unsettled
<1>11. \A T : Only(T)' <=> Only(T) BY <1>1 DEF Only
<1> QED BY <1>3, <1>4, <1>5, <1>6, <1>7, <1>8, <1>9, <1>10, <1>11

\* Tasks that wait for a statement or a transaction to end.
Bare == {"exec_end", "stmt_end", "stmt_clean", "transact_end", "set_auto"}
NoMore(f) == f \cap {"query_rollback", "discard_svp", "discard_release", "ignore_abort"} = {}
\* The last command of a query has been executed over tasks that only wait for its end.
LEMMA BareWire ==
  ASSUME IInv, conn.alive, NEW e, WireOn(e), e.q = << >>, NoMore(H.f), NoMore(e.f), Only(Bare),
         \A h \in Handles : (curs'[h].open <=> curs[h].open) /\ (curs'[h].hold <=> curs[h].hold)
                            /\ (curs'[h].perm <=> curs[h].perm),
         conn'.op = "none", conn'.point => conn.point, conn'.ignored => conn.ignored,
         conn.err => conn'.err, conn'.err \/ conn'.svp \/ conn'.manual => conn'.inTrans,
         srv'.st # "IDLE" /\ ~conn'.manual => NewTrans,
         "failed" \in e.f => srv'.st # "INTRANS" /\ (srv'.st = "INERROR" => conn'.err),
         In("transact_end") => srv'.st = "IDLE",
         \A h \in Handles : srv.port[h].st = "held" => srv'.port[h].st = "held",
         SvpInv', LevelInv', OpenInv', PortInv'
  PROVE  IInv'
<1>1. /\ H.t = "wire" /\ e.t = "wire" /\ H' = e /\ Rest' = Rest /\ All(todo) = {H} \cup Rest
      /\ All(todo') = {e} \cup Rest /\ (\A t : Top(t)' <=> t = "wire") /\ \A k \in Rest : k.t \in Bare
      /\ BaseInv' /\ Truthful(todo') /\ \A t : Top(t) <=> t = "wire"
  BY WireFacts DEF WireOn, Only
<1>2. /\ ~Busy /\ ~Busy' /\ (NewTrans' <=> NewTrans) /\ Unsettled' /\ \A h : ~Closing(h) /\ ~Closing(h)'
      /\ \A t \in {"closed", "close_eof", "commit_send", "svp_sent", "opened", "on_commit_end"} :
            ~In(t) /\ ~Has(t)' /\ ~Has(t)
  <2>1. ~Busy BY <1>1 DEF Busy, Bare, Chores, Discs, Clears
  <2>2. \A h : ~Closing(h) BY <1>1 DEF Closing, Bare
  <2>3. \A t \in {"closed", "close_eof", "commit_send", "svp_sent", "opened", "on_commit_end"} : ~In(t)
    BY <1>1 DEF In, Bare
  <2> QED BY <2>1, <2>2, <2>3, WireSame
<1>3. ~conn'.committing /\ ~conn.committing BY <1>2, TypesOf DEF StackInv, WireOn
<1>4. StatusInv' BY <1>2, <1>3, <1>1 DEF StatusInv
<1>5. TalkInv'
  <2>1. SendInv' /\ ~Top("query_rollback")' BY <1>1 DEF SendInv
  <2>2. IF "failed" \in e.f THEN Failing' ELSE Succeeded'
    <3>1. CASE "failed" \in e.f
      <4>1. Only(Ends)' /\ ~In("svp_sent")' BY <1>1, <1>2, WireSame DEF Only, Bare, Ends
      <4> QED BY <1>1, <3>1, <4>1 DEF Failing, NoMore
    <3>2. CASE "failed" \notin e.f BY <1>1, <3>2 DEF Succeeded, NoMore
    <3> QED BY <3>1, <3>2
  <2>3. WireInv' BY <1>1, <2>2 DEF WireInv
  <2> QED BY <2>1, <2>3 DEF TalkInv
<1>6. PermInv' BY <1>2, LiveParts DEF PermInv
<1>7. CloseInv' /\ OpeningInv' /\ IgnInv'
  <2>1. \A k \in All(todo') : k.t \notin {"closed", "moved", "close", "opened"} BY <1>1 DEF Bare
  <2> QED BY <1>1, <1>2, <2>1, LiveParts DEF CloseInv, OpeningInv, IgnInv
<1>8. DiscInv'
  <2>1. \A k \in All(todo) \cup All(todo') : k.t \notin {"discard", "discard_free"} BY <1>1 DEF Bare
  <2>2. discardp # << >> => conn.err BY <1>2, LiveParts DEF DiscInv, Busy, Chores
  <2>3. discardp' = discardp BY DEF WireOn
  <2>4. \A j \in 1..Len(discardp) : discardp[j].type = "p" =>
          /\ discardp[j].h \in Handles /\ ~curs[discardp[j].h].open
          /\ srv.port[discardp[j].h].st = "held"
          /\ \A i \in 1..Len(discardp) :
                i # j /\ discardp[i].type = "p" => discardp[i].h # discardp[j].h
    BY <2>1, LiveParts DEF DiscInv
  <2>5. \A j \in 1..Len(discardp) : discardp[j].type = "p" =>
          ~curs'[discardp[j].h].open /\ srv'.port[discardp[j].h].st = "held"
    BY <2>4
  <2> QED BY <2>1, <2>2, <2>3, <2>4, <2>5 DEF DiscInv
<1>9. RetInv' /\ ExtInv'
  <2>1. \A k \in All(todo') : k.t \notin {"request_start", "exec_ext"} BY <1>1 DEF Bare
  <2>2. Has("transact_end")' => srv'.st = "IDLE" BY WireSame
  <2> QED BY <1>1, <1>2, <2>1, <2>2 DEF RetInv, ExtInv
<1>10. LiveInv' BY <1>1, <1>4, <1>5, <1>6, <1>7, <1>8, <1>9, LiveFrom
<1> QED BY <1>1, <1>10 DEF IInv
\* What the tasks that wait say of the state.
LEMMA BareFacts ==
  ASSUME IInv, conn.alive, NEW e, WireOn(e), NoMore(H.f), NoMore(e.f), Only(Bare)
  PROVE  /\ \A h : ~Closing(h) /\ ~Closing(h)' /\ ~Opening(h) /\ ~Opening(h)' /\ (Marked(h)' <=> Marked(h))
         /\ ~OnQuery /\ ~OnQuery' /\ ~conn.committing /\ ~conn'.committing
         /\ ~Unsettled /\ Mirrors /\ Matches
         /\ Base = Len(srv.svps) /\ Base' = Len(srv'.svps)
         /\ ~Top("stmt_rollback")'
         /\ Has("stmt_end")' <=> Has("stmt_end")
         /\ Has("stmt_clean")' <=> Has("stmt_clean")
         /\ \A h \in Handles : curs[h].open /\ ~curs[h].perm =>
              /\ srv.st # "IDLE"
              /\ \/ srv.port[h].st = "trans" /\ (srv.port[h].hold <=> curs[h].hold)
                 \/ srv.port[h].st = "none" /\ curs[h].doubt /\ ~curs[h].hold
         /\ \A h \in Handles : srv.port[h].st = "trans" =>
              /\ srv.st # "IDLE" /\ srv.port[h].lvl <= Len(srv.svps)
              /\ srv.port[h].hold => \A i \in Indices(srv, "user") : srv.port[h].lvl < i
              /\ conn.point /\ curs[h].open /\ ~curs[h].perm => srv.port[h].lvl < Len(srv.svps)
         /\ \A h \in Handles : srv.port[h].st # "none" /\ ~curs[h].open =>
              \/ srv.port[h].st = "trans" /\ ~srv.port[h].hold
              \/ srv.port[h].st = "held" /\ Marked(h)
         /\ conn.svp /\ srv.st # "IDLE" => Len(srv.svps) > 0 /\ srv.svps[Len(srv.svps)].name = "exec"
         /\ conn.point => Has("stmt_end") \/ Has("stmt_clean")
         /\ conn.svp => srv.st # "IDLE"
<1>1. /\ H.t = "wire" /\ H' = e /\ Rest' = Rest /\ All(todo) = {H} \cup Rest
      /\ (\A t : Top(t)' <=> t = "wire") /\ \A k \in Rest : k.t \in Bare
      /\ \A t : Top(t) <=> t = "wire"
  BY WireFacts DEF Only
<1>2. \A h : ~Closing(h) /\ ~Opening(h) BY <1>1 DEF Closing, Opening, Bare
<1>3. ~OnQuery /\ ~OnQuery' BY WireSame DEF NoMore
<1>4. ~conn.committing BY <1>1, TypesOf DEF StackInv, Has, Bare
<1>5. /\ \A h : ~Closing(h)' /\ ~Opening(h)' /\ (Marked(h)' <=> Marked(h))
      /\ ~Unsettled /\ Mirrors /\ Matches /\ ~conn'.committing
      /\ Has("stmt_end")' <=> Has("stmt_end")
      /\ Has("stmt_clean")' <=> Has("stmt_clean")
  BY <1>2, <1>4, WireSame DEF WireOn
<1>6. Base = Len(srv.svps) /\ Base' = Len(srv'.svps) BY <1>3 DEF Base
<1>7. \A h \in Handles : curs[h].open /\ ~curs[h].perm =>
        /\ srv.st # "IDLE"
        /\ \/ srv.port[h].st = "trans" /\ (srv.port[h].hold <=> curs[h].hold)
           \/ srv.port[h].st = "none" /\ curs[h].doubt /\ ~curs[h].hold
  BY <1>2, <1>4, <1>5, LiveParts DEF OpenInv
<1>8. \A h \in Handles : srv.port[h].st = "trans" =>
        /\ srv.st # "IDLE" /\ srv.port[h].lvl <= Len(srv.svps)
        /\ srv.port[h].hold => \A i \in Indices(srv, "user") : srv.port[h].lvl < i
        /\ conn.point /\ curs[h].open /\ ~curs[h].perm => srv.port[h].lvl < Len(srv.svps)
  BY <1>1, <1>6, LiveParts DEF LevelInv
<1>9. \A h \in Handles : srv.port[h].st # "none" /\ ~curs[h].open =>
        \/ srv.port[h].st = "trans" /\ ~srv.port[h].hold
        \/ srv.port[h].st = "held" /\ Marked(h)
  BY <1>2, LiveParts DEF PortInv
<1>10. /\ conn.svp /\ srv.st # "IDLE" => Len(srv.svps) > 0 /\ srv.svps[Len(srv.svps)].name = "exec"
       /\ conn.point => Has("stmt_end") \/ Has("stmt_clean")
       /\ conn.svp => srv.st # "IDLE"
  BY <1>5, <1>6, LiveParts DEF SvpInv, StatusInv, Matches
<1> QED BY <1>1, <1>2, <1>3, <1>4, <1>5, <1>6, <1>7, <1>8, <1>9, <1>10

\* The command changes no cursor and no savepoint.
LEMMA BareSame ==
  ASSUME IInv, conn.alive, NEW e, WireOn(e), NoMore(H.f), NoMore(e.f), Only(Bare),
         srv'.svps = srv.svps, srv'.port = srv.port, srv.st # "IDLE" => srv'.st # "IDLE",
         curs' = curs, conn'.svp => conn.svp, conn'.point => conn.point
  PROVE  SvpInv' /\ LevelInv' /\ OpenInv' /\ PortInv'
<1>1. Indices(srv', "user") = Indices(srv, "user") BY DEF Indices
<1>2. SvpInv' BY BareFacts DEF SvpInv
<1>3. LevelInv' BY <1>1, BareFacts DEF LevelInv
<1>4. OpenInv' BY BareFacts DEF OpenInv
<1>5. PortInv' BY BareFacts DEF PortInv
<1> QED BY <1>2, <1>3, <1>4, <1>5

\* The transaction has ended, and cursors WITH HOLD with it or not.
LEMMA BareEnded ==
  ASSUME IInv, conn.alive, NEW e, WireOn(e), NoMore(H.f), NoMore(e.f), Only(Bare), e.q = << >>,
         srv'.st = "IDLE", NEW keep \in BOOLEAN,
         \A h \in Handles :
            srv'.port[h].st = IF srv.port[h].st = "held"
                                 \/ (keep /\ srv.port[h].st = "trans" /\ srv.port[h].hold)
                              THEN "held" ELSE "none",
         \A h \in Handles : (curs'[h].open <=> curs[h].open) /\ (curs'[h].hold <=> curs[h].hold)
                            /\ (curs'[h].perm <=> curs[h].perm),
         conn'.inTrans, srv.st # "IDLE" => (keep <=> ~conn'.err), conn'.point => conn.point
  PROVE  SvpInv' /\ LevelInv' /\ OpenInv' /\ PortInv'
<1>1. SvpInv' BY BareFacts DEF SvpInv
<1>2. LevelInv' BY DEF LevelInv
<1>3. OpenInv'
  <2>1. Unsettled' BY WireSame
  <2> QED BY <2>1, BareFacts DEF OpenInv
<1>4. PortInv' BY BareFacts DEF PortInv
<1> QED BY <1>1, <1>2, <1>3, <1>4

\* SAVEPOINT by the application.
LEMMA BareSavepoint ==
  ASSUME IInv, conn.alive, NEW e, WireOn(e), NoMore(H.f), NoMore(e.f), Only(Bare),
         srv.st = "INTRANS", srv'.st = "INTRANS", srv'.port = srv.port,
         Len(srv'.svps) = Len(srv.svps) + 1,
         \A j \in 1..Len(srv.svps) : srv'.svps[j] = srv.svps[j],
         curs' = curs, ~conn'.svp, ~conn'.point
  PROVE  SvpInv' /\ LevelInv' /\ OpenInv' /\ PortInv'
<1>1. SvpInv' BY BareFacts DEF SvpInv
<1>2. Len(srv.svps) \in Nat /\ srv.port \in [Handles -> Ports] BY TypesOf, ServerFields
<1>3. LevelInv'
  <2> SUFFICES ASSUME NEW h \in Handles, srv.port[h].st = "trans"
               PROVE  /\ srv.port[h].lvl <= Base'
                      /\ srv.port[h].hold => \A i \in Indices(srv', "user") : srv.port[h].lvl < i
    BY DEF LevelInv
  <2>1. /\ srv.port[h].lvl <= Len(srv.svps) /\ Base' = Len(srv'.svps) /\ srv.port[h].lvl \in Nat
        /\ srv.port[h].hold => \A i \in Indices(srv, "user") : srv.port[h].lvl < i
    BY <1>2, BareFacts, PortFields
  <2>2. \A i \in Indices(srv', "user") : i \in Indices(srv, "user") \/ i = Len(srv.svps) + 1
    BY <1>2 DEF Indices
  <2> QED BY <1>2, <2>1, <2>2
<1>4. OpenInv' BY BareFacts DEF OpenInv
<1>5. PortInv' BY BareFacts DEF PortInv
<1> QED BY <1>1, <1>3, <1>4, <1>5
\* RELEASE by the application.
LEMMA BareReleased ==
  ASSUME IInv, conn.alive, NEW e, WireOn(e), NoMore(H.f), NoMore(e.f), Only(Bare),
         NEW i \in 1..Len(srv.svps), srv' = Released(srv, i),
         curs' = curs, ~conn'.svp, ~conn'.point
  PROVE  SvpInv' /\ LevelInv' /\ OpenInv' /\ PortInv'
<1>1. /\ srv'.st = srv.st /\ Len(srv'.svps) = i - 1
      /\ \A j \in 1..(i - 1) : srv'.svps[j] = srv.svps[j]
      /\ \A h \in Handles :
           /\ srv'.port[h].st = srv.port[h].st
           /\ srv'.port[h].hold <=> srv.port[h].hold
           /\ srv'.port[h].lvl = IF srv.port[h].lvl >= i THEN i - 1 ELSE srv.port[h].lvl
      /\ Len(srv.svps) \in Nat /\ srv.port \in [Handles -> Ports]
  BY TypesOf, ServerFields, ReleasedTo
<1>2. SvpInv' BY BareFacts DEF SvpInv
<1>3. LevelInv'
  <2> SUFFICES ASSUME NEW h \in Handles, srv.port[h].st = "trans"
               PROVE  /\ srv'.st # "IDLE" /\ srv'.port[h].lvl <= Base'
                      /\ srv'.port[h].hold => \A j \in Indices(srv', "user") : srv'.port[h].lvl < j
    BY <1>1 DEF LevelInv
  <2>1. /\ srv.st # "IDLE" /\ Base' = i - 1 /\ srv.port[h].lvl \in Nat
        /\ srv.port[h].hold => \A j \in Indices(srv, "user") : srv.port[h].lvl < j
    BY <1>1, BareFacts, PortFields
  <2>2. \A j \in Indices(srv', "user") : j \in Indices(srv, "user") /\ j \in Nat BY <1>1 DEF Indices
  <2>3. srv'.port[h].lvl <= srv.port[h].lvl /\ srv'.port[h].lvl <= i - 1 /\ srv'.port[h].lvl \in Nat
    BY <1>1, <2>1
  <2>4. srv'.port[h].hold => \A j \in Indices(srv', "user") : srv'.port[h].lvl < j
    BY <1>1, <2>1, <2>2, <2>3
  <2> QED BY <1>1, <2>1, <2>3, <2>4
<1>4. OpenInv' BY <1>1, BareFacts DEF OpenInv
<1>5. PortInv' BY <1>1, BareFacts DEF PortInv
<1> QED BY <1>2, <1>3, <1>4, <1>5

\* ROLLBACK TO by the application: its cursors may be gone.
LEMMA BareRolledBack ==
  ASSUME IInv, conn.alive, NEW e, WireOn(e), NoMore(H.f), NoMore(e.f), Only(Bare),
         NEW i \in Indices(srv, "user"), srv' = RolledBackTo(srv, i),
         \A h \in Handles : (curs'[h].open <=> curs[h].open) /\ (curs'[h].hold <=> curs[h].hold)
                            /\ (curs'[h].perm <=> curs[h].perm)
                            /\ (curs[h].open /\ ~curs[h].perm => curs'[h].doubt),
         ~conn'.svp, ~conn'.point
  PROVE  SvpInv' /\ LevelInv' /\ OpenInv' /\ PortInv'
<1>1. i \in 1..Len(srv.svps) /\ Len(srv.svps) \in Nat /\ srv.port \in [Handles -> Ports]
  BY TypesOf, ServerFields DEF Indices
<1>2. /\ srv'.st = "INTRANS" /\ Len(srv'.svps) = i /\ \A j \in 1..i : srv'.svps[j] = srv.svps[j]
      /\ \A h \in Handles :
           srv'.port[h] = IF srv.port[h].st = "trans" /\ srv.port[h].lvl >= i THEN NoPort
                          ELSE srv.port[h]
      /\ NoPort.st = "none"
  BY <1>1, TypesOf, RolledBack, NoPortType
<1>3. SvpInv' BY BareFacts DEF SvpInv
<1>4. \A h \in Handles : srv.port[h].st = "trans" =>
        /\ srv.port[h].lvl \in Nat
        /\ srv.port[h].hold => \A j \in Indices(srv, "user") : srv.port[h].lvl < j
  BY <1>1, BareFacts, PortFields
<1>5. LevelInv'
  <2> SUFFICES ASSUME NEW h \in Handles, srv'.port[h].st = "trans"
               PROVE  /\ srv'.port[h].lvl <= Base'
                      /\ srv'.port[h].hold => \A j \in Indices(srv', "user") : srv'.port[h].lvl < j
    BY <1>2 DEF LevelInv
  <2>1. srv'.port[h] = srv.port[h] /\ srv.port[h].st = "trans" /\ ~(srv.port[h].lvl >= i) BY <1>2
  <2>2. \A j \in Indices(srv', "user") : j \in Indices(srv, "user") BY <1>1, <1>2 DEF Indices
  <2>3. Base' = i BY <1>2, BareFacts
  <2> QED BY <1>1, <1>4, <2>1, <2>2, <2>3
<1>6. \A h \in Handles : srv.port[h].st = "trans" /\ srv.port[h].hold => srv'.port[h] = srv.port[h]
  BY <1>1, <1>2, <1>4
<1>7. OpenInv'
  <2> SUFFICES ASSUME NEW h \in Handles, curs[h].open, ~curs[h].perm
               PROVE  \/ srv'.port[h].st = "trans" /\ (srv'.port[h].hold <=> curs[h].hold)
                      \/ srv'.port[h].st = "none" /\ ~curs[h].hold
    BY <1>2 DEF OpenInv
  <2>1. \/ srv.port[h].st = "trans" /\ (srv.port[h].hold <=> curs[h].hold)
        \/ srv.port[h].st = "none" /\ ~curs[h].hold
    BY BareFacts
  <2> QED BY <1>2, <1>6, <2>1
<1>8. PortInv'
  <2> SUFFICES ASSUME NEW h \in Handles, srv'.port[h].st # "none", ~curs[h].open
               PROVE  \/ srv'.port[h].st = "trans" /\ (srv'.port[h].hold => Opening(h)')
                      \/ srv'.port[h].st = "held" /\ Marked(h)'
    BY DEF PortInv
  <2>1. srv'.port[h] = srv.port[h] BY <1>2
  <2> QED BY <2>1, BareFacts
<1> QED BY <1>3, <1>5, <1>7, <1>8
--------------------
(* The result of one command *)
\* A record with other fields of the transaction.
LEMMA ConnWith ==
  ASSUME NEW c \in Conns, NEW b \in BOOLEAN, NEW d \in BOOLEAN
  PROVE  /\ [c EXCEPT !.inTrans = b] \in Conns
         /\ [c EXCEPT !.inTrans = b, !.manual = d] \in Conns
         /\ [c EXCEPT !.svp = b] \in Conns
  BY Zenon DEF Conns
\* What a result says of the driver's record c.
Tagged(c, f, tag, n) ==
  /\ conn' \in Conns
  /\ conn'.alive <=> c.alive
  /\ conn'.auto <=> c.auto
  /\ conn'.committing <=> c.committing
  /\ conn'.ignored <=> c.ignored
  /\ conn'.inTrans <=> c.inTrans \/ n \/ tag = "BEGIN"
  /\ conn'.manual <=> c.manual \/ tag = "BEGIN"
  /\ conn'.err <=> c.err \/ tag = "ROLLBACK"
  /\ conn'.op = IF tag = "SAVEPOINT" /\ "discard_svp" \notin f /\ c.op = "savepoint"
                THEN "none" ELSE c.op
  /\ conn'.point <=> \/ c.point
                     \/ tag = "SAVEPOINT" /\ "discard_svp" \notin f /\ c.op = "savepoint"
  /\ conn'.svp <=>
       \/ tag = "SAVEPOINT" /\ "discard_svp" \notin f /\ c.op = "savepoint"
       \/ c.svp /\ tag = "SAVEPOINT" /\ "discard_svp" \in f
       \/ c.svp /\ tag = "RELEASE" /\ "discard_release" \in f
       \/ c.svp /\ tag \notin {"SAVEPOINT", "RELEASE", "ROLLBACK"}
LEMMA TaggedIs ==
  ASSUME NEW c \in Conns, NEW f, NEW tag \in Tags, conn' = TagConn(c, f, tag)
  PROVE  Tagged(c, f, tag, FALSE)
<1> PICK b \in BOOLEAN : b = TRUE OBVIOUS
<1> PICK d \in BOOLEAN : d = FALSE OBVIOUS
<1>1. CASE tag = "BEGIN"
  <2>1. conn' = [c EXCEPT !.inTrans = b, !.manual = b] BY <1>1 DEF TagConn
  <2>2. conn' \in Conns BY <2>1, ConnWith
  <2>3. /\ conn'.inTrans = b /\ conn'.manual = b /\ conn'.alive = c.alive /\ conn'.auto = c.auto
        /\ conn'.committing = c.committing /\ conn'.ignored = c.ignored /\ conn'.err = c.err
        /\ conn'.op = c.op /\ conn'.point = c.point /\ conn'.svp = c.svp
    BY <2>1 DEF Conns
  <2> QED BY <1>1, <2>2, <2>3 DEF Tagged
<1>2. CASE tag = "ROLLBACK"
  <2>1. conn' = [c EXCEPT !.err = b, !.svp = d, !.prev = d, !.prog = b] BY <1>2 DEF TagConn
  <2>4. [c EXCEPT !.err = b, !.svp = d, !.prev = d, !.prog = b] \in Conns BY Zenon DEF Conns
  <2>2. conn' \in Conns BY <2>1, <2>4, Zenon
  <2>3. /\ conn'.inTrans = c.inTrans /\ conn'.manual = c.manual /\ conn'.alive = c.alive
        /\ conn'.auto = c.auto /\ conn'.committing = c.committing /\ conn'.ignored = c.ignored
        /\ conn'.err = b /\ conn'.op = c.op /\ conn'.point = c.point /\ conn'.svp = d
    BY <2>1 DEF Conns
  <2> QED BY <1>2, <2>2, <2>3 DEF Tagged
<1>3. CASE tag = "SAVEPOINT" /\ "discard_svp" \notin f /\ c.op = "savepoint"
  <2>1. conn' = [c EXCEPT !.point = b, !.svp = b, !.op = "none"] BY <1>3 DEF TagConn
  <2>4. [c EXCEPT !.point = b, !.svp = b, !.op = "none"] \in Conns BY Zenon DEF Conns
  <2>2. conn' \in Conns BY <2>1, <2>4, Zenon
  <2>3. /\ conn'.inTrans = c.inTrans /\ conn'.manual = c.manual /\ conn'.alive = c.alive
        /\ conn'.auto = c.auto /\ conn'.committing = c.committing /\ conn'.ignored = c.ignored
        /\ conn'.err = c.err /\ conn'.op = "none" /\ conn'.point = b /\ conn'.svp = b
    BY <2>1 DEF Conns
  <2> QED BY <1>3, <2>2, <2>3 DEF Tagged
<1>4. CASE \/ tag = "SAVEPOINT" /\ "discard_svp" \notin f /\ c.op # "savepoint"
           \/ tag = "RELEASE" /\ "discard_release" \notin f
  <2>1. conn' = [c EXCEPT !.svp = d] BY <1>4 DEF TagConn
  <2>2. conn' \in Conns BY <2>1, ConnWith
  <2>3. /\ conn'.inTrans = c.inTrans /\ conn'.manual = c.manual /\ conn'.alive = c.alive
        /\ conn'.auto = c.auto /\ conn'.committing = c.committing /\ conn'.ignored = c.ignored
        /\ conn'.err = c.err /\ conn'.op = c.op /\ conn'.point = c.point /\ conn'.svp = d
    BY <2>1 DEF Conns
  <2> QED BY <1>4, <2>2, <2>3 DEF Tagged
<1>5. CASE \/ tag \in {"COMMIT", "OTHER", "ERROR"}
           \/ tag = "SAVEPOINT" /\ "discard_svp" \in f
           \/ tag = "RELEASE" /\ "discard_release" \in f
  <2>1. conn' = c BY <1>5 DEF TagConn
  <2> QED BY <1>5, <2>1 DEF Tagged
<1> QED BY <1>1, <1>2, <1>3, <1>4, <1>5 DEF Tags

\* The flags after a result.
LEMMA TagFlagsIs ==
  ASSUME NEW f \in SUBSET Flags, NEW tag
  PROVE  /\ TagFlags(f, tag) \in SUBSET Flags
         /\ \A x : x \notin {"discard_svp", "discard_release"} => (x \in TagFlags(f, tag) <=> x \in f)
         /\ "discard_svp" \in TagFlags(f, tag) <=> "discard_svp" \in f /\ tag # "SAVEPOINT"
         /\ "discard_release" \in TagFlags(f, tag) <=>
              IF tag = "SAVEPOINT" THEN "discard_svp" \in f \/ "discard_release" \in f
              ELSE tag # "RELEASE" /\ "discard_release" \in f
<1>1. CASE tag = "SAVEPOINT" /\ "discard_svp" \in f
  <2>1. TagFlags(f, tag) = (f \ {"discard_svp"}) \cup {"discard_release"} BY <1>1 DEF TagFlags
  <2> QED BY <1>1, <2>1 DEF Flags
<1>2. CASE tag = "RELEASE"
  <2>1. TagFlags(f, tag) = f \ {"discard_release"} BY <1>2 DEF TagFlags
  <2> QED BY <1>2, <2>1 DEF Flags
<1>3. CASE tag # "RELEASE" /\ ~(tag = "SAVEPOINT" /\ "discard_svp" \in f)
  <2>1. TagFlags(f, tag) = f BY <1>3 DEF TagFlags
  <2> QED BY <1>3, <2>1
<1> QED BY <1>1, <1>2, <1>3

\* Every cursor the transaction holds is in doubt after a ROLLBACK.
LEMMA TagCursorsIs ==
  ASSUME curs \in [Handles -> Cursors], NEW tag, curs' = TagCursors(tag)
  PROVE  /\ curs' \in [Handles -> Cursors]
         /\ tag # "ROLLBACK" => curs' = curs
         /\ \A h \in Handles : /\ curs'[h].open <=> curs[h].open
                               /\ curs'[h].hold <=> curs[h].hold
                               /\ curs'[h].perm <=> curs[h].perm
                               /\ tag = "ROLLBACK" /\ curs[h].open /\ ~curs[h].perm => curs'[h].doubt
<1> PICK b \in BOOLEAN : b = TRUE OBVIOUS
<1>1. CASE tag # "ROLLBACK" BY <1>1 DEF TagCursors
<1>2. CASE tag = "ROLLBACK"
  <2>1. curs' = [h \in Handles |-> IF curs[h].open /\ ~curs[h].perm
                                   THEN [curs[h] EXCEPT !.doubt = b] ELSE curs[h]]
    BY <1>2 DEF TagCursors
  <2>2. \A c \in Cursors : [c EXCEPT !.doubt = b] \in Cursors BY Zenon DEF Cursors
  <2>3. \A c \in Cursors : /\ [c EXCEPT !.doubt = b].open = c.open
                           /\ [c EXCEPT !.doubt = b].hold = c.hold
                           /\ [c EXCEPT !.doubt = b].perm = c.perm
                           /\ [c EXCEPT !.doubt = b].doubt = b
    BY DEF Cursors
  <2>4. \A h \in Handles : curs[h] \in Cursors OBVIOUS
  <2>5. \A h \in Handles : /\ curs'[h] \in Cursors
                           /\ curs'[h] = curs[h] \/ curs'[h] = [curs[h] EXCEPT !.doubt = b]
                           /\ curs[h].open /\ ~curs[h].perm => curs'[h] = [curs[h] EXCEPT !.doubt = b]
    BY <2>1, <2>2, <2>4
  <2>6. curs' \in [Handles -> Cursors] BY <2>1, <2>5
  <2>7. \A h \in Handles : /\ curs'[h].open <=> curs[h].open
                           /\ curs'[h].hold <=> curs[h].hold
                           /\ curs'[h].perm <=> curs[h].perm
                           /\ curs[h].open /\ ~curs[h].perm => curs'[h].doubt
    <3> SUFFICES ASSUME NEW h \in Handles
                 PROVE  /\ curs'[h].open <=> curs[h].open
                        /\ curs'[h].hold <=> curs[h].hold
                        /\ curs'[h].perm <=> curs[h].perm
                        /\ curs[h].open /\ ~curs[h].perm => curs'[h].doubt
      OBVIOUS
    <3> PICK x : x = curs[h] OBVIOUS
    <3> PICK y : y = curs'[h] OBVIOUS
    <3>1. x \in Cursors /\ (y = x \/ y = [x EXCEPT !.doubt = b])
          /\ (x.open /\ ~x.perm => y = [x EXCEPT !.doubt = b])
      BY <2>5
    <3>2. y.open = x.open /\ y.hold = x.hold /\ y.perm = x.perm BY <2>3, <3>1
    <3>3. x.open /\ ~x.perm => y.doubt BY <2>3, <3>1
    <3> QED BY <3>2, <3>3
  <2> QED BY <1>2, <2>6, <2>7
<1> QED BY <1>1, <1>2

\* The command succeeds with the reply r, and the query goes on as e.
Went(r, e) ==
  /\ Top("wire") /\ H.q # << >> /\ conn.alive
  /\ r \in Replies(srv, Head(H.q)) /\ r.tag # "ERROR" /\ srv' = r.srv
  /\ conn' = TagConn(Noticed(conn, r), H.f, r.tag)
  /\ curs' = TagCursors(r.tag)
  /\ e = [H EXCEPT !.q = Tail(H.q), !.f = TagFlags(H.f, r.tag)]
  /\ todo' = <<e>> \o Tail(todo) /\ UNCHANGED <<discardp, ret, last>>
\* It fails, and the rest of the query is skipped.
Stopped(r, e) ==
  /\ Top("wire") /\ H.q # << >> /\ conn.alive
  /\ r \in Replies(srv, Head(H.q)) /\ r.tag = "ERROR" /\ srv' = r.srv
  /\ conn' = [conn EXCEPT !.err = @ \/ conn.inTrans, !.inTrans = TRUE, !.ignored = FALSE]
  /\ e = [H EXCEPT !.q = << >>, !.f = H.f \cup {"failed"}]
  /\ todo' = <<e>> \o Tail(todo) /\ UNCHANGED <<curs, discardp, ret, last>>
LEMMA WireOkIs ==
  ASSUME WireOk
  PROVE  conn.alive /\ \E r, e : Went(r, e)
<1>1. PICK r \in Replies(srv, Head(H.q)) :
        /\ r.tag # "ERROR" /\ srv' = r.srv
        /\ conn' = TagConn(Noticed(conn, r), H.f, r.tag)
        /\ curs' = TagCursors(r.tag)
        /\ Then(<<[H EXCEPT !.q = Tail(@), !.f = TagFlags(@, r.tag)]>>)
  BY DEF WireOk, H
<1>2. Top("wire") /\ H.q # << >> /\ conn.alive /\ UNCHANGED <<discardp, ret, last>> BY DEF WireOk, H
<1>3. PICK e : e = [H EXCEPT !.q = Tail(@), !.f = TagFlags(@, r.tag)] OBVIOUS
<1>4. todo' = <<e>> \o Tail(todo) BY <1>1, <1>3 DEF Then
<1>5. e = [H EXCEPT !.q = Tail(H.q), !.f = TagFlags(H.f, r.tag)] BY <1>3
<1>6. Went(r, e) BY <1>1, <1>2, <1>4, <1>5, Zenon DEF Went
<1> QED BY <1>2, <1>6
LEMMA WireErrorIs ==
  ASSUME WireError
  PROVE  conn.alive /\ \E r, e : Stopped(r, e)
<1>1. PICK r \in Replies(srv, Head(H.q)) :
        /\ r.tag = "ERROR" /\ srv' = r.srv
        /\ conn' = [conn EXCEPT !.err = @ \/ conn.inTrans, !.inTrans = TRUE, !.ignored = FALSE]
        /\ Then(<<[H EXCEPT !.q = << >>, !.f = @ \cup {"failed"}]>>)
  BY DEF WireError, H
<1>2. Top("wire") /\ H.q # << >> /\ conn.alive /\ UNCHANGED <<curs, discardp, ret, last>>
  BY DEF WireError, H
<1>3. PICK e : e = [H EXCEPT !.q = << >>, !.f = @ \cup {"failed"}] OBVIOUS
<1>4. todo' = <<e>> \o Tail(todo) BY <1>1, <1>3 DEF Then
<1>5. e = [H EXCEPT !.q = << >>, !.f = H.f \cup {"failed"}] BY <1>3
<1>6. Stopped(r, e) BY <1>1, <1>2, <1>4, <1>5, Zenon DEF Stopped
<1> QED BY <1>2, <1>6
=============================================================================
