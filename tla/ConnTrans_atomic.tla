-------------------------- MODULE ConnTrans_atomic --------------------------
(* Proofs about ConnTrans: a failed statement is undone alone.  What this  *)
(* rests on beyond the invariant of ConnTrans_proofs is AInv: which writes *)
(* a statement has to account for (CountInv), and where the transaction it *)
(* may go back to is kept (AtomInv).                                       *)
EXTENDS ConnTrans_proofs

\* The habits are none.
Cautious == Risky = {}

\* The transaction has written something that ROLLBACK would undo.
Wrote(s) == s.st # "IDLE" /\ (s.w > 0 \/ \E i \in 1..Len(s.svps) : s.svps[i].w > 0)
Blank == srv.st = "IDLE" => srv.w = 0 /\ srv.svps = << >>
\* The statement under way counts as one that writes.
Noted == conn.acc /\ ~conn.prog
Undoing == Top("abort") \/ ((Top("send") \/ Top("wire")) /\ One(H.q, Cmd("rollback")))
\* A statement that may write, or has, is accounted for before the next one begins.
AccInv ==
  /\ conn.acc => /\ Has("stmt_end") \/ Has("stmt_clean")
                 /\ last.op \notin EndKinds
                 /\ conn.prog => srv.st = "IDLE" /\ conn.inTrans
  /\ conn.point \/ conn.op # "none" => conn.acc /\ ~conn.prev
PrevInv ==
  Wrote(srv) /\ conn.prev =>
     Undoing \/ (Noted /\ (Has("stmt_end") \/ (Has("stmt_clean") /\ ~last.failed)))
CatalogInv ==
  Top("send") /\ "stmt" \in H.f /\ {"read_only", "inner"} \cap H.f # {} =>
     ~conn.inTrans /\ "begin" \notin H.f /\ One(H.q, Cmd("read"))
WriteInv ==
  Top("wire") /\ H.q # << >> /\ H.q[Len(H.q)].op = "write" =>
     Noted \/ srv.st = "INERROR" \/ (srv.st = "IDLE" /\ Head(H.q).op = "write")
ExtWriteInv ==
  Has("exec_ext") /\ ~Has("request_start") /\ last.op = "write" =>
     (Top("exec_ext") /\ srv.st = "INERROR") \/ (Noted /\ (srv.st = "IDLE" => ~conn.inTrans))
CountInv == Blank /\ AccInv /\ PrevInv /\ CatalogInv /\ WriteInv /\ ExtWriteInv

\* A statement in a transaction that has written.
Atom == last.op \in {"write", "open"} /\ last.st = "INTRANS" /\ last.w > 0
Replied == (Top("exec_end") \/ Top("opened") \/ Top("stmt_end")) /\ ret = "error"
Erring == \/ Top("wire") /\ "failed" \in H.f
          \/ \E r \in All(todo) : r.t = "return" /\ "ok" \notin r.f
          \/ Replied
\* Its savepoint is yet to be set, or is the latest one.
Before == /\ InUse /\ srv.w = last.w /\ ~conn.prev /\ ~conn.point
          /\ \/ Top("request_start")
             \/ Top("send") /\ (conn.op = "none" => "stmt" \in H.f)
             \/ Top("wire") /\ conn.op # "none"
Shield == /\ conn.point /\ conn.svp /\ srv.st # "IDLE" /\ ~OnQuery
          /\ srv.svps[Len(srv.svps)].w = last.w
Shielded == /\ Shield /\ (Top("wire") => NoQuery)
            /\ conn.err \/ Erring => srv.st = "INERROR"
Undone == \/ Top("stmt_rollback") /\ Shield /\ conn.err
          \/ /\ InUse /\ srv.w = last.w /\ ~Ending
             /\ Top("send") \/ Top("wire") => Busy
AtomInv == Atom =>
  /\ Quiet \/ Has("stmt_end") \/ Has("stmt_clean")
  /\ Has("stmt_end") => ~Busy /\ (Before \/ Shielded)
  /\ last.failed /\ ~Has("stmt_end") => Undone
SafeInv == CountInv /\ AtomInv
AInv == /\ ~conn.alive => ~conn.acc
        /\ conn.alive /\ conn.mode = 2 => SafeInv
LEMMA SafeParts ==
  ASSUME SafeInv
  PROVE  Blank /\ AccInv /\ PrevInv /\ CatalogInv /\ WriteInv /\ ExtWriteInv /\ AtomInv
BY DEF SafeInv, CountInv
LEMMA SafeFrom ==
  ASSUME Blank', AccInv', PrevInv', CatalogInv', WriteInv', ExtWriteInv', AtomInv'
  PROVE  SafeInv'
BY DEF SafeInv, CountInv
\* What the accounts depend on stays.
AccSame ==
  /\ conn'.alive <=> conn.alive
  /\ conn'.mode = conn.mode
  /\ conn'.acc <=> conn.acc
  /\ conn'.prog <=> conn.prog
  /\ conn'.prev <=> conn.prev
  /\ conn'.point <=> conn.point
  /\ conn'.svp <=> conn.svp
AccTasks == {"exec_ext", "request_start", "stmt_end", "stmt_clean", "stmt_rollback"}
\* The tasks of N take the place of the top one, and the server does nothing.
Framed(N) ==
  /\ Sound(todo) /\ todo # << >> /\ All(todo') = N \cup Rest /\ (todo' # << >> => H' \in N \cup Rest)
  /\ srv' = srv /\ last' = last /\ AccSame /\ (conn'.op = conn.op \/ conn'.op = "none")
  /\ srv.st = "IDLE" => (conn'.inTrans <=> conn.inTrans)
  /\ H.t \notin AccTasks /\ H.t # "send" /\ (H.t = "wire" => H.q = << >>)
  /\ \A k \in N : k.t \notin AccTasks /\ k.t # "wire" /\ (k.t = "send" => "stmt" \notin k.f)
LEMMA UnderTop ==
  ASSUME Sound(todo), todo # << >>
  PROVE  /\ \A t : Has(t) <=> H.t = t \/ In(t)
         /\ \A t : In(t) => t \in Lower(H.t) /\ t \in Ends \cup Chores \cup {"update", "return"}
         /\ \A t : Top(t) <=> H.t = t
<1>1. All(todo) = {H} \cup Rest /\ \A k \in Rest : k.t \in Lower(H.t) BY StackFacts
<1>2. \A t : Has(t) <=> H.t = t \/ In(t) BY <1>1 DEF Has, In
<1>3. \A t : In(t) => t \in Lower(H.t) BY <1>1 DEF In
<1>4. \A t : In(t) => t \in Ends \cup Chores \cup {"update", "return"} BY <1>3, Lowers
<1>5. \A t : Top(t) <=> H.t = t BY DEF Top, H
<1> QED BY <1>2, <1>3, <1>4, <1>5
LEMMA FramedTasks ==
  ASSUME NEW N, Framed(N)
  PROVE  /\ \A t \in AccTasks : (Has(t)' <=> Has(t)) /\ (Has(t) <=> In(t)) /\ ~Top(t)
         /\ ~Top("wire")' /\ (Top("send")' => "stmt" \notin H'.f)
         /\ \A t : Top(t)' => (\E k \in N : k = H' /\ k.t = t) \/ In(t)
         /\ ~Quiet /\ ~Top("send") /\ (Top("wire") => H.q = << >>)
<1>1. Sound(todo) /\ todo # << >> /\ All(todo') = N \cup Rest /\ (todo' # << >> => H' \in N \cup Rest)
  BY DEF Framed
<1>2. /\ H.t \notin AccTasks /\ H.t # "send" /\ (H.t = "wire" => H.q = << >>)
      /\ \A k \in N : k.t \notin AccTasks /\ k.t # "wire" /\ (k.t = "send" => "stmt" \notin k.f)
  BY DEF Framed
<1>3. /\ \A t : Has(t) <=> H.t = t \/ In(t)
      /\ \A t : In(t) => t \in Ends \cup Chores \cup {"update", "return"}
      /\ \A t : Top(t) <=> H.t = t
  BY <1>1, UnderTop
<1>4. \A t : Has(t)' <=> (\E k \in N : k.t = t) \/ In(t) BY <1>1 DEF Has, In
<1>5. \A t \in AccTasks : (Has(t)' <=> Has(t)) /\ (Has(t) <=> In(t)) /\ ~Top(t) BY <1>2, <1>3, <1>4
<1>6. \A t : Top(t)' => (\E k \in N : k = H' /\ k.t = t) \/ In(t) BY <1>1 DEF Top, H, In
<1>7. ~In("wire") /\ ~In("send") BY <1>3 DEF Ends, Chores, Discs, Clears
<1>8. ~Top("wire")' /\ (Top("send")' => "stmt" \notin H'.f) BY <1>2, <1>6, <1>7
<1> QED BY <1>1, <1>2, <1>3, <1>5, <1>6, <1>8 DEF Quiet
LEMMA FramedCount ==
  ASSUME SafeInv, NEW N, Framed(N), Undoing /\ srv.st # "IDLE" => Undoing'
  PROVE  Blank' /\ AccInv' /\ PrevInv' /\ CatalogInv' /\ WriteInv' /\ ExtWriteInv'
<1>1. /\ \A t \in AccTasks : (Has(t)' <=> Has(t)) /\ (Has(t) <=> In(t)) /\ ~Top(t)
      /\ ~Top("wire")' /\ (Top("send")' => "stmt" \notin H'.f)
  BY FramedTasks
<1>2. /\ srv' = srv /\ last' = last /\ AccSame /\ (conn'.op = conn.op \/ conn'.op = "none")
      /\ srv.st = "IDLE" => (conn'.inTrans <=> conn.inTrans)
  BY DEF Framed
<1>3. Blank' BY <1>2, SafeParts DEF Blank
<1>4. (Has("stmt_end")' <=> Has("stmt_end")) /\ (Has("stmt_clean")' <=> Has("stmt_clean"))
      /\ (Has("exec_ext")' <=> Has("exec_ext")) /\ (Has("request_start")' <=> Has("request_start"))
      /\ ~Top("exec_ext")
  BY <1>1 DEF AccTasks
<1>5. AccInv' BY <1>2, <1>4, SafeParts DEF AccInv, AccSame
<1>6. Noted' <=> Noted BY <1>2 DEF Noted, AccSame
<1>7. PrevInv'
  <2>1. Wrote(srv)' <=> Wrote(srv) BY <1>2
  <2> QED BY <1>2, <1>4, <1>6, <2>1, SafeParts DEF PrevInv, AccSame, Wrote
<1>8. CatalogInv' /\ WriteInv' BY <1>1 DEF CatalogInv, WriteInv
<1>9. ExtWriteInv' BY <1>2, <1>4, <1>6, SafeParts DEF ExtWriteInv
<1> QED BY <1>3, <1>5, <1>7, <1>8, <1>9
LEMMA FramedSafe ==
  ASSUME IInv, conn.alive, SafeInv, NEW N, Framed(N), Undoing /\ srv.st # "IDLE" => Undoing',
         In("stmt_end") /\ ~Busy /\ Shielded =>
            /\ ~Busy' /\ ~Top("query_rollback")'
            /\ conn'.err => conn.err \/ srv.st = "INERROR"
            /\ Erring' => Erring \/ srv.st = "INERROR",
         In("stmt_clean") /\ ~Ending => ~Ending' /\ (Top("send")' => Busy')
  PROVE  SafeInv'
<1>1. /\ \A t \in AccTasks : (Has(t)' <=> Has(t)) /\ (Has(t) <=> In(t)) /\ ~Top(t)
      /\ ~Top("wire")' /\ ~Quiet /\ ~Top("send") /\ (Top("wire") => H.q = << >>)
  BY FramedTasks
<1>2. /\ srv' = srv /\ last' = last /\ AccSame BY DEF Framed
<1>3. /\ Has("stmt_end")' <=> Has("stmt_end")
      /\ Has("stmt_clean")' <=> Has("stmt_clean")
      /\ Has("stmt_end") <=> In("stmt_end")
      /\ Has("stmt_clean") <=> In("stmt_clean")
      /\ ~Top("request_start") /\ ~Top("stmt_rollback")
  BY <1>1 DEF AccTasks
<1>4. AtomInv'
  <2> SUFFICES ASSUME Atom'
               PROVE  /\ Quiet' \/ Has("stmt_end")' \/ Has("stmt_clean")'
                      /\ Has("stmt_end")' => ~Busy' /\ (Before' \/ Shielded')
                      /\ last'.failed /\ ~Has("stmt_end")' => Undone'
    BY DEF AtomInv
  <2>1. Atom BY <1>2 DEF Atom
  <2>2. /\ Has("stmt_end") \/ Has("stmt_clean")
        /\ Has("stmt_end") => ~Busy /\ (Before \/ Shielded)
        /\ last.failed /\ ~Has("stmt_end") => Undone
    BY <1>1, <2>1, SafeParts DEF AtomInv
  <2>3. ASSUME Has("stmt_end") PROVE ~Busy' /\ Shielded'
    <3>1. ~Before
      <4>1. Top("wire") => conn.op = "none" BY <1>1, DoneFacts
      <4> QED BY <1>1, <1>3, <4>1 DEF Before
    <3>2. Shielded /\ ~Busy BY <2>2, <2>3, <3>1
    <3>3. /\ ~Busy' /\ ~Top("query_rollback")'
          /\ conn'.err => conn.err \/ srv.st = "INERROR"
          /\ Erring' => Erring \/ srv.st = "INERROR"
      BY <1>3, <2>3, <3>2
    <3>4. Shield' BY <1>1, <1>2, <3>2, <3>3 DEF Shield, Shielded, AccSame, OnQuery
    <3> QED BY <1>1, <1>2, <3>2, <3>3, <3>4 DEF Shielded
  <2>4. ASSUME last'.failed, ~Has("stmt_end")' PROVE Undone'
    <3>1. Undone BY <1>2, <1>3, <2>2, <2>4
    <3>2. InUse /\ srv.w = last.w /\ ~Ending BY <1>3, <3>1 DEF Undone
    <3>3. ~Ending' /\ (Top("send")' => Busy') BY <1>3, <2>2, <2>4, <3>2
    <3> QED BY <1>1, <1>2, <3>2, <3>3 DEF Undone, InUse
  <2> QED BY <1>3, <2>2, <2>3, <2>4
<1> QED BY <1>4, FramedCount, SafeFrom
\* Nothing takes the place of the top task.
LEMMA PoppedSafe ==
  ASSUME IInv, conn.alive, SafeInv, Framed({}), todo' = Tail(todo), H.t # "abort" \/ srv.st = "IDLE",
         conn'.err => conn.err \/ srv.st = "INERROR",
         In("stmt_end") /\ ~Busy /\ Shielded /\ Replied' => Erring
  PROVE  SafeInv'
<1>1. Sound(todo) /\ todo # << >> /\ All(todo') = Rest BY DEF Framed
<1>2. /\ \A t : Has(t) <=> H.t = t \/ In(t)
      /\ \A t : In(t) => t \in Lower(H.t) /\ t \in Ends \cup Chores \cup {"update", "return"}
      /\ \A t : Top(t) <=> H.t = t
  BY <1>1, UnderTop
<1>3. \A t : Top(t)' => In(t) BY FramedTasks
<1>4. \A t : Has(t)' <=> In(t) BY <1>1 DEF Has, In
<1>5. /\ ~In("send") /\ ~In("wire") /\ ~In("query_rollback") /\ ~In("commit") /\ ~In("abort")
  BY <1>2 DEF Ends, Chores, Discs, Clears
<1>6. Rest \subseteq All(todo) BY <1>1, StackFacts
<1>7. Undoing /\ srv.st # "IDLE" => Undoing'
  <2>1. H.t = "send" => FALSE BY DEF Framed
  <2>2. H.t = "wire" => H.q = << >> BY DEF Framed
  <2> QED BY <1>2, <2>1, <2>2 DEF Undoing, One
<1>8. In("stmt_end") /\ ~Busy /\ Shielded =>
            /\ ~Busy' /\ ~Top("query_rollback")'
            /\ conn'.err => conn.err \/ srv.st = "INERROR"
            /\ Erring' => Erring \/ srv.st = "INERROR"
  <2>1. Busy' => Busy BY <1>1, <1>6 DEF Busy
  <2>2. ~Top("query_rollback")' /\ ~Top("wire")' BY <1>3, <1>5
  <2>3. (\E r \in All(todo') : r.t = "return" /\ "ok" \notin r.f)
           => \E r \in All(todo) : r.t = "return" /\ "ok" \notin r.f
    BY <1>1, <1>6
  <2> QED BY <2>1, <2>2, <2>3 DEF Erring
<1>9. ~Ending => ~Ending' /\ ~Top("send")' BY <1>2, <1>3, <1>4, <1>5 DEF Ending
<1> QED BY <1>7, <1>8, <1>9, FramedSafe
\* A record of the driver that differs in what is of no account.
LEMMA AccSelf ==
  ASSUME conn' = conn
  PROVE  AccSame /\ conn'.op = conn.op /\ (conn'.inTrans <=> conn.inTrans) /\ (conn'.err <=> conn.err)
BY DEF AccSame
LEMMA AccBut ==
  ASSUME conn \in Conns, NEW b \in BOOLEAN,
         \/ conn' = [conn EXCEPT !.committing = b]
         \/ conn' = [conn EXCEPT !.auto = b]
         \/ conn' = [conn EXCEPT !.manual = b]
         \/ conn' = [conn EXCEPT !.ignored = b]
  PROVE  AccSame /\ conn'.op = conn.op /\ (conn'.inTrans <=> conn.inTrans) /\ (conn'.err <=> conn.err)
BY DEF Conns, AccSame
LEMMA FramedPop ==
  ASSUME IInv, todo # << >>, todo' = Tail(todo), srv' = srv, last' = last, AccSame,
         conn'.op = conn.op \/ conn'.op = "none", srv.st = "IDLE" => (conn'.inTrans <=> conn.inTrans),
         H.t \notin AccTasks, H.t # "send", H.t = "wire" => H.q = << >>
  PROVE  Framed({})
<1>1. Sound(todo) /\ todo \in Seq(Tasks) BY TypesOf
<1>2. All(todo') = Rest /\ (todo' # << >> => H' \in Rest) BY <1>1, Pop
<1> QED BY <1>1, <1>2 DEF Framed
LEMMA FramedPush ==
  ASSUME IInv, todo # << >>, NEW e \in Tasks, All(todo') = {e} \cup Rest, H' = e,
         srv' = srv, last' = last, AccSame,
         conn'.op = conn.op \/ conn'.op = "none", srv.st = "IDLE" => (conn'.inTrans <=> conn.inTrans),
         H.t \notin AccTasks, H.t # "send", H.t = "wire" => H.q = << >>,
         e.t \notin AccTasks, e.t # "wire", e.t = "send" => "stmt" \notin e.f
  PROVE  Framed({e})
BY TypesOf DEF Framed
LEMMA FramedPush2 ==
  ASSUME IInv, todo # << >>, NEW e \in Tasks, NEW f \in Tasks, All(todo') = {e, f} \cup Rest, H' = e,
         srv' = srv, last' = last, AccSame,
         conn'.op = conn.op \/ conn'.op = "none", srv.st = "IDLE" => (conn'.inTrans <=> conn.inTrans),
         H.t \notin AccTasks, H.t # "send", H.t = "wire" => H.q = << >>,
         e.t \notin AccTasks, e.t # "wire", e.t = "send" => "stmt" \notin e.f,
         f.t \notin AccTasks, f.t # "wire", f.t # "send"
  PROVE  Framed({e, f})
BY TypesOf DEF Framed
\* A call of the application that runs no statement has none under it.
LEMMA NoStatement ==
  ASSUME Sound(todo), todo # << >>,
         H.t \in {"close", "closed", "close_eof", "commit", "commit_send", "set_auto", "transact_end",
                  "stmt_end", "stmt_clean"}
  PROVE  ~In("stmt_end") /\ ~In("stmt_clean")
BY UnderTop DEF Lower, Talk, Clears, Discs
LEMMA PopStep ==
  ASSUME IInv, conn.alive, SafeInv, todo # << >>, todo' = Tail(todo), srv' = srv, last' = last, AccSame,
         conn'.op = conn.op \/ conn'.op = "none", srv.st = "IDLE" => (conn'.inTrans <=> conn.inTrans),
         H.t \notin AccTasks, H.t # "send", H.t # "wire", H.t # "abort" \/ srv.st = "IDLE",
         conn'.err => conn.err \/ srv.st = "INERROR",
         ret' = "error" /\ In("stmt_end") /\ ~Busy => Erring \/ H.t = "update"
  PROVE  SafeInv'
<1>1. Sound(todo) /\ Framed({}) BY TypesOf, FramedPop
<1>2. ASSUME In("stmt_end"), ~Busy, Shielded, Replied' PROVE Erring
  <2>1. ret' = "error" /\ (Top("exec_end")' \/ Top("opened")' \/ Top("stmt_end")') BY <1>2 DEF Replied
  <2>2. H.t # "update"
    <3> SUFFICES ASSUME H.t = "update" PROVE FALSE OBVIOUS
    <3>1. todo' # << >> => Answers(H') BY <1>1, Pop DEF Awaits
    <3> QED BY <2>1, <3>1 DEF Top, H, Answers
  <2> QED BY <1>2, <2>1, <2>2
<1> QED BY <1>1, <1>2, PoppedSafe
LEMMA ChorePop ==
  ASSUME IInv, conn.alive, SafeInv, todo # << >>, todo' = Tail(todo), srv' = srv, last' = last, AccSame,
         conn'.op = conn.op, conn'.inTrans <=> conn.inTrans, conn'.err <=> conn.err,
         H.t \in Chores \cup {"close", "closed", "close_eof", "commit", "commit_send", "set_auto"}
  PROVE  SafeInv'
<1>1. Sound(todo) /\ H \in All(todo) BY TypesOf, StackFacts
<1>2. In("stmt_end") => Busy
  <2>1. CASE H.t \in Chores BY <1>1, <2>1 DEF Busy
  <2>2. CASE H.t \notin Chores BY <1>1, <2>2, NoStatement
  <2> QED BY <2>1, <2>2
<1>3. H.t \notin AccTasks /\ H.t # "send" /\ H.t # "wire" /\ H.t # "abort"
  BY DEF Chores, Discs, Clears, AccTasks
<1> QED BY <1>2, <1>3, PopStep
LEMMA TopIs ==
  ASSUME IInv, NEW t, Top(t)
  PROVE  todo # << >> /\ H.t = t /\ H \in Tasks /\ H \in All(todo) /\ Sound(todo) /\ todo \in Seq(Tasks)
<1>1. todo # << >> /\ H.t = t /\ Sound(todo) /\ todo \in Seq(Tasks) BY TypesOf DEF Top, H
<1> QED BY <1>1, StackFacts
LEMMA Popping ==
  ASSUME IInv, Then(<< >>)
  PROVE  todo' = Tail(todo)
<1>1. todo \in Seq(Tasks) BY TypesOf
<1> QED BY <1>1 DEF Then
LEMMA ReturnResultSafe ==
  ASSUME IInv, conn.alive, SafeInv, ReturnResult
  PROVE  SafeInv'
<1>1. Top("return") /\ Then(<< >>) /\ UNCHANGED <<conn, srv, last>>
      /\ ret' = IF "ok" \in Head(todo).f THEN "ok" ELSE "error"
  BY DEF ReturnResult
<1>2. todo # << >> /\ H.t = "return" /\ H \in All(todo) /\ todo' = Tail(todo) BY <1>1, TopIs, Popping
<1>3. ret' = "error" => Erring BY <1>1, <1>2 DEF Erring, H
<1>4. H.t \notin AccTasks /\ H.t # "send" /\ H.t # "wire" /\ H.t # "abort" BY <1>2 DEF AccTasks
<1> QED BY <1>1, <1>2, <1>3, <1>4, AccSelf, PopStep
LEMMA MovedSafe ==
  ASSUME IInv, conn.alive, SafeInv, Moved
  PROVE  SafeInv'
<1>1. Top("moved") /\ Then(<< >>) /\ UNCHANGED <<conn, srv, last>> BY DEF Moved
<1>2. todo # << >> /\ H.t = "moved" /\ todo' = Tail(todo) BY <1>1, TopIs, Popping
<1> QED BY <1>1, <1>2, AccSelf, ChorePop DEF Chores, Clears
LEMMA OnCommitEndSafe ==
  ASSUME IInv, conn.alive, SafeInv, OnCommitEnd
  PROVE  SafeInv'
<1>1. Top("on_commit_end") /\ Then(<< >>) /\ UNCHANGED <<srv, last>>
      /\ conn' = [conn EXCEPT !.committing = FALSE]
  BY DEF OnCommitEnd
<1>2. todo # << >> /\ H.t = "on_commit_end" /\ todo' = Tail(todo) BY <1>1, TopIs, Popping
<1>3. AccSame /\ conn'.op = conn.op /\ (conn'.inTrans <=> conn.inTrans) /\ (conn'.err <=> conn.err)
  BY <1>1, TypesOf, AccBut
<1> QED BY <1>1, <1>2, <1>3, ChorePop DEF Chores
LEMMA ClosedSafe ==
  ASSUME IInv, conn.alive, SafeInv, Closed
  PROVE  SafeInv'
<1>1. Top("closed") /\ Then(<< >>) /\ UNCHANGED <<conn, srv, last>> BY DEF Closed
<1>2. todo # << >> /\ H.t = "closed" /\ todo' = Tail(todo) BY <1>1, TopIs, Popping
<1> QED BY <1>1, <1>2, AccSelf, ChorePop
LEMMA FlipAutocommitSafe ==
  ASSUME IInv, conn.alive, SafeInv, FlipAutocommit
  PROVE  SafeInv'
<1>1. Top("set_auto") /\ Then(<< >>) /\ UNCHANGED <<srv, last>>
      /\ conn' = [conn EXCEPT !.auto = ~conn.auto]
  BY DEF FlipAutocommit
<1>2. todo # << >> /\ H.t = "set_auto" /\ todo' = Tail(todo) BY <1>1, TopIs, Popping
<1>3. (~conn.auto) \in BOOLEAN OBVIOUS
<1>4. AccSame /\ conn'.op = conn.op /\ (conn'.inTrans <=> conn.inTrans) /\ (conn'.err <=> conn.err)
  BY <1>1, <1>3, TypesOf, AccBut
<1> QED BY <1>1, <1>2, <1>4, ChorePop
LEMMA OpenedSafe ==
  ASSUME IInv, conn.alive, SafeInv, Opened
  PROVE  SafeInv'
<1>1. Top("opened") /\ Then(<< >>) /\ UNCHANGED <<conn, srv, ret, last>> BY DEF Opened
<1>2. todo # << >> /\ H.t = "opened" /\ todo' = Tail(todo) BY <1>1, TopIs, Popping
<1>3. ret' = "error" => Erring BY <1>1 DEF Erring, Replied
<1>4. H.t \notin AccTasks /\ H.t # "send" /\ H.t # "wire" /\ H.t # "abort" BY <1>2 DEF AccTasks
<1> QED BY <1>1, <1>2, <1>3, <1>4, AccSelf, PopStep
LEMMA SvpSentSafe ==
  ASSUME IInv, conn.alive, SafeInv, SvpSent
  PROVE  SafeInv'
<1>1. Top("svp_sent") /\ UNCHANGED <<srv, ret, last>>
      /\ conn' = [conn EXCEPT !.op = "none"]
      /\ todo' = IF ret = "ok" THEN Tail(todo) ELSE Tail(Tail(Tail(todo)))
  BY DEF SvpSent
<1>2. todo # << >> /\ H.t = "svp_sent" /\ H \in All(todo) BY <1>1, TopIs
<1>3. ret = "ok" BY <1>1, <1>2, LiveParts DEF RetInv, Has
<1>4. AccSame /\ conn'.op = "none" /\ (conn'.inTrans <=> conn.inTrans) /\ (conn'.err <=> conn.err)
  BY <1>1, TypesOf DEF Conns, AccSame
<1>5. H.t \notin AccTasks /\ H.t # "send" /\ H.t # "wire" /\ H.t # "abort" BY <1>2 DEF AccTasks
<1> QED BY <1>1, <1>2, <1>3, <1>4, <1>5, PopStep
LEMMA FinishExecSafe ==
  ASSUME IInv, IInv', conn.alive, SafeInv, FinishExec
  PROVE  SafeInv'
<1>1. PICK c \in Conns : /\ conn' = c /\ (c = conn \/ c = [conn EXCEPT !.manual = TRUE])
                         /\ Then(If(c.inTrans /\ c.auto /\ ~c.manual, <<Call("commit"), Return(ret)>>))
  BY TypesOf DEF FinishExec, Conns
<1>2. Top("exec_end") /\ UNCHANGED <<srv, ret, last>> BY DEF FinishExec
<1>3. todo # << >> /\ H.t = "exec_end" /\ H \in All(todo) /\ Sound(todo) /\ todo \in Seq(Tasks)
  BY <1>2, TopIs
<1>4. In("stmt_end")
  <2>1. StackInv BY TypesOf
  <2>2. Has("stmt_end") BY <1>3, <2>1 DEF StackInv, Under
  <2> QED BY <1>3, <2>2, UnderTop
<1>5. todo' = Tail(todo)
  <2> SUFFICES ASSUME c.inTrans /\ c.auto /\ ~c.manual PROVE FALSE BY <1>1, <1>3, ThenIf
  <2>1. todo' = <<Call("commit"), Return(ret)>> \o Tail(todo) BY <1>1, <1>3 DEF Then, If
  <2>2. Call("commit") \in Tasks /\ Call("commit").t = "commit" /\ Return(ret) \in Tasks
    BY CallType, ReturnType, TypesOf DEF TaskNames
  <2>3. Sound(Tail(todo)) /\ Tail(todo) \in Seq(Tasks) BY <1>3, StackFacts DEF Sound
  <2>4. todo' = <<Call("commit")>> \o (<<Return(ret)>> \o Tail(todo)) /\ <<Return(ret)>> \o Tail(todo) \in Seq(Tasks)
    <3>1. PICK a \in Tasks, b \in Tasks, q \in Seq(Tasks) :
             a = Call("commit") /\ b = Return(ret) /\ q = Tail(todo)
      BY <2>2, <2>3
    <3>2. <<a, b>> \o q = <<a>> \o (<<b>> \o q) /\ <<b>> \o q \in Seq(Tasks) BY Cat2
    <3> QED BY <2>1, <3>1, <3>2
  <2>5. todo' # << >> /\ H' = Call("commit") /\ Tail(todo') = <<Return(ret)>> \o Tail(todo)
    BY <2>2, <2>4, Cons DEF H
  <2>6. \A k \in All(Tail(todo')) : k.t \in Lower("commit")
    <3>1. Sound(todo') BY DEF IInv, BaseInv, StackInv, TypeOK, Sound, Ordered, Answered
    <3>2. Head(todo') = Call("commit") BY <2>5 DEF H
    <3> QED BY <2>2, <2>5, <3>1, <3>2, SoundParts
  <2>7. All(Tail(todo')) = {Return(ret)} \cup Rest BY <2>2, <2>3, <2>5, AllCons DEF Rest
  <2> QED BY <1>4, <2>6, <2>7 DEF Lower, Talk, Clears, Discs, In
<1>6. AccSame /\ conn'.op = conn.op /\ (conn'.inTrans <=> conn.inTrans) /\ (conn'.err <=> conn.err)
  BY <1>1, TypesOf, AccSelf, AccBut
<1>7. ret' = "error" => Erring BY <1>2 DEF Erring, Replied
<1>8. H.t \notin AccTasks /\ H.t # "send" /\ H.t # "wire" /\ H.t # "abort" BY <1>3 DEF AccTasks
<1> QED BY <1>2, <1>3, <1>5, <1>6, <1>7, <1>8, PopStep
\* One task takes the place of a top one that leads to no statement, or is one of a chore.
LEMMA ChorePush ==
  ASSUME IInv, conn.alive, SafeInv, todo # << >>, NEW N, Framed(N), NEW e \in N, H' = e, todo' # << >>,
         conn'.err => conn.err, H.t \in Chores,
         \A k \in N : k.t \notin {"commit", "commit_send", "abort"},
         e.t = "send" => ~IsEnd(e.q) /\ \E k \in N : k.t \in Chores
  PROVE  SafeInv'
<1>1. Sound(todo) /\ H \in All(todo) /\ Busy
  <2>1. Sound(todo) /\ H \in All(todo) BY TypesOf, StackFacts
  <2> QED BY <2>1 DEF Busy
<1>2. All(todo') = N \cup Rest BY DEF Framed
<1>3. \A t : Top(t)' <=> e.t = t BY DEF Top, H
<1>4. \A t : Has(t)' <=> (\E k \in N : k.t = t) \/ In(t) BY <1>2 DEF Has, In
<1>5. (\A t : Has(t) <=> H.t = t \/ In(t)) /\ (\A t : Top(t) <=> H.t = t) BY <1>1, UnderTop
<1>6. e.t # "wire" BY DEF Framed
<1>7. ~Ending => ~Ending' /\ (Top("send")' => Busy')
  <2>1. Top("send")' => Busy' BY <1>2, <1>3 DEF Busy
  <2>2. ASSUME ~Ending PROVE ~Ending'
    <3>1. ~Has("commit_send")' BY <1>4, <1>5, <2>2 DEF Ending
    <3>2. ~Top("commit")' /\ ~Top("abort")' /\ ~Top("wire")' BY <1>3, <1>6
    <3>3. Top("send")' => ~IsEnd(H'.q) BY <1>3
    <3>4. IsEnd(H.q)' <=> IsEnd(H'.q) BY DEF IsEnd, One
    <3> QED BY <3>1, <3>2, <3>3, <3>4 DEF Ending
  <2> QED BY <2>1, <2>2
<1>8. Undoing /\ srv.st # "IDLE" => Undoing'
  <2>1. H.t \notin {"send", "wire", "abort"} BY DEF Chores, Discs, Clears
  <2> QED BY <1>5, <2>1 DEF Undoing
<1> QED BY <1>1, <1>7, <1>8, FramedSafe
LEMMA PushOne ==
  ASSUME IInv, todo # << >>, NEW e \in Tasks, todo' = <<e>> \o Tail(todo)
  PROVE  All(todo') = {e} \cup Rest /\ H' = e /\ todo' # << >>
<1>1. Tail(todo) \in Seq(Tasks) BY TypesOf, StackFacts DEF Sound
<1>2. All(<<e>> \o Tail(todo)) = {e} \cup All(Tail(todo)) BY <1>1, AllCons
<1>3. Head(<<e>> \o Tail(todo)) = e /\ <<e>> \o Tail(todo) # << >> BY <1>1, Cons
<1> QED BY <1>2, <1>3 DEF H, Rest
LEMMA PushTwo ==
  ASSUME IInv, todo # << >>, NEW e \in Tasks, NEW f \in Tasks, todo' = <<e, f>> \o Tail(todo)
  PROVE  All(todo') = {e, f} \cup Rest /\ H' = e /\ todo' # << >>
<1>1. PICK q \in Seq(Tasks) : q = Tail(todo) BY TypesOf, StackFacts DEF Sound
<1>2. todo' = <<e>> \o (<<f>> \o q) /\ <<f>> \o q \in Seq(Tasks) BY <1>1, Cat2
<1>3. All(todo') = {e} \cup All(<<f>> \o q) /\ All(<<f>> \o q) = {f} \cup All(q) BY <1>2, AllCons
<1>4. Head(todo') = e /\ todo' # << >> BY <1>2, Cons
<1> QED BY <1>1, <1>3, <1>4 DEF H, Rest
LEMMA PushThree ==
  ASSUME IInv, todo # << >>, NEW d \in Tasks, NEW e \in Tasks, NEW f \in Tasks,
         todo' = <<d>> \o (<<e, f>> \o Tail(todo))
  PROVE  All(todo') = {d, e, f} \cup Rest /\ H' = d /\ todo' # << >>
<1>1. PICK q \in Seq(Tasks) : q = Tail(todo) BY TypesOf, StackFacts DEF Sound
<1>2. PICK s \in Seq(Tasks) : s = <<e, f>> \o q /\ s = <<e>> \o (<<f>> \o q) /\ <<f>> \o q \in Seq(Tasks)
  <2>1. <<e, f>> \o q = <<e>> \o (<<f>> \o q) /\ <<f>> \o q \in Seq(Tasks) BY Cat2
  <2>2. <<e>> \o (<<f>> \o q) \in Seq(Tasks) BY <2>1, Cons
  <2> QED BY <2>1, <2>2
<1>3. All(s) = {e} \cup All(<<f>> \o q) /\ All(<<f>> \o q) = {f} \cup All(q)
  <2>1. PICK u \in Seq(Tasks) : u = <<f>> \o q BY <1>2
  <2>2. All(<<e>> \o u) = {e} \cup All(u) BY AllCons
  <2>3. All(<<f>> \o q) = {f} \cup All(q) BY AllCons
  <2> QED BY <1>2, <2>1, <2>2, <2>3
<1>4. todo' = <<d>> \o s BY <1>1, <1>2
<1>5. All(todo') = {d} \cup All(s) /\ Head(todo') = d /\ todo' # << >>
  <2>1. All(<<d>> \o s) = {d} \cup All(s) BY AllCons
  <2>2. Head(<<d>> \o s) = d /\ <<d>> \o s # << >> BY Cons
  <2> QED BY <1>4, <2>1, <2>2
<1> QED BY <1>1, <1>3, <1>5 DEF H, Rest
LEMMA ClearCursorSafe ==
  ASSUME IInv, conn.alive, SafeInv, ClearCursor
  PROVE  SafeInv'
<1> DEFINE h == H.h
           q == <<CursCmd("move", h)>>
           f == {"rollback_on_error", "ignore_abort", "read_only"}
<1>1. PICK move \in BOOLEAN : Then(If(move, <<Send(q, f), CallH("moved", h)>>)) BY DEF ClearCursor, H
<1>2. Top("clear") /\ UNCHANGED <<conn, srv, ret, last>> BY DEF ClearCursor
<1>3. todo # << >> /\ H.t = "clear" /\ H \in All(todo) /\ todo \in Seq(Tasks) BY <1>2, TopIs
<1>4. CASE ~move
  <2>1. todo' = Tail(todo) BY <1>1, <1>3, <1>4, ThenIf
  <2> QED BY <1>2, <1>3, <2>1, AccSelf, ChorePop DEF Chores, Clears
<1>5. CASE move
  <2>1. todo' = <<Send(q, f), CallH("moved", h)>> \o Tail(todo) BY <1>1, <1>3, <1>5, ThenIf
  <2>2. h \in Handles BY <1>3, TypesOf DEF StackInv, HandleTasks
  <2>3. CursCmd("move", h) \in Cmds /\ CursCmd("move", h).op = "move" BY <2>2, CursCmdType DEF CmdNames
  <2>4. q \in Seq(Cmds) /\ Head(q) = CursCmd("move", h) BY <2>3
  <2>5. PICK d \in Tasks : d = Send(q, f) /\ d.t = "send" /\ d.q = q /\ "stmt" \notin d.f
    <3>1. f \in SUBSET Flags /\ "stmt" \notin f BY DEF Flags
    <3> HIDE DEF f, q
    <3> QED BY <2>4, <3>1, SendType
  <2>6. PICK e \in Tasks : e = CallH("moved", h) /\ e.t = "moved" BY <2>2, CallHType DEF TaskNames
  <2>7. All(todo') = {d, e} \cup Rest /\ H' = d /\ todo' # << >> BY <1>3, <2>1, <2>5, <2>6, PushTwo
  <2>8. Framed({d, e})
    <3>1. d.t \notin AccTasks /\ e.t \notin AccTasks /\ H.t \notin AccTasks
      BY <1>3, <2>5, <2>6 DEF AccTasks
    <3> QED BY <1>2, <1>3, <2>5, <2>6, <2>7, <3>1, AccSelf, FramedPush2
  <2>9. ~IsEnd(d.q)
    <3>1. Cmd("commit").op = "commit" /\ Cmd("rollback").op = "rollback" BY DEF Cmd
    <3> QED BY <2>3, <2>4, <2>5, <3>1 DEF IsEnd, One
  <2> QED
    <3>1. \A k \in {d, e} : k.t \notin {"commit", "commit_send", "abort"} BY <2>5, <2>6
    <3>2. e \in {d, e} /\ e.t \in Chores /\ H.t \in Chores /\ d \in {d, e}
      BY <1>3, <2>6 DEF Chores, Clears
    <3> QED BY <1>2, <1>3, <2>7, <2>8, <2>9, <3>1, <3>2, ChorePush
<1> QED BY <1>4, <1>5
LEMMA DiscardAllSafe ==
  ASSUME IInv, conn.alive, SafeInv, DiscardAll
  PROVE  SafeInv'
<1>1. Top("discard_all") /\ UNCHANGED <<conn, srv, ret, last>>
      /\ Then(If(discardp # << >>, <<CallI("discard", Len(discardp))>>))
  BY DEF DiscardAll
<1>2. todo # << >> /\ H.t = "discard_all" /\ todo \in Seq(Tasks) BY <1>1, TopIs
<1>3. CASE discardp = << >>
  <2>1. todo' = Tail(todo) BY <1>1, <1>2, <1>3, ThenIf
  <2> QED BY <1>1, <1>2, <2>1, AccSelf, ChorePop DEF Chores, Discs
<1>4. CASE discardp # << >>
  <2>1. PICK e \in Tasks : e = CallI("discard", Len(discardp)) /\ e.t = "discard"
    BY TypesOf, CallIType DEF TaskNames
  <2>2. todo' = <<e>> \o Tail(todo) BY <1>1, <1>2, <1>4, <2>1, ThenIf
  <2>3. All(todo') = {e} \cup Rest /\ H' = e /\ todo' # << >> BY <1>2, <2>2, PushOne
  <2>4. Framed({e}) BY <1>1, <1>2, <2>1, <2>3, AccSelf, FramedPush DEF AccTasks
  <2> QED
    <3>1. \A k \in {e} : k.t \notin {"commit", "commit_send", "abort"} BY <2>1
    <3>2. H.t \in Chores /\ e \in {e} /\ e.t # "send" BY <1>2, <2>1 DEF Chores, Discs
    <3> QED BY <1>1, <1>2, <2>3, <2>4, <3>1, <3>2, ChorePush
<1> QED BY <1>3, <1>4
LEMMA DiscardOneSafe ==
  ASSUME IInv, conn.alive, SafeInv, DiscardOne
  PROVE  SafeInv'
<1> DEFINE f == {"rollback_on_error", "ignore_abort", "read_only"}
<1>1. Top("discard") /\ UNCHANGED <<conn, srv, ret, last>> BY DEF DiscardOne
<1>2. todo # << >> /\ H.t = "discard" /\ todo \in Seq(Tasks) /\ H \in All(todo) BY <1>1, TopIs
<1>3. PICK i : i = H.i OBVIOUS
<1>4. i \in 1..Len(discardp)
  <2>1. i = Len(discardp) /\ i > 0 BY <1>2, <1>3, LiveParts DEF DiscInv
  <2>2. Len(discardp) \in Nat BY TypesOf
  <2> QED BY <2>1, <2>2
<1>5. PICK o : o = discardp[i] OBVIOUS
<1>6. Then(<<Send(<<Discarding(o)>>, f), CallI("discard_free", i)>>)
  BY <1>3, <1>4, <1>5 DEF DiscardOne, H, Discarding
<1>7. PICK c \in Cmds : c = Discarding(o) /\ c.op \in {"deallocate", "close"}
  <2>1. o.type \in {"s", "p"} /\ o.h \in Handles \cup {NoHandle} /\ i \in Nat BY <1>4, <1>5, DiscardType
  <2> QED BY <2>1, DiscardingType
<1>8. <<c>> \in Seq(Cmds) /\ Head(<<c>>) = c OBVIOUS
<1>9. PICK d \in Tasks : d = Send(<<c>>, f) /\ d.t = "send" /\ d.q = <<c>> /\ "stmt" \notin d.f
  <2>1. f \in SUBSET Flags /\ "stmt" \notin f BY DEF Flags
  <2> HIDE DEF f
  <2> QED BY <1>8, <2>1, SendType
<1>10. PICK e \in Tasks : e = CallI("discard_free", i) /\ e.t = "discard_free"
  BY <1>4, CallIType DEF TaskNames
<1>11. todo' = <<d, e>> \o Tail(todo) BY <1>6, <1>7, <1>9, <1>10 DEF Then
<1>12. All(todo') = {d, e} \cup Rest /\ H' = d /\ todo' # << >> BY <1>2, <1>11, PushTwo
<1>13. Framed({d, e})
  <2>1. d.t \notin AccTasks /\ e.t \notin AccTasks /\ H.t \notin AccTasks
    BY <1>2, <1>9, <1>10 DEF AccTasks
  <2> QED BY <1>1, <1>2, <1>9, <1>10, <1>12, <2>1, AccSelf, FramedPush2
<1>14. ~IsEnd(d.q)
  <2>1. Cmd("commit").op = "commit" /\ Cmd("rollback").op = "rollback" BY DEF Cmd
  <2> QED BY <1>7, <1>8, <1>9, <2>1 DEF IsEnd, One
<1>15. \A k \in {d, e} : k.t \notin {"commit", "commit_send", "abort"} BY <1>9, <1>10
<1>16. e \in {d, e} /\ e.t \in Chores /\ H.t \in Chores /\ d \in {d, e} BY <1>2, <1>10 DEF Chores, Discs
<1> QED BY <1>1, <1>2, <1>12, <1>13, <1>14, <1>15, <1>16, ChorePush
LEMMA DiscardFreeSafe ==
  ASSUME IInv, conn.alive, SafeInv, DiscardFree
  PROVE  SafeInv'
<1>1. Top("discard_free") /\ UNCHANGED <<conn, srv, ret, last>> BY DEF DiscardFree
<1>6. Then(If(H.i > 1, <<CallI("discard", H.i - 1)>>)) BY DEF DiscardFree, H
<1>2. todo # << >> /\ H.t = "discard_free" /\ todo \in Seq(Tasks) /\ H \in Tasks BY <1>1, TopIs
<1>3. H.i \in Nat BY <1>2, TaskFields
<1>4. CASE ~(H.i > 1)
  <2>1. Then(<< >>) BY <1>4, <1>6 DEF Then, If
  <2> QED BY <1>1, <1>2, <2>1, Popping, AccSelf, ChorePop DEF Chores, Discs
<1>5. CASE H.i > 1
  <2>1. PICK e \in Tasks : e = CallI("discard", H.i - 1) /\ e.t = "discard"
    BY <1>3, <1>5, CallIType DEF TaskNames
  <2>2. todo' = <<e>> \o Tail(todo) BY <1>5, <1>6, <2>1 DEF Then, If
  <2>3. All(todo') = {e} \cup Rest /\ H' = e /\ todo' # << >> BY <1>2, <2>2, PushOne
  <2>4. Framed({e}) BY <1>1, <1>2, <2>1, <2>3, AccSelf, FramedPush DEF AccTasks
  <2> QED
    <3>1. \A k \in {e} : k.t \notin {"commit", "commit_send", "abort"} BY <2>1
    <3>2. H.t \in Chores /\ e \in {e} /\ e.t # "send" BY <1>2, <2>1 DEF Chores, Discs
    <3> QED BY <1>1, <1>2, <2>3, <2>4, <3>1, <3>2, ChorePush
<1> QED BY <1>4, <1>5
\* Tasks of a commit or a close give way to others: no statement is under way.
LEMMA FinishPush ==
  ASSUME IInv, conn.alive, SafeInv, todo # << >>, NEW N, Framed(N),
         H.t \in {"close", "closed", "close_eof", "commit", "commit_send", "set_auto"}
  PROVE  SafeInv'
<1>1. Sound(todo) BY TypesOf
<1>2. ~In("stmt_end") /\ ~In("stmt_clean") BY <1>1, NoStatement
<1>3. ~Undoing BY <1>1, UnderTop DEF Undoing
<1> QED BY <1>2, <1>3, FramedSafe
LEMMA CloseResultSafe ==
  ASSUME IInv, conn.alive, SafeInv, CloseResult
  PROVE  SafeInv'
<1> DEFINE h == H.h
           c == curs[h]
           endTrans == conn.inTrans /\ conn.auto /\ ~conn.manual /\ Cardinality(OpenCursors) <= 1
           flags == {"read_only"} \cup
                    (IF c.doubt THEN {"rollback_on_error", "ignore_abort"} ELSE {}) \cup
                    (IF endTrans /\ ~c.doubt THEN {"end_with_commit"} ELSE {})
<1>1. /\ Top("close") /\ UNCHANGED <<conn, srv, ret, last>>
      /\ \/ Then(<< >>)
         \/ Then(<<Send(<<CursCmd("close", h)>> \o If(endTrans /\ ~c.doubt, <<Cmd("commit")>>), flags),
                   CallH("closed", h)>> \o If(endTrans /\ c.doubt, <<Call("commit")>>))
  BY DEF CloseResult, H
<1>2. todo # << >> /\ H.t = "close" /\ todo \in Seq(Tasks) /\ H \in All(todo) /\ H \in Tasks
  BY <1>1, TopIs
<1>3. CASE Then(<< >>) BY <1>1, <1>2, <1>3, Popping, AccSelf, ChorePop
<1>4. CASE Then(<<Send(<<CursCmd("close", h)>> \o If(endTrans /\ ~c.doubt, <<Cmd("commit")>>), flags),
                   CallH("closed", h)>> \o If(endTrans /\ c.doubt, <<Call("commit")>>))
  <2>1. ~endTrans BY <1>2, FinishingFacts DEF Finishing, Matches
  <2>2. h \in Handles BY <1>2, TypesOf DEF StackInv, HandleTasks
  <2>3. <<CursCmd("close", h)>> \in Seq(Cmds)
    <3>1. CursCmd("close", h) \in Cmds BY <2>2, CursCmdType DEF CmdNames
    <3> QED BY <3>1
  <2>4. flags \in SUBSET Flags /\ "stmt" \notin flags BY DEF Flags
  <2>5. Then(<<Send(<<CursCmd("close", h)>>, flags), CallH("closed", h)>>)
    <3>1. If(endTrans /\ ~c.doubt, <<Cmd("commit")>>) = << >> BY <2>1 DEF If
    <3>2. If(endTrans /\ c.doubt, <<Call("commit")>>) = << >> BY <2>1 DEF If
    <3>3. <<CursCmd("close", h)>> \o << >> = <<CursCmd("close", h)>> OBVIOUS
    <3> HIDE DEF flags, c, endTrans, h
    <3>4. <<Send(<<CursCmd("close", h)>>, flags), CallH("closed", h)>> \o << >>
            = <<Send(<<CursCmd("close", h)>>, flags), CallH("closed", h)>>
      OBVIOUS
    <3> QED BY <1>4, <3>1, <3>2, <3>3, <3>4
  <2> HIDE DEF flags, c, endTrans, h
  <2>6. PICK d \in Tasks : d = Send(<<CursCmd("close", h)>>, flags) /\ d.t = "send" /\ "stmt" \notin d.f
    BY <2>3, <2>4, SendType
  <2>7. PICK e \in Tasks : e = CallH("closed", h) /\ e.t = "closed" BY <2>2, CallHType DEF TaskNames
  <2>8. todo' = <<d, e>> \o Tail(todo) BY <2>5, <2>6, <2>7 DEF Then
  <2>9. All(todo') = {d, e} \cup Rest /\ H' = d /\ todo' # << >> BY <1>2, <2>8, PushTwo
  <2>10. Framed({d, e})
    <3>1. d.t \notin AccTasks /\ e.t \notin AccTasks /\ H.t \notin AccTasks
      BY <1>2, <2>6, <2>7 DEF AccTasks
    <3> QED BY <1>1, <1>2, <2>6, <2>7, <2>9, <3>1, AccSelf, FramedPush2
  <2> QED BY <1>2, <2>10, FinishPush
<1> QED BY <1>1, <1>3, <1>4
LEMMA CommitSafe ==
  ASSUME IInv, conn.alive, SafeInv, Commit
  PROVE  SafeInv'
<1>1. /\ Top("commit") /\ UNCHANGED <<conn, srv, last>>
      /\ Then(If(conn.inTrans /\ ~conn.err, ForEach("close_eof"))
              \o If(conn.inTrans, <<Call("commit_send")>>))
  BY DEF Commit, ForEach
<1>2. todo # << >> /\ H.t = "commit" /\ todo \in Seq(Tasks) /\ Sound(todo) BY <1>1, TopIs
<1>3. PICK s \in Seq(Tasks) : /\ s = If(conn.inTrans /\ ~conn.err, ForEach("close_eof"))
                              /\ \A k \in All(s) : k.t \in {"close_eof", "commit_send"}
  <2>1. ForEach("close_eof") \in Seq(Tasks) /\ \A k \in All(ForEach("close_eof")) : k.t = "close_eof"
    BY ForEachStack
  <2>2. << >> \in Seq(Tasks) /\ All(<< >>) = {} BY AllNone
  <2> QED BY <2>1, <2>2 DEF If
<1>4. PICK u \in Seq(Tasks) : /\ u = If(conn.inTrans, <<Call("commit_send")>>)
                              /\ \A k \in All(u) : k.t \in {"close_eof", "commit_send"}
  <2>1. Call("commit_send") \in Tasks /\ Call("commit_send").t = "commit_send" BY CallType DEF TaskNames
  <2>2. <<Call("commit_send")>> \in Seq(Tasks)
        /\ \A k \in All(<<Call("commit_send")>>) : k.t = "commit_send"
    BY <2>1 DEF All
  <2>3. << >> \in Seq(Tasks) /\ All(<< >>) = {} BY AllNone
  <2> QED BY <2>2, <2>3 DEF If
<1>5. PICK q \in Seq(Tasks) : q = Tail(todo) BY <1>2, StackFacts DEF Sound
<1>6. PICK v \in Seq(Tasks) : v = s \o u /\ All(v) = All(s) \cup All(u)
  <2>1. s \o u \in Seq(Tasks) /\ All(s \o u) = All(s) \cup All(u) BY CatParts
  <2> QED BY <2>1
<1>7. todo' = v \o q /\ v \o q \in Seq(Tasks) /\ All(v \o q) = All(v) \cup All(q)
  <2>1. v \o q \in Seq(Tasks) /\ All(v \o q) = All(v) \cup All(q) BY CatParts
  <2> QED BY <1>1, <1>3, <1>4, <1>5, <1>6, <2>1 DEF Then
<1>8. All(todo') = All(v) \cup Rest BY <1>5, <1>7 DEF Rest
<1>9. todo' # << >> => H' \in All(todo')
  <2>1. todo' # << >> => Head(todo') \in All(todo') BY <1>7 DEF All
  <2> QED BY <2>1 DEF H
<1>10. Framed(All(v))
  <2>1. \A k \in All(v) : k.t \in {"close_eof", "commit_send"} BY <1>3, <1>4, <1>6
  <2>2. \A k \in All(v) : k.t \notin AccTasks /\ k.t # "wire" /\ k.t # "send" BY <2>1 DEF AccTasks
  <2>3. H.t \notin AccTasks BY <1>2 DEF AccTasks
  <2> QED BY <1>1, <1>2, <1>8, <1>9, <2>2, <2>3, AccSelf DEF Framed
<1> QED BY <1>2, <1>10, FinishPush
LEMMA CloseEofSafe ==
  ASSUME IInv, conn.alive, SafeInv, CloseEof
  PROVE  SafeInv'
<1> DEFINE h == H.h
           b == curs[h].open /\ curs[h].hold /\ curs[h].eof
<1>1. Top("close_eof") /\ UNCHANGED <<conn, srv, ret, last>> /\ Then(If(b, <<CallH("close", h)>>))
  BY DEF CloseEof, H
<1>2. todo # << >> /\ H.t = "close_eof" /\ todo \in Seq(Tasks) /\ H \in All(todo) BY <1>1, TopIs
<1>3. h \in Handles BY <1>2, TypesOf DEF StackInv, HandleTasks
<1> HIDE DEF b, h
<1>4. CASE ~b
  <2>1. Then(<< >>) BY <1>1, <1>4 DEF If
  <2> QED BY <1>1, <1>2, <2>1, Popping, AccSelf, ChorePop
<1>5. CASE b
  <2>1. PICK e \in Tasks : e = CallH("close", h) /\ e.t = "close" BY <1>3, CallHType DEF TaskNames
  <2>2. todo' = <<e>> \o Tail(todo) BY <1>1, <1>5, <2>1 DEF If, Then
  <2>3. All(todo') = {e} \cup Rest /\ H' = e /\ todo' # << >> BY <1>2, <2>2, PushOne
  <2>4. Framed({e}) BY <1>1, <1>2, <2>1, <2>3, AccSelf, FramedPush DEF AccTasks
  <2> QED BY <1>2, <2>4, FinishPush
<1> QED BY <1>4, <1>5
LEMMA CommitSendSafe ==
  ASSUME IInv, conn.alive, SafeInv, CommitSend
  PROVE  SafeInv'
<1>1. Top("commit_send") /\ UNCHANGED <<conn, srv, last>>
      /\ Then(If(conn.inTrans, <<Send(<<Cmd("commit")>>, {})>>))
  BY DEF CommitSend
<1>2. todo # << >> /\ H.t = "commit_send" /\ todo \in Seq(Tasks) BY <1>1, TopIs
<1>4. CASE ~conn.inTrans
  <2>1. Then(<< >>) BY <1>1, <1>4 DEF If
  <2> QED BY <1>1, <1>2, <2>1, Popping, AccSelf, ChorePop
<1>5. CASE conn.inTrans
  <2>1. Cmd("commit") \in Cmds BY CmdType DEF CmdNames, Kinds
  <2>2. <<Cmd("commit")>> \in Seq(Cmds) /\ {} \in SUBSET Flags BY <2>1
  <2>3. PICK e \in Tasks : e = Send(<<Cmd("commit")>>, {}) /\ e.t = "send" /\ e.f = {} BY <2>2, SendType
  <2>4. todo' = <<e>> \o Tail(todo) BY <1>1, <1>5, <2>3 DEF If, Then
  <2>5. All(todo') = {e} \cup Rest /\ H' = e /\ todo' # << >> BY <1>2, <2>4, PushOne
  <2>6. Framed({e}) BY <1>1, <1>2, <2>3, <2>5, AccSelf, FramedPush DEF AccTasks
  <2> QED BY <1>2, <2>6, FinishPush
<1> QED BY <1>4, <1>5
LEMMA AbortSafe ==
  ASSUME IInv, conn.alive, SafeInv, Abort
  PROVE  SafeInv'
<1>1. Top("abort") /\ UNCHANGED <<conn, srv, last>>
      /\ Then(If(conn.inTrans, <<Send(<<Cmd("rollback")>>, {})>>)) /\ ret' = IF conn.inTrans THEN ret ELSE "ok"
  BY DEF Abort
<1>2. todo # << >> /\ H.t = "abort" /\ todo \in Seq(Tasks) /\ Sound(todo) BY <1>1, TopIs
<1>3. H.t \notin AccTasks BY <1>2 DEF AccTasks
<1>4. CASE ~conn.inTrans
  <2>1. Then(<< >>) BY <1>1, <1>4 DEF If
  <2>2. srv.st = "IDLE" BY <1>2, <1>4, Settled DEF Matches
  <2> QED BY <1>1, <1>2, <1>3, <1>4, <2>1, <2>2, Popping, AccSelf, PopStep
<1>5. CASE conn.inTrans
  <2>1. Cmd("rollback") \in Cmds BY CmdType DEF CmdNames, Kinds
  <2>2. <<Cmd("rollback")>> \in Seq(Cmds) /\ {} \in SUBSET Flags /\ One(<<Cmd("rollback")>>, Cmd("rollback"))
    BY <2>1 DEF One
  <2>3. PICK e \in Tasks : e = Send(<<Cmd("rollback")>>, {}) /\ e.t = "send" /\ e.f = {}
                           /\ One(e.q, Cmd("rollback"))
    BY <2>2, SendType
  <2>4. todo' = <<e>> \o Tail(todo) BY <1>1, <1>5, <2>3 DEF If, Then
  <2>5. All(todo') = {e} \cup Rest /\ H' = e /\ todo' # << >> BY <1>2, <2>4, PushOne
  <2>6. Framed({e}) BY <1>1, <1>2, <1>3, <2>3, <2>5, AccSelf, FramedPush DEF AccTasks
  <2>7. ~In("stmt_end") /\ Ending BY <1>1, <1>2, UnderTop DEF Lower, Talk, Clears, Discs, Ending
  <2>8. Undoing'
    <3>1. Top("send")' /\ One(H'.q, Cmd("rollback")) BY <2>3, <2>5 DEF Top, H
    <3> QED BY <3>1 DEF Undoing
  <2> QED BY <2>6, <2>7, <2>8, FramedSafe
<1> QED BY <1>4, <1>5
LEMMA BeginSafe ==
  ASSUME IInv, conn.alive, SafeInv, Begin
  PROVE  SafeInv'
<1>1. Top("begin") /\ UNCHANGED <<conn, srv, last>>
      /\ Then(If(~conn.inTrans, <<Send(<<Cmd("begin")>>, {})>>)) /\ ret' = IF conn.inTrans THEN "ok" ELSE ret
  BY DEF Begin
<1>2. todo # << >> /\ H.t = "begin" /\ todo \in Seq(Tasks) /\ Sound(todo) BY <1>1, TopIs
<1>3. H.t \notin AccTasks BY <1>2 DEF AccTasks
<1>4. CASE conn.inTrans
  <2>1. Then(<< >>) BY <1>1, <1>4 DEF If
  <2> QED BY <1>1, <1>2, <1>3, <1>4, <2>1, Popping, AccSelf, PopStep
<1>5. CASE ~conn.inTrans
  <2>1. Cmd("begin") \in Cmds BY CmdType DEF CmdNames, Kinds
  <2>2. <<Cmd("begin")>> \in Seq(Cmds) /\ {} \in SUBSET Flags BY <2>1
  <2>3. PICK e \in Tasks : e = Send(<<Cmd("begin")>>, {}) /\ e.t = "send" /\ e.f = {} BY <2>2, SendType
  <2>4. todo' = <<e>> \o Tail(todo) BY <1>1, <1>5, <2>3 DEF If, Then
  <2>5. All(todo') = {e} \cup Rest /\ H' = e /\ todo' # << >> BY <1>2, <2>4, PushOne
  <2>6. Framed({e}) BY <1>1, <1>2, <1>3, <2>3, <2>5, AccSelf, FramedPush DEF AccTasks
  <2>7. ~In("stmt_clean") BY <1>2, UnderTop DEF Lower, Talk, Clears, Discs
  <2>8. srv.st = "IDLE" BY <1>2, <1>5, Settled DEF Matches
  <2> QED BY <2>6, <2>7, <2>8, FramedSafe DEF Shielded, Shield
<1> QED BY <1>4, <1>5
LEMMA WireDoneSafe ==
  ASSUME IInv, conn.alive, SafeInv, WireDone
  PROVE  SafeInv'
<1> DEFINE f == H.f
           undo == "query_rollback" \in f /\ "discard_svp" \notin f /\ conn.inTrans /\ conn.err
           res == IF "failed" \in f THEN "error" ELSE "ok"
           qr == [Call("query_rollback") EXCEPT !.f = f \cap {"ignore_abort"}]
<1>1. /\ Top("wire") /\ H.q = << >> /\ UNCHANGED <<srv, ret, last>>
      /\ conn' = [conn EXCEPT !.ignored = @ \/ {"failed", "ignore_abort"} \subseteq f]
      /\ Then(If(undo, <<qr>>) \o <<Call("update"), Return(res)>>)
  BY DEF WireDone, H
<1>2. todo # << >> /\ H.t = "wire" /\ todo \in Seq(Tasks) /\ H \in Tasks /\ Sound(todo) BY <1>1, TopIs
<1>3. PICK a \in Tasks : a = qr /\ a.t = "query_rollback"
  <2>1. Call("query_rollback") \in Tasks /\ Call("query_rollback").t = "query_rollback"
    BY CallType DEF TaskNames
  <2>2. PICK g \in SUBSET Flags : g = f \cap {"ignore_abort"} BY DEF Flags
  <2>3. PICK k \in Tasks : k = Call("query_rollback") /\ k.t = "query_rollback" BY <2>1
  <2>4. [k EXCEPT !.f = g] \in Tasks /\ [k EXCEPT !.f = g].t = "query_rollback" BY <2>3, TaskF
  <2> QED BY <2>2, <2>3, <2>4
<1>4. PICK b \in Tasks : b = Call("update") /\ b.t = "update" BY CallType DEF TaskNames
<1>5. PICK r \in Tasks : r = Return(res) /\ r.t = "return" /\ ("ok" \in r.f <=> "failed" \notin f)
  <2>1. res \in {"ok", "error"} /\ ("ok" \in {res} <=> "failed" \notin f) OBVIOUS
  <2> QED BY <2>1, ReturnType
<1> DEFINE N == IF undo THEN {a, b, r} ELSE {b, r}
<1> HIDE DEF undo, res, qr, f
<1>6. todo' # << >> /\ All(todo') = N \cup Rest /\ H' = (IF undo THEN a ELSE b)
  <2>1. CASE undo
    <3>1. PICK q \in Seq(Tasks) : q = Tail(todo) BY <1>2, StackFacts DEF Sound
    <3>5. <<a>> \in Seq(Tasks) /\ <<b, r>> \in Seq(Tasks) OBVIOUS
    <3>2. PICK s \in Seq(Tasks), u \in Seq(Tasks) : s = <<a>> /\ u = <<b, r>> BY <3>5
    <3>3. todo' = (s \o u) \o q BY <1>1, <1>3, <1>4, <1>5, <2>1, <3>1, <3>2 DEF Then, If
    <3>4. (s \o u) \o q = s \o (u \o q) OBVIOUS
    <3> QED BY <1>2, <2>1, <3>1, <3>2, <3>3, <3>4, PushThree
  <2>2. CASE ~undo
    <3>1. << >> \o <<b, r>> = <<b, r>> OBVIOUS
    <3>2. todo' = <<b, r>> \o Tail(todo) BY <1>1, <1>4, <1>5, <2>2, <3>1 DEF Then, If
    <3> QED BY <1>2, <2>2, <3>2, PushTwo
  <2> QED BY <2>1, <2>2
<1>7. \A k \in N : /\ k.t \in {"query_rollback", "update", "return"}
                   /\ k.t = "return" => k = r
  BY <1>3, <1>4, <1>5
<1>8. AccSame /\ conn'.op = conn.op /\ (conn'.inTrans <=> conn.inTrans) /\ (conn'.err <=> conn.err)
  <2>1. (conn.ignored \/ {"failed", "ignore_abort"} \subseteq f) \in BOOLEAN OBVIOUS
  <2> QED BY <1>1, <2>1, TypesOf, AccBut
<1>9. Framed(N)
  <2>1. \A k \in N : k.t \notin AccTasks /\ k.t # "wire" /\ k.t # "send" BY <1>7 DEF AccTasks
  <2>2. H.t \notin AccTasks BY <1>2 DEF AccTasks
  <2>3. H' \in N BY <1>6
  <2> QED BY <1>1, <1>2, <1>6, <1>8, <2>1, <2>2, <2>3 DEF Framed
<1>10. /\ \A t : Has(t) <=> H.t = t \/ In(t)
       /\ \A t : Top(t) <=> H.t = t
       /\ Rest \subseteq All(todo)
  BY <1>2, UnderTop, StackFacts
<1>11. ~Undoing BY <1>1, <1>2, <1>10 DEF Undoing, One
<1>12. \A t : Top(t)' <=> (IF undo THEN "query_rollback" ELSE "update") = t BY <1>3, <1>4, <1>6 DEF Top, H
<1>13. ASSUME ~Busy, Shielded
       PROVE  /\ ~Busy' /\ ~Top("query_rollback")'
              /\ conn'.err => conn.err \/ srv.st = "INERROR"
              /\ Erring' => Erring \/ srv.st = "INERROR"
  <2>1. ~Busy' BY <1>6, <1>7, <1>10, <1>13 DEF Busy, Chores, Discs, Clears
  <2>2. ~undo BY <1>1, <1>13 DEF Shielded, NoQuery, undo, f
  <2>3. ~Top("query_rollback")' /\ ~Top("wire")' /\ ~Replied' BY <1>12, <2>2 DEF Replied
  <2>4. ASSUME NEW k \in All(todo'), k.t = "return" /\ "ok" \notin k.f PROVE Erring
    <3>1. CASE k \in Rest BY <1>10, <2>4, <3>1 DEF Erring
    <3>2. CASE k \in N BY <1>1, <1>5, <1>7, <2>4, <3>2 DEF Erring, f
    <3> QED BY <1>6, <2>4, <3>1, <3>2
  <2> QED BY <1>8, <2>1, <2>3, <2>4 DEF Erring
<1>14. ~Ending => ~Ending' /\ ~Top("send")'
  <2>1. Has("commit_send")' => Has("commit_send") BY <1>6, <1>7, <1>10 DEF Has, In
  <2> QED BY <1>12, <2>1 DEF Ending
<1> QED BY <1>9, <1>11, <1>13, <1>14, FramedSafe
\* The transaction is over, and what the driver noted of it is forgotten.
LEMMA ResetSafe ==
  ASSUME IInv, conn.alive, SafeInv, Top("update"), srv.st = "IDLE", conn.inTrans,
         UNCHANGED <<srv, last>>, ~conn'.acc, ~conn'.point, conn'.op = "none",
         NEW N, All(todo') = N \cup Rest, todo' # << >>, H' \in N,
         \A k \in N : k.t \in {"clear", "discard_all", "on_commit_end"}
  PROVE  SafeInv'
<1>1. /\ \A t : Has(t) <=> H.t = t \/ In(t)
      /\ \A t : Top(t) <=> H.t = t
      /\ H.t = "update" /\ todo # << >>
  BY TopIs, UnderTop
<1>2. \A t \in AccTasks : (Has(t)' <=> Has(t)) /\ ~Top(t)
  <2>1. \A t : Has(t)' <=> (\E k \in N : k.t = t) \/ In(t) BY DEF Has, In
  <2> QED BY <1>1, <2>1 DEF AccTasks
<1>3. \A t \in {"send", "wire"} : ~Top(t)' BY DEF Top, H
<1>4. Blank' /\ ~Wrote(srv') BY SafeParts DEF Blank, Wrote
<1>5. AccInv' /\ PrevInv' /\ CatalogInv' /\ WriteInv'
  BY <1>3, <1>4 DEF AccInv, PrevInv, CatalogInv, WriteInv
<1>6. ExtWriteInv' BY <1>1, <1>2, SafeParts DEF ExtWriteInv, AccTasks
<1>7. AtomInv'
  <2> SUFFICES ASSUME Atom'
               PROVE  Has("stmt_clean")' /\ ~Has("stmt_end")' /\ ~last'.failed
    BY DEF AtomInv
  <2>1. Atom BY DEF Atom
  <2>2. /\ Has("stmt_end") \/ Has("stmt_clean")
        /\ Has("stmt_end") => Before \/ Shielded
        /\ last.failed /\ ~Has("stmt_end") => Undone
    BY <1>1, <2>1, SafeParts DEF AtomInv, Quiet
  <2>3. ~Before /\ ~Shielded /\ ~Undone BY <1>1 DEF Before, Shielded, Shield, Undone, InUse
  <2>4. (Has("stmt_end")' <=> Has("stmt_end")) /\ (Has("stmt_clean")' <=> Has("stmt_clean"))
    BY <1>2 DEF AccTasks
  <2> QED BY <2>2, <2>3, <2>4
<1> QED BY <1>4, <1>5, <1>6, <1>7, SafeFrom
LEMMA AccReset ==
  ASSUME NEW c \in Conns
  PROVE  ~StartStmt(c).acc /\ ~StartStmt(SvpInit(NoTrans(c))).acc
<1>1. \A d \in Conns : ~StartStmt(d).acc BY DEF StartStmt, Conns
<1> QED BY <1>1, SvpInitConn, NoTransConn
LEMMA UpdateStatusSafe ==
  ASSUME IInv, conn.alive, SafeInv, UpdateStatus
  PROVE  SafeInv'
<1>1. /\ Top("update") /\ UNCHANGED <<srv, discardp, ret, last>>
      /\ \/ srv.st = "IDLE" /\ ~conn.inTrans /\ Then(<< >>) /\ UNCHANGED <<conn, curs>>
         \/ /\ srv.st = "IDLE" /\ conn.inTrans /\ conn.err
            /\ conn' = OnAbortConn /\ curs' = CursAborted /\ Then(OnAbortCalls)
         \/ /\ srv.st = "IDLE" /\ conn.inTrans /\ ~conn.err
            /\ conn' = OnCommitConn /\ Then(OnCommitCalls) /\ UNCHANGED curs
         \/ /\ srv.st = "INTRANS" /\ conn' = [conn EXCEPT !.inTrans = TRUE, !.err = FALSE]
            /\ Then(If(conn.err, <<Call("discard_all")>>)) /\ UNCHANGED curs
         \/ /\ srv.st = "INERROR" /\ conn' = [conn EXCEPT !.inTrans = TRUE, !.err = TRUE]
            /\ Then(<< >>) /\ UNCHANGED curs
  BY UpdateIs
<1>2. todo # << >> /\ H.t = "update" /\ todo \in Seq(Tasks) /\ Sound(todo) /\ H.t \notin AccTasks
  BY <1>1, TopIs DEF AccTasks
<1>3. conn \in Conns BY TypesOf
<1>4. ASSUME Then(<< >>), AccSame, conn'.op = conn.op, srv.st = "IDLE" => (conn'.inTrans <=> conn.inTrans),
             conn'.err => conn.err \/ srv.st = "INERROR"
      PROVE  SafeInv'
  BY <1>1, <1>2, <1>4, Popping, PopStep
<1>5. CASE srv.st = "IDLE" /\ ~conn.inTrans /\ Then(<< >>) /\ UNCHANGED <<conn, curs>>
  BY <1>4, <1>5, AccSelf
<1>6. CASE srv.st = "IDLE" /\ conn.inTrans /\ conn.err /\ conn' = OnAbortConn /\ Then(OnAbortCalls)
  <2>1. PICK e \in Tasks : e = Call("discard_all") /\ e.t = "discard_all" BY CallType DEF TaskNames
  <2>2. todo' = <<e>> \o Tail(todo) BY <1>6, <2>1 DEF OnAbortCalls, If, Then
  <2>3. All(todo') = {e} \cup Rest /\ H' = e /\ todo' # << >> BY <1>2, <2>2, PushOne
  <2>4. ~conn'.acc BY <1>3, <1>6, AccReset DEF OnAbortConn
  <2>5. ~conn'.point /\ conn'.op = "none" BY <1>3, <1>6, OnAbort
  <2> QED
    <3>1. e \in {e} /\ \A k \in {e} : k.t \in {"clear", "discard_all", "on_commit_end"} BY <2>1
    <3> QED BY <1>1, <1>6, <2>3, <2>4, <2>5, <3>1, ResetSafe
<1>7. CASE srv.st = "IDLE" /\ conn.inTrans /\ ~conn.err /\ conn' = OnCommitConn /\ Then(OnCommitCalls)
  <2>1. ~conn.committing BY <1>1, <1>7, UnderOver
  <2>2. PICK d \in Tasks, e \in Tasks : /\ d = Call("discard_all") /\ d.t = "discard_all"
                                        /\ e = Call("on_commit_end") /\ e.t = "on_commit_end"
    BY CallType DEF TaskNames
  <2>3. PICK s \in Seq(Tasks) : s = ForEach("clear") /\ \A k \in All(s) : k.t = "clear" BY ForEachStack
  <2>4. PICK q \in Seq(Tasks) : q = Tail(todo) BY <1>2, StackFacts DEF Sound
  <2>5. PICK u \in Seq(Tasks) : /\ u = <<d, e>> \o q /\ All(u) = {d, e} \cup All(q) /\ u # << >>
                                /\ Head(u) = d
    <3>1. <<d, e>> \o q = <<d>> \o (<<e>> \o q) /\ <<e>> \o q \in Seq(Tasks) BY Cat2
    <3>2. PICK v \in Seq(Tasks) : v = <<e>> \o q BY <3>1
    <3>3. <<d>> \o v \in Seq(Tasks) /\ <<d>> \o v # << >> /\ Head(<<d>> \o v) = d BY Cons
    <3>4. All(<<d>> \o v) = {d} \cup All(v) BY AllCons
    <3>5. All(<<e>> \o q) = {e} \cup All(q) BY AllCons
    <3> QED BY <3>1, <3>2, <3>3, <3>4, <3>5
  <2>6. todo' = s \o u
    <3>1. todo' = (s \o <<d, e>>) \o q
      BY <1>7, <2>1, <2>2, <2>3, <2>4 DEF OnCommitCalls, If, Then, ForEach
    <3>2. (s \o <<d, e>>) \o q = s \o (<<d, e>> \o q) OBVIOUS
    <3> QED BY <2>5, <3>1, <3>2
  <2>7. All(s \o u) = All(s) \cup All(u) /\ s \o u # << >> /\ Head(s \o u) \in All(s) \cup {d}
    <3>1. /\ All(s \o u) = All(s) \cup All(u) /\ Len(s \o u) = Len(s) + Len(u)
          /\ Len(s) \in Nat /\ Len(u) \in Nat
          /\ s # << >> => s \o u # << >> /\ Head(s \o u) = s[1] /\ s[1] \in All(s)
      BY CatParts
    <3>2. s = << >> => s \o u = u OBVIOUS
    <3> QED BY <2>5, <3>1, <3>2
  <2>8. ~conn'.acc
    <3>1. ~StartStmt(SvpInit(NoTrans(conn))).acc /\ StartStmt(SvpInit(NoTrans(conn))) \in Conns
      BY <1>3, AccReset, EndedConn
    <3> QED BY <1>7, <2>1, <3>1 DEF OnCommitConn, Conns
  <2>9. ~conn'.point /\ conn'.op = "none" BY <1>3, <1>7, <2>1, OnCommit
  <2> DEFINE N == All(s) \cup {d, e}
  <2>10. /\ All(todo') = N \cup Rest /\ todo' # << >> /\ H' \in N
         /\ \A k \in N : k.t \in {"clear", "discard_all", "on_commit_end"}
    BY <2>2, <2>3, <2>4, <2>5, <2>6, <2>7 DEF H, Rest
  <2> QED BY <1>1, <1>7, <2>8, <2>9, <2>10, ResetSafe
<1>8. CASE srv.st = "INTRANS" /\ conn' = [conn EXCEPT !.inTrans = TRUE, !.err = FALSE]
           /\ Then(If(conn.err, <<Call("discard_all")>>))
  <2>1. AccSame /\ conn'.op = conn.op /\ ~conn'.err BY <1>3, <1>8 DEF Conns, AccSame
  <2>2. CASE ~conn.err
    <3>1. Then(<< >>) BY <1>8, <2>2 DEF If
    <3> QED BY <1>4, <1>8, <2>1, <3>1
  <2>3. CASE conn.err
    <3>1. PICK e \in Tasks : e = Call("discard_all") /\ e.t = "discard_all" BY CallType DEF TaskNames
    <3>2. todo' = <<e>> \o Tail(todo) BY <1>8, <2>3, <3>1 DEF If, Then
    <3>3. All(todo') = {e} \cup Rest /\ H' = e /\ todo' # << >> BY <1>2, <3>2, PushOne
    <3>4. Framed({e}) BY <1>1, <1>2, <1>8, <2>1, <3>1, <3>3, FramedPush DEF AccTasks
    <3>5. (\A t : Top(t) <=> H.t = t) /\ (\A t : Has(t) <=> H.t = t \/ In(t)) BY <1>2, UnderTop
    <3>6. ~Undoing BY <1>2, <3>5 DEF Undoing
    <3>7. ~Shielded BY <1>8, <2>3 DEF Shielded
    <3>8. ~Ending => ~Ending' /\ ~Top("send")'
      <4>1. \A t : Top(t)' <=> t = "discard_all" BY <3>1, <3>3 DEF Top, H
      <4>2. Has("commit_send")' => Has("commit_send") BY <3>1, <3>3, <3>5 DEF Has, In
      <4> QED BY <4>1, <4>2 DEF Ending
    <3> QED BY <3>4, <3>6, <3>7, <3>8, FramedSafe
  <2> QED BY <2>2, <2>3
<1>9. CASE srv.st = "INERROR" /\ conn' = [conn EXCEPT !.inTrans = TRUE, !.err = TRUE] /\ Then(<< >>)
  <2>1. AccSame /\ conn'.op = conn.op BY <1>3, <1>9 DEF Conns, AccSame
  <2> QED BY <1>4, <1>9, <2>1
<1> QED BY <1>1, <1>5, <1>6, <1>7, <1>8, <1>9
\* Nothing is left to do.
LEMMA QuietSafe ==
  ASSUME todo' = << >>, ~conn'.acc, ~conn'.point, conn'.op = "none", Blank',
         ~(Wrote(srv') /\ conn'.prev), Atom' /\ last'.failed => Undone'
  PROVE  SafeInv'
<1>1. \A t : ~Top(t)' /\ ~Has(t)' BY DEF Top, Has, All
<1>2. Quiet' BY DEF Quiet
<1>3. AccInv' /\ PrevInv' /\ CatalogInv' /\ WriteInv' /\ ExtWriteInv'
  BY <1>1 DEF AccInv, PrevInv, CatalogInv, WriteInv, ExtWriteInv
<1>4. AtomInv' BY <1>1, <1>2 DEF AtomInv
<1> QED BY <1>3, <1>4, SafeFrom
LEMMA HasKept ==
  ASSUME Sound(todo), todo # << >>, NEW N, All(todo') = N \cup Rest, H.t \notin AccTasks,
         \A k \in N : k.t \notin AccTasks
  PROVE  \A t \in AccTasks : (Has(t)' <=> Has(t)) /\ (Has(t) <=> In(t)) /\ ~Top(t)
<1>1. (\A t : Has(t) <=> H.t = t \/ In(t)) /\ (\A t : Top(t) <=> H.t = t) BY UnderTop
<1>2. \A t : Has(t)' <=> (\E k \in N : k.t = t) \/ In(t) BY DEF Has, In
<1> QED BY <1>1, <1>2
LEMMA EndTransactSafe ==
  ASSUME IInv, conn.alive, SafeInv, EndTransact
  PROVE  SafeInv'
<1>1. /\ Top("transact_end") /\ UNCHANGED srv /\ last' = [last EXCEPT !.failed = ret = "error"]
      /\ IF ret = "ok" THEN Then(<< >>) /\ UNCHANGED conn
         ELSE conn' = OnAbortConn /\ Then(OnAbortCalls)
  BY DEF EndTransact
<1>2. todo # << >> /\ H.t = "transact_end" /\ todo \in Seq(Tasks) /\ Sound(todo) BY <1>1, TopIs
<1>3. /\ \A t : Has(t) <=> H.t = t \/ In(t)
      /\ \A t : In(t) => t \in Lower(H.t)
      /\ \A t : Top(t) <=> H.t = t
  BY <1>2, UnderTop
<1>4. \A t : ~In(t) BY <1>2, <1>3 DEF Lower, Talk, Clears, Discs
<1>5. Rest = {}
  <2>1. \A k \in Rest : FALSE BY <1>4 DEF In
  <2> QED BY <2>1
<1>6. ~conn.acc /\ ~conn.point /\ conn.op = "none" BY <1>2, <1>3, <1>4, SafeParts DEF AccInv
<1>7. ~Atom BY <1>2, <1>3, <1>4, SafeParts DEF AtomInv, Quiet
<1>8. ~(Wrote(srv) /\ conn.prev) BY <1>2, <1>3, <1>4, SafeParts DEF PrevInv, Undoing
<1>9. ~Ending BY <1>2, <1>3, <1>4 DEF Ending
<1>10. srv.st = "IDLE" BY <1>2, <1>3, <1>9, LiveParts DEF RetInv
<1>11. ~conn.inTrans BY <1>2, <1>10, Settled DEF Matches
<1>12. Then(<< >>) BY <1>1, <1>11 DEF OnAbortCalls, If
<1>13. todo' = << >>
  <2>1. todo' = Tail(todo) BY <1>12, Popping
  <2>2. todo' # << >> => H' \in Rest BY <1>2, <2>1, Pop
  <2> QED BY <1>5, <2>2
<1>14. ~conn'.acc /\ ~conn'.point /\ conn'.op = "none"
  <2>1. CASE ret = "ok" BY <1>1, <1>6, <2>1
  <2>2. CASE ret # "ok" BY <1>1, <2>2, TypesOf, AccReset, OnAbort DEF OnAbortConn
  <2> QED BY <2>1, <2>2
<1>15. Blank' BY <1>1, SafeParts DEF Blank
<1>16. ~Wrote(srv') BY <1>1, <1>10 DEF Wrote
<1>17. ~Atom'
  <2>1. last \in LastType BY TypesOf
  <2>2. last'.op = last.op /\ last'.st = last.st /\ last'.w = last.w BY <1>1, <2>1 DEF LastType
  <2> QED BY <1>7, <2>2 DEF Atom
<1> QED BY <1>13, <1>14, <1>15, <1>16, <1>17, QuietSafe
LEMMA QueryRollbackSafe ==
  ASSUME IInv, conn.alive, SafeInv, QueryRollback
  PROVE  SafeInv'
<1>1. Top("query_rollback") /\ UNCHANGED last /\ Then(<<Call("update")>>) BY DEF QueryRollback
<1>2. todo # << >> /\ H.t = "query_rollback" /\ todo \in Seq(Tasks) /\ Sound(todo) BY <1>1, TopIs
<1>3. PICK i : i = Len(srv.svps) OBVIOUS
<1>4. srv.st = "INERROR" BY <1>1, LiveParts DEF TalkInv
<1>5. /\ Indices(srv, "query") # {} /\ Latest(srv, "query") = i /\ i > 0 /\ i \in Nat
      /\ Released(RolledBackTo(srv, i), i).st = "INTRANS"
      /\ Len(Released(RolledBackTo(srv, i), i).svps) = i - 1
      /\ \A j \in 1..(i - 1) : Released(RolledBackTo(srv, i), i).svps[j] = srv.svps[j]
  BY <1>1, <1>3, QuerySavepoint
<1>6. srv' = Released(RolledBackTo(srv, i), i) /\ UNCHANGED conn BY <1>4, <1>5 DEF QueryRollback
<1>7. srv'.w = srv.svps[i].w
  <2>1. srv \in Servers BY TypesOf
  <2>2. RolledBackTo(srv, i).w = srv.svps[i].w BY <2>1 DEF RolledBackTo, Servers
  <2>3. RolledBackTo(srv, i) \in Servers BY <1>3, <1>5, <2>1, RolledBack
  <2>4. Released(RolledBackTo(srv, i), i).w = RolledBackTo(srv, i).w BY <2>3 DEF Released, Servers
  <2> QED BY <1>6, <2>2, <2>4
<1>8. Wrote(srv') => Wrote(srv) BY <1>3, <1>4, <1>5, <1>6, <1>7 DEF Wrote
<1>9. PICK e \in Tasks : e = Call("update") /\ e.t = "update" BY CallType DEF TaskNames
<1>10. All(todo') = {e} \cup Rest /\ H' = e /\ todo' # << >>
  <2>1. todo' = <<e>> \o Tail(todo) BY <1>1, <1>9 DEF Then
  <2> QED BY <1>2, <2>1, PushOne
<1>11. \A t : Top(t)' <=> t = "update" BY <1>9, <1>10 DEF Top, H
<1>12. /\ Has("stmt_end")' <=> Has("stmt_end")
       /\ Has("stmt_clean")' <=> Has("stmt_clean")
       /\ Has("exec_ext")' <=> Has("exec_ext")
       /\ Has("request_start")' <=> Has("request_start")
  <2>0. PICK N : N = {e} OBVIOUS
  <2>1. H.t \notin AccTasks /\ \A k \in N : k.t \notin AccTasks BY <1>2, <1>9, <2>0 DEF AccTasks
  <2>3. All(todo') = N \cup Rest BY <1>10, <2>0
  <2>2. \A t \in AccTasks : Has(t)' <=> Has(t) BY <1>2, <2>1, <2>3, HasKept
  <2> QED BY <2>2 DEF AccTasks
<1>13. \A t : Top(t) <=> t = "query_rollback" BY <1>2, UnderTop
<1>14. srv'.st = "INTRANS" BY <1>5, <1>6
<1>15. conn.acc => ~conn.prog BY <1>4, SafeParts DEF AccInv
<1>16. Blank' /\ AccInv' BY <1>1, <1>6, <1>12, <1>14, <1>15, SafeParts DEF Blank, AccInv
<1>17. PrevInv'
  <2>1. ~Undoing BY <1>13 DEF Undoing
  <2> QED BY <1>1, <1>6, <1>8, <1>12, <2>1, SafeParts DEF PrevInv, Noted
<1>18. CatalogInv' /\ WriteInv' BY <1>11 DEF CatalogInv, WriteInv
<1>19. ExtWriteInv' BY <1>1, <1>6, <1>12, <1>13, <1>14, SafeParts DEF ExtWriteInv, Noted
<1>20. AtomInv'
  <2> SUFFICES ASSUME Atom'
               PROVE  Has("stmt_clean")' /\ ~Has("stmt_end")' /\ ~last'.failed
    BY DEF AtomInv
  <2>1. Atom BY <1>1 DEF Atom
  <2>2. ~Before /\ ~Shielded /\ ~Undone
    BY <1>4, <1>13 DEF Before, Shielded, Shield, Undone, InUse, OnQuery
  <2> QED BY <1>1, <1>2, <1>12, <2>1, <2>2, SafeParts DEF AtomInv, Quiet
<1> QED BY <1>16, <1>17, <1>18, <1>19, <1>20, SafeFrom
\* What a command does to the writes of the transaction.
Clean(s) == s.st = "IDLE" => s.w = 0 /\ s.svps = << >>
Unwritten(s, r) ==
  /\ r.srv.w = s.w /\ r.srv.svps = s.svps
  /\ r.tag = "ERROR" => r.srv.st = IF s.st = "IDLE" THEN "IDLE" ELSE "INERROR"
  /\ r.tag # "ERROR" => r.srv.st = s.st \/ (s.st = "IDLE" /\ r.srv.st = "INTRANS")
LEMMA FailedUnwritten ==
  ASSUME NEW s \in Servers
  PROVE  Unwritten(s, Failed(s))
BY DEF Unwritten, Failed, Reply, Servers
LEMMA PlainUnwritten ==
  ASSUME NEW s \in Servers, NEW c \in Cmds, NEW r \in Replies(s, c),
         c.op \in {"begin", "start", "read", "special", "deallocate", "declare", "fetch", "close", "move"}
  PROVE  Unwritten(s, r)
<1>1. s.st \in StNames BY ServerFields
<1>2. CASE s.st = "INERROR" BY <1>2, FailedUnwritten DEF Replies
<1>3. ASSUME s.st # "INERROR" PROVE r \in PlainReplies(s, c) BY <1>3 DEF Replies
<1>4. CASE s.st # "INERROR" /\ c.op \in {"begin", "start"}
  BY <1>1, <1>3, <1>4 DEF PlainReplies, Unwritten, Reply, Warned, Servers, StNames
<1>5. CASE s.st # "INERROR" /\ c.op = "read"
  <2> DEFINE s1 == [s EXCEPT !.w = IF s.st # "IDLE" /\ c.op = "write" THEN @ + 1 ELSE @]
  <2>1. r \in {Failed(s), Reply(s1, "OTHER"), Warned(s1, "OTHER")} BY <1>3, <1>5 DEF PlainReplies
  <2>2. s1.w = s.w /\ s1.svps = s.svps /\ s1.st = s.st BY <1>5 DEF Servers
  <2> HIDE DEF s1
  <2>3. r = Failed(s) \/ (r.srv = s1 /\ r.tag = "OTHER") BY <2>1 DEF Reply, Warned
  <2> QED BY <2>2, <2>3, FailedUnwritten DEF Unwritten
<1>6. CASE s.st # "INERROR" /\ c.op \in {"special", "deallocate"}
  <2>1. r = Failed(s) \/ r = Reply(s, "OTHER") BY <1>3, <1>6 DEF PlainReplies
  <2> QED BY <2>1, FailedUnwritten DEF Unwritten, Reply
<1>7. CASE s.st # "INERROR" /\ c.op \in {"declare", "fetch", "close", "move"}
  <2>1. r \in CursorReplies(s, c) BY <1>3, <1>7 DEF PlainReplies
  <2>2. r = Failed(s) \/ r = Reply(s, "OTHER") \/ \E p : r = Reply(WithPort(s, c.h, p), "OTHER")
    BY <1>7, <2>1 DEF CursorReplies
  <2>3. \A p : /\ WithPort(s, c.h, p).w = s.w /\ WithPort(s, c.h, p).svps = s.svps
               /\ WithPort(s, c.h, p).st = s.st
    BY DEF WithPort, Servers
  <2> QED BY <2>2, <2>3, FailedUnwritten DEF Unwritten, Reply
<1> QED BY <1>2, <1>4, <1>5, <1>6, <1>7
LEMMA WriteWrites ==
  ASSUME NEW s \in Servers, NEW c \in Cmds, NEW r \in Replies(s, c), c.op = "write"
  PROVE  \/ Unwritten(s, r)
         \/ s.st = "INTRANS" /\ r.tag # "ERROR" /\ r.srv.st = s.st /\ r.srv.svps = s.svps
<1>1. s.st \in StNames BY ServerFields
<1>2. CASE s.st = "INERROR" BY <1>2, FailedUnwritten DEF Replies
<1>3. CASE s.st # "INERROR"
  <2> DEFINE s1 == [s EXCEPT !.w = IF s.st # "IDLE" /\ c.op = "write" THEN @ + 1 ELSE @]
  <2>1. r \in {Failed(s), Reply(s1, "OTHER"), Warned(s1, "OTHER")} BY <1>3 DEF Replies, PlainReplies
  <2>2. s1.svps = s.svps /\ s1.st = s.st /\ (s.st = "IDLE" => s1.w = s.w) BY DEF Servers
  <2>3. CASE r = Failed(s) BY <2>3, FailedUnwritten
  <2>4. CASE r # Failed(s)
    <3>1. r.srv = s1 /\ r.tag = "OTHER" BY <2>1, <2>4 DEF Reply, Warned
    <3> QED BY <1>1, <1>3, <2>2, <3>1 DEF Unwritten, StNames
  <2> QED BY <2>3, <2>4
<1> QED BY <1>2, <1>3
LEMMA SvpWrites ==
  ASSUME NEW s \in Servers, NEW c \in Cmds, NEW r \in Replies(s, c), c.op = "savepoint"
  PROVE  \/ Unwritten(s, r)
         \/ /\ s.st # "IDLE" /\ r.srv.w = s.w /\ r.srv.st = s.st /\ r.tag # "ERROR"
            /\ r.srv.svps = Append(s.svps, [name |-> c.svp, w |-> s.w])
<1>1. r = Failed(s) \/ (s.st # "IDLE"
        /\ r = Reply([s EXCEPT !.svps = Append(s.svps, [name |-> c.svp, w |-> s.w])], "SAVEPOINT"))
  BY DEF Replies, SvpReplies
<1>2. CASE r = Failed(s) BY <1>2, FailedUnwritten
<1>3. CASE r # Failed(s)
  <2>1. r = Reply([s EXCEPT !.svps = Append(s.svps, [name |-> c.svp, w |-> s.w])], "SAVEPOINT")
        /\ s.st # "IDLE"
    BY <1>1, <1>3
  <2> QED BY <2>1 DEF Reply, Servers
<1> QED BY <1>2, <1>3
LEMMA ReleaseWrites ==
  ASSUME NEW s \in Servers, NEW c \in Cmds, NEW r \in Replies(s, c), c.op = "release"
  PROVE  \/ Unwritten(s, r)
         \/ /\ s.st # "IDLE" /\ Indices(s, c.svp) # {} /\ r.srv = Released(s, Latest(s, c.svp))
            /\ r.srv.w = s.w /\ r.srv.st = s.st
<1>1. r = Failed(s) \/ (s.st # "IDLE" /\ Indices(s, c.svp) # {}
                         /\ r = Reply(Released(s, Latest(s, c.svp)), "RELEASE"))
  BY DEF Replies, SvpReplies
<1>2. CASE r = Failed(s) BY <1>2, FailedUnwritten
<1>3. CASE r # Failed(s)
  <2>1. \A i : Released(s, i).w = s.w /\ Released(s, i).st = s.st BY DEF Released, Servers
  <2> QED BY <1>1, <1>3, <2>1 DEF Reply
<1> QED BY <1>2, <1>3
LEMMA BackWrites ==
  ASSUME NEW s \in Servers, NEW c \in Cmds, NEW r \in Replies(s, c), c.op = "rollback_to"
  PROVE  \/ Unwritten(s, r)
         \/ /\ s.st # "IDLE" /\ Indices(s, c.svp) # {} /\ r.srv = RolledBackTo(s, Latest(s, c.svp))
            /\ r.srv.w = s.svps[Latest(s, c.svp)].w /\ r.srv.st = "INTRANS"
<1>1. r = Failed(s) \/ (s.st # "IDLE" /\ Indices(s, c.svp) # {}
                         /\ r = Reply(RolledBackTo(s, Latest(s, c.svp)), "ROLLBACK"))
  BY DEF Replies, SvpReplies
<1>2. CASE r = Failed(s) BY <1>2, FailedUnwritten
<1>3. CASE r # Failed(s)
  <2>1. \A i : RolledBackTo(s, i).w = s.svps[i].w /\ RolledBackTo(s, i).st = "INTRANS"
    BY DEF RolledBackTo, Servers
  <2> QED BY <1>1, <1>3, <2>1 DEF Reply
<1> QED BY <1>2, <1>3
LEMMA EndWrites ==
  ASSUME NEW s \in Servers, NEW c \in Cmds, NEW r \in Replies(s, c), c.op \in {"commit", "rollback"}
  PROVE  /\ r.srv.st = "IDLE" /\ (s.st = "IDLE" => r.srv.w = s.w /\ r.srv.svps = s.svps)
         /\ s.st # "IDLE" => r.srv.w = 0 /\ r.srv.svps = << >>
<1>1. \A k : TransEnds(s, k).st = "IDLE" /\ TransEnds(s, k).w = 0 /\ TransEnds(s, k).svps = << >>
  BY DEF TransEnds, Servers
<1>2. \/ s.st = "IDLE" /\ r.srv = s
      \/ s.st # "IDLE" /\ (r.srv = TransEnds(s, TRUE) \/ r.srv = TransEnds(s, FALSE))
  BY EndReply
<1> QED BY <1>1, <1>2
LEMMA WritesKept ==
  ASSUME NEW s \in Servers, NEW c \in Cmds, NEW r \in Replies(s, c), Clean(s)
  PROVE  Clean(r.srv) /\ (Wrote(r.srv) => Wrote(s) \/ (c.op = "write" /\ s.st = "INTRANS"))
<1>1. s.svps \in Seq(Svp) /\ s.w \in Nat /\ Len(s.svps) \in Nat /\ s.st \in StNames BY ServerFields
<1>2. CASE Unwritten(s, r)
  <2>1. r.srv.w = s.w /\ r.srv.svps = s.svps /\ (r.srv.st = "IDLE" => s.st = "IDLE") BY <1>2 DEF Unwritten
  <2>2. s.st = "IDLE" => ~(s.w > 0) /\ Len(s.svps) = 0 BY DEF Clean
  <2>3. s.st = "IDLE" => ~(s.w > 0 \/ \E i \in 1..Len(s.svps) : s.svps[i].w > 0) BY <2>2
  <2> QED BY <2>1, <2>3 DEF Clean, Wrote
<1>3. CASE c.op = "write" /\ ~Unwritten(s, r) BY <1>3, WriteWrites DEF Clean
<1>4. CASE c.op = "savepoint" /\ ~Unwritten(s, r)
  <2>1. /\ s.st # "IDLE" /\ r.srv.w = s.w /\ r.srv.st = s.st
        /\ r.srv.svps = Append(s.svps, [name |-> c.svp, w |-> s.w])
    BY <1>4, SvpWrites
  <2>2. \A i \in 1..Len(r.srv.svps) : r.srv.svps[i].w = s.w \/ (i \in 1..Len(s.svps) /\ r.srv.svps[i] = s.svps[i])
    BY <1>1, <2>1
  <2> QED BY <2>1, <2>2 DEF Clean, Wrote
<1>5. CASE c.op = "release" /\ ~Unwritten(s, r)
  <2>1. /\ s.st # "IDLE" /\ Indices(s, c.svp) # {} /\ r.srv = Released(s, Latest(s, c.svp))
        /\ r.srv.w = s.w /\ r.srv.st = s.st
    BY <1>5, ReleaseWrites
  <2>2. Latest(s, c.svp) \in 1..Len(s.svps) BY <2>1, LatestIs DEF Indices
  <2>3. PICK i \in 1..Len(s.svps) : i = Latest(s, c.svp) BY <2>2
  <2>4. Len(r.srv.svps) = i - 1 /\ \A j \in 1..(i - 1) : r.srv.svps[j] = s.svps[j]
    BY <2>1, <2>3, ReleasedTo
  <2>5. \A j \in 1..(i - 1) : j \in 1..Len(s.svps) BY <1>1
  <2> QED BY <2>1, <2>4, <2>5 DEF Clean, Wrote
<1>6. CASE c.op = "rollback_to" /\ ~Unwritten(s, r)
  <2>1. /\ s.st # "IDLE" /\ Indices(s, c.svp) # {} /\ r.srv = RolledBackTo(s, Latest(s, c.svp))
        /\ r.srv.w = s.svps[Latest(s, c.svp)].w /\ r.srv.st = "INTRANS"
    BY <1>6, BackWrites
  <2>2. Latest(s, c.svp) \in 1..Len(s.svps) BY <2>1, LatestIs DEF Indices
  <2>3. PICK i \in 1..Len(s.svps) : i = Latest(s, c.svp) BY <2>2
  <2>4. Len(r.srv.svps) = i /\ \A j \in 1..i : r.srv.svps[j] = s.svps[j] BY <2>1, <2>3, RolledBack
  <2>5. \A j \in 1..i : j \in 1..Len(s.svps) BY <1>1
  <2> QED BY <2>1, <2>3, <2>4, <2>5 DEF Clean, Wrote
<1>7. CASE c.op \in {"commit", "rollback"} BY <1>7, EndWrites DEF Clean, Wrote
<1>8. c.op \in {"begin", "start", "read", "special", "deallocate", "declare", "fetch", "close", "move",
                "write", "savepoint", "release", "rollback_to", "commit", "rollback"}
  BY CmdFields DEF CmdNames, Kinds
<1> QED BY <1>2, <1>3, <1>4, <1>5, <1>6, <1>7, <1>8, PlainUnwritten
--------------------
(* The query under way and the accounts *)
PlainBody(q) ==
  /\ q # << >> /\ Tail(q) = << >> /\ Head(q).op \in Kinds
  /\ Head(q).op = last.op \/ (Head(q).op = "read" /\ last.op = "catalog")
OpenBody(q) ==
  /\ q # << >> /\ Head(q).op = "declare" /\ last.op = "open"
  /\ Tail(q) # << >> /\ Tail(Tail(q)) = << >> /\ Head(Tail(q)).op = "fetch"
LEMMA EndOf ==
  ASSUME NEW q \in Seq(Cmds), q # << >>
  PROVE  /\ Tail(q) = << >> => q[Len(q)] = Head(q)
         /\ Tail(q) # << >> => q[Len(q)] = Tail(q)[Len(Tail(q))]
<1>1. Tail(q) \in Seq(Cmds) /\ Len(q) = Len(Tail(q)) + 1 /\ Head(q) = q[1]
      /\ \A i \in 1..Len(Tail(q)) : Tail(q)[i] = q[i + 1]
  OBVIOUS
<1>2. Tail(q) = << >> => Len(q) = 1
  <2>1. \A t \in Seq(Cmds) : t = << >> => Len(t) = 0 OBVIOUS
  <2>2. Tail(q) = << >> => Len(Tail(q)) = 0 BY <1>1, <2>1
  <2> QED BY <1>1, <2>2
<1>3. Tail(q) # << >> => Len(Tail(q)) \in 1..Len(Tail(q)) BY <1>1
<1> QED BY <1>1, <1>2, <1>3
LEMMA QuickOps ==
  ASSUME NEW c, Quick(c)
  PROVE  c.op \in {"deallocate", "close", "move"}
BY DEF Quick, CloseIt, CursCmd, Cmd
\* No statement waits for a CLOSE, MOVE or DEALLOCATE, except under a chore.
LEMMA QuickUnder ==
  ASSUME IInv, todo # << >>, NEW c, Quick(c), ~Busy
  PROVE  ~In("stmt_end")
<1> SUFFICES ASSUME NEW m \in Rest, m.t = "stmt_end" PROVE FALSE BY DEF In
<1>1. Rest \subseteq All(todo) BY TypesOf, StackFacts
<1>2. PICK k \in Rest : k.t = "closed" /\ Only(Ends) BY <1>1 DEF Quick, Busy, Chores, Discs, Clears, In
<1> QED BY <1>2, OneClosed
\* What the query under way may do.
WireShape ==
  /\ Head(H.q).op = "write" => Tail(H.q) = << >> /\ In("stmt_end")
  /\ Tail(H.q) # << >> /\ H.q[Len(H.q)].op = "write" =>
       srv.st # "INERROR" /\ Head(H.q).op \in {"begin", "savepoint", "release"}
  /\ Head(H.q).op = "rollback_to" => last.op = "rollback_to"
  /\ (/\ In("stmt_end") /\ ~Busy /\ NoQuery /\ last.op \in {"write", "open"}
      /\ srv.st # "IDLE" /\ conn.op = "none")
     => Head(H.q).op \in {"write", "declare", "fetch"}
LEMMA WireShaped ==
  ASSUME IInv, conn.alive, Top("wire"), H.q # << >>
  PROVE  WireShape
<1>1. IF conn.op = "none" THEN SoloWire \/ BeginWire \/ QueryWire ELSE SvpWire
  BY LiveParts DEF TalkInv, WireInv
<1>2. H.q \in Seq(Cmds) /\ Tail(H.q) \in Seq(Cmds) BY WireHead, TypesOf, StackFacts, TaskFields DEF Top
<1>3. todo # << >> /\ ~Unsettled BY DEF Unsettled, Top, H
<1>4. Matches BY <1>3, LiveParts DEF StatusInv, Mirrors
<1>5. ASSUME Tail(H.q) # << >>
      PROVE  /\ Tail(Tail(H.q)) = << >> => H.q[Len(H.q)] = Head(Tail(H.q))
             /\ Tail(Tail(H.q)) # << >> => H.q[Len(H.q)] = Tail(Tail(H.q))[Len(Tail(Tail(H.q)))]
  BY <1>2, <1>5, EndOf
<1>6. CASE conn.op # "none"
  <2>1. InUse /\ Head(H.q).op \in {"release", "savepoint"}
    BY <1>1, <1>6 DEF SvpWire, SvpQuery, SvpCmd, Cmd
  <2> QED BY <1>6, <2>1 DEF WireShape, InUse
<1>7. CASE SoloWire /\ ForStmt /\ Body(H.q)
  <2>1. PlainBody(H.q) \/ OpenBody(H.q)
    <3>1. CASE \E op \in Kinds : IsOp(H.q, op)
      <4>1. PICK op \in Kinds : IsOp(H.q, op) BY <3>1
      <4> QED BY <4>1 DEF IsOp, One, Cmd, PlainBody
    <3>2. CASE \E h \in Handles, hold \in BOOLEAN : IsOpen(H.q, h, hold)
      <4>1. PICK h \in Handles, hold \in BOOLEAN : IsOpen(H.q, h, hold) BY <3>2
      <4> QED BY <4>1 DEF IsOpen, Two, One, Declare, Fetch, CursCmd, Cmd, OpenBody
    <3> QED BY <1>7, <3>1, <3>2 DEF Body
  <2>2. In("stmt_end") BY <1>7 DEF ForStmt
  <2>3. CASE Tail(H.q) = << >> BY <2>1, <2>2, <2>3 DEF WireShape, Kinds, PlainBody, OpenBody
  <2>4. CASE Tail(H.q) # << >> BY <1>5, <2>1, <2>4 DEF WireShape, PlainBody, OpenBody
  <2> QED BY <2>3, <2>4
<1>8. CASE \E k \in Rest : One(H.q, Fetch(k.h))
  <2>1. Head(H.q).op = "fetch" /\ Tail(H.q) = << >> BY <1>8 DEF One, Fetch, CursCmd, Cmd
  <2> QED BY <2>1 DEF WireShape
<1>9. CASE Head(H.q) = Cmd("begin") /\ ~conn.inTrans
  <2>1. Head(H.q).op = "begin" /\ srv.st = "IDLE" BY <1>4, <1>9 DEF Cmd, Matches
  <2> QED BY <2>1 DEF WireShape
<1>10. CASE IsEnd(H.q) /\ ForEnd
  <2>1. Head(H.q).op \in {"commit", "rollback"} /\ Tail(H.q) = << >> BY <1>10 DEF IsEnd, One, Cmd
  <2>2. ~In("stmt_end") BY <1>10 DEF ForEnd, Only, In
  <2> QED BY <2>1, <2>2 DEF WireShape
<1>11. CASE SoloWire /\ \E c \in Cmds : One(H.q, c) /\ Quick(c)
  <2>1. PICK c \in Cmds : One(H.q, c) /\ Quick(c) BY <1>11
  <2>2. Head(H.q).op \in {"deallocate", "close", "move"} /\ Tail(H.q) = << >> BY <2>1, QuickOps DEF One
  <2>3. ~Busy => ~In("stmt_end") BY <1>3, <2>1, QuickUnder
  <2> QED BY <2>2, <2>3 DEF WireShape
<1>12. CASE conn.op = "none" /\ QueryWire
  <2>1. ~NoQuery /\ InUse BY <1>12 DEF QueryWire, NoQuery
  <2>2. Head(H.q).op \in {"savepoint", "release", "deallocate", "close", "move"}
    BY <1>12, QuickOps DEF QueryWire, Two, One, SvpCmd, Cmd
  <2>3. ASSUME Tail(H.q) # << >> PROVE H.q[Len(H.q)].op = "release"
    <3>1. CASE \E c \in Cmds : Two(Tail(H.q), c, SvpCmd("release", "query"))
      <4>1. /\ Tail(Tail(H.q)) # << >> /\ Tail(Tail(Tail(H.q))) = << >>
            /\ Head(Tail(Tail(H.q))) = SvpCmd("release", "query")
        BY <3>1 DEF Two, One
      <4>0. \A u \in Seq(Cmds) : u # << >> => Tail(u) \in Seq(Cmds) OBVIOUS
      <4>2. PICK t \in Seq(Cmds) : t = Tail(Tail(H.q)) BY <1>2, <2>3, <4>0
      <4>3. t # << >> /\ Tail(t) = << >> /\ Head(t).op = "release" BY <4>1, <4>2 DEF SvpCmd, Cmd
      <4>4. t[Len(t)] = Head(t) BY <4>3, EndOf
      <4>5. H.q[Len(H.q)] = t[Len(t)] BY <1>5, <2>3, <4>2, <4>3
      <4> QED BY <4>3, <4>4, <4>5
    <3>2. CASE \E c \in Cmds : Two(H.q, c, SvpCmd("release", "query"))
      <4>1. Tail(Tail(H.q)) = << >> /\ Head(Tail(H.q)) = SvpCmd("release", "query") BY <3>2 DEF Two, One
      <4> QED BY <1>5, <2>3, <4>1 DEF SvpCmd, Cmd
    <3> QED BY <1>12, <2>3, <3>1, <3>2 DEF QueryWire, One
  <2> QED BY <2>1, <2>2, <2>3 DEF WireShape, InUse
<1> QED BY <1>1, <1>6, <1>7, <1>8, <1>9, <1>10, <1>11, <1>12 DEF SoloWire, BeginWire, One
\* What is sent under a chore, and before a prepared statement.
QueryQuick == QueryOn /\ \/ \E c \in Cmds : QueryWire1(c) \/ QueryNext(c)
                         \/ QueryLast
LEMMA UnderWire ==
  ASSUME IInv, conn.alive, Top("wire"), H.q # << >>
  PROVE  /\ Busy => (\E c \in Cmds : SoloQuick(c)) \/ QueryQuick
         /\ In("exec_ext") => BeginsWire \/ (\E c \in Cmds : SoloQuick(c)) \/ QueryQuick \/ SvpOn
<1>1. Busy => \E k \in Rest : k.t \in Chores
  BY TypesOf, StackFacts DEF Busy, Top, H, Chores, Discs, Clears
<1>2. ASSUME \E op \in Kinds : Alone(op) PROVE ~Busy /\ ~In("exec_ext")
  BY <1>1, <1>2 DEF Alone, Only, Bare, In, Chores, Discs, Clears
<1>3. ASSUME ForStmt PROVE ~Busy /\ ~In("exec_ext")
  BY <1>1, <1>3 DEF ForStmt, Only, In, Chores, Discs, Clears
<1>4. ASSUME BeginsWire PROVE ~Busy BY <1>1, <1>3, <1>4 DEF BeginsWire, Only, Chores, Discs, Clears
<1>5. ASSUME SvpOn PROVE ~Busy
  <2>1. \E q : After(q) BY <1>5 DEF SvpOn, SvpWire, SvpQuery
  <2>2. ForSvp => ~Busy BY <1>1 DEF ForSvp, Only, Chores, Discs, Clears
  <2> QED BY <1>3, <2>1, <2>2 DEF After
<1>6. (\E h \in Handles, hold \in BOOLEAN : DeclareWire(h, hold)) => ForStmt BY DEF DeclareWire
<1> QED BY <1>2, <1>3, <1>4, <1>5, <1>6, WireCases DEF QueryQuick
--------------------
(* One command of a query and the accounts *)
\* Only the end of a transaction, or of a part of it, is answered by ROLLBACK.
LEMMA RollbackTag ==
  ASSUME NEW s \in Servers, NEW c \in Cmds, NEW r \in Replies(s, c), r.tag = "ROLLBACK",
         c.op \in {"declare", "close"} => c.h \in Handles
  PROVE  c.op \in {"commit", "rollback", "rollback_to"}
<1>1. c.op \in {"begin", "start"} => FALSE BY BeginReply DEF Says
<1>2. c.op \in {"write", "read", "special"} => FALSE BY PlainReply
<1>3. c.op \in {"savepoint", "release", "deallocate"} => FALSE
  BY SavepointReply, ReleaseReply, DeallocateReply DEF Says
<1>4. c.op \in {"fetch", "move"} => FALSE BY FetchReply DEF Says
<1>5. c.op = "close" => FALSE BY CloseReply DEF Says
<1>6. c.op = "declare" => FALSE BY DeclareReply DEF Says
<1> QED BY <1>1, <1>2, <1>3, <1>4, <1>5, <1>6, CmdFields DEF CmdNames, Kinds
\* A transaction goes on unless it is ended.
LEMMA GoesOn ==
  ASSUME NEW s \in Servers, NEW c \in Cmds, NEW r \in Replies(s, c), s.st # "IDLE",
         c.op \notin {"commit", "rollback"}
  PROVE  r.srv.st # "IDLE"
<1>1. Unwritten(s, r) => r.srv.st # "IDLE" BY DEF Unwritten
<1>2. c.op \in {"begin", "start", "read", "special", "deallocate", "declare", "fetch", "close", "move",
                "write", "savepoint", "release", "rollback_to"}
  BY CmdFields DEF CmdNames, Kinds
<1>3. c.op = "write" => r.srv.st # "IDLE" BY <1>1, WriteWrites
<1>4. c.op = "savepoint" => r.srv.st # "IDLE" BY <1>1, SvpWrites
<1>5. c.op = "release" => r.srv.st # "IDLE" BY <1>1, ReleaseWrites
<1>6. c.op = "rollback_to" => r.srv.st # "IDLE" BY <1>1, BackWrites
<1> QED BY <1>1, <1>2, <1>3, <1>4, <1>5, <1>6, PlainUnwritten
\* What a result does to the accounts of the driver.
LEMMA TagAcc ==
  ASSUME NEW c \in Conns, NEW r, NEW f, NEW d, d = TagConn(Noticed(c, r), f, r.tag)
  PROVE  /\ d.acc <=> c.acc
         /\ d.mode = c.mode
         /\ d.prog <=> c.prog \/ r.tag = "ROLLBACK"
         /\ d.prev <=> c.prev /\ r.tag # "ROLLBACK"
<1> DEFINE n == Noticed(c, r)
<1>1. n \in Conns /\ (n.acc <=> c.acc) /\ n.mode = c.mode /\ (n.prog <=> c.prog) /\ (n.prev <=> c.prev)
  <2> HIDE DEF n
  <2>1. n = c \/ n = [c EXCEPT !.inTrans = TRUE] BY DEF Noticed, n
  <2>2. n = c => n \in Conns /\ n.acc = c.acc /\ n.mode = c.mode /\ n.prog = c.prog /\ n.prev = c.prev
    OBVIOUS
  <2>3. n = [c EXCEPT !.inTrans = TRUE]
          => n \in Conns /\ n.acc = c.acc /\ n.mode = c.mode /\ n.prog = c.prog /\ n.prev = c.prev
    BY DEF Conns
  <2> QED BY <2>1, <2>2, <2>3
<1> HIDE DEF n
<1>2. CASE r.tag = "ROLLBACK"
  <2>1. d = [n EXCEPT !.err = TRUE, !.svp = FALSE, !.prev = FALSE, !.prog = TRUE] BY <1>2 DEF TagConn, n
  <2> QED BY <1>1, <1>2, <2>1 DEF Conns
<1>3. CASE r.tag # "ROLLBACK"
  <2>1. \/ d = n \/ d = [n EXCEPT !.inTrans = TRUE, !.manual = TRUE] \/ d = [n EXCEPT !.svp = FALSE]
        \/ d = [n EXCEPT !.point = TRUE, !.svp = TRUE, !.op = "none"]
    BY <1>3 DEF TagConn, n
  <2> QED BY <1>1, <1>3, <2>1 DEF Conns
<1> QED BY <1>2, <1>3
\* One command is executed, and the query goes on as e.
Moves(r, e) == Went(r, e) \/ Stopped(r, e)
LEMMA MoveParts ==
  ASSUME IInv, NEW r, NEW e, Moves(r, e)
  PROVE  /\ WireOn(e) /\ conn.alive /\ Top("wire") /\ H.q # << >> /\ last' = last /\ ret' = ret
         /\ r \in Replies(srv, Head(H.q)) /\ srv' = r.srv
         /\ srv \in Servers /\ Head(H.q) \in Cmds
         /\ r.tag = "ERROR" => Stopped(r, e) /\ e.q = << >>
         /\ r.tag # "ERROR" => Went(r, e) /\ e.q = Tail(H.q)
         /\ conn'.acc <=> conn.acc
         /\ conn'.mode = conn.mode
         /\ conn'.prog <=> conn.prog \/ r.tag = "ROLLBACK"
         /\ conn'.prev <=> conn.prev /\ r.tag # "ROLLBACK"
         /\ conn'.op = conn.op \/ conn'.op = "none"
         /\ conn'.point => conn.point \/ conn.op # "none"
         /\ conn.inTrans \/ (r.tag # "ERROR" /\ r.notice) => conn'.inTrans
<1>1. conn \in Conns /\ srv \in Servers BY TypesOf
<1>2. Top("wire") /\ H.q # << >> /\ conn.alive BY DEF Moves, Went, Stopped
<1>3. Head(H.q) \in Cmds BY <1>2, WireHead
<1>4. CASE Went(r, e)
  <2>1. /\ WireOn(e) /\ e.q = Tail(H.q) /\ Tagged(conn, H.f, r.tag, r.notice) /\ srv' = r.srv
        /\ r \in Replies(srv, Head(H.q)) /\ r.tag # "ERROR"
    BY <1>4, WentIs
  <2>2. conn' = TagConn(Noticed(conn, r), H.f, r.tag) /\ last' = last /\ ret' = ret BY <1>4 DEF Went
  <2>3. /\ conn'.acc <=> conn.acc
        /\ conn'.mode = conn.mode
        /\ conn'.prog <=> conn.prog \/ r.tag = "ROLLBACK"
        /\ conn'.prev <=> conn.prev /\ r.tag # "ROLLBACK"
    BY <1>1, <2>2, TagAcc
  <2> QED BY <1>1, <1>2, <1>3, <1>4, <2>1, <2>2, <2>3 DEF Tagged
<1>5. CASE Stopped(r, e)
  <2>1. /\ WireOn(e) /\ e.q = << >> /\ srv' = r.srv /\ r \in Replies(srv, Head(H.q)) /\ r.tag = "ERROR"
        /\ conn'.inTrans /\ conn'.op = conn.op /\ (conn'.point <=> conn.point)
    BY <1>5, StoppedIs
  <2>2. /\ conn' = [conn EXCEPT !.err = @ \/ conn.inTrans, !.inTrans = TRUE, !.ignored = FALSE]
        /\ last' = last /\ ret' = ret
    BY <1>5 DEF Stopped
  <2>3. conn'.acc = conn.acc /\ conn'.mode = conn.mode /\ conn'.prog = conn.prog /\ conn'.prev = conn.prev
    BY <1>1, <2>2 DEF Conns
  <2> QED BY <1>1, <1>2, <1>3, <1>5, <2>1, <2>2, <2>3
<1> QED BY <1>4, <1>5 DEF Moves
\* Under what a chore, or a prepared statement, waits for.
LEMMA UnderOps ==
  ASSUME IInv, conn.alive, Top("wire"), H.q # << >>
  PROVE  Busy \/ In("exec_ext") =>
           Head(H.q).op \in {"begin", "savepoint", "release", "deallocate", "close", "move"}
<1>1. BeginsWire => Head(H.q).op = "begin" BY DEF BeginsWire, Cmd
<1>2. (\E c \in Cmds : SoloQuick(c)) => Head(H.q).op \in {"deallocate", "close", "move"}
  BY QuickOps DEF SoloQuick, One
<1>3. QueryQuick => Head(H.q).op \in {"savepoint", "release", "deallocate", "close", "move"}
  BY QuickOps DEF QueryQuick, QueryWire1, QueryNext, QueryLast, One, Two, SvpCmd, Cmd
<1>4. SvpOn => Head(H.q).op \in {"savepoint", "release"} BY DEF SvpOn, SvpWire, SvpQuery, SvpCmd, Cmd
<1> QED BY <1>1, <1>2, <1>3, <1>4, UnderWire
\* What else is known of the command.
LEMMA MoveKnown ==
  ASSUME IInv, SafeInv, NEW r, NEW e, Moves(r, e)
  PROVE  /\ Matches /\ ~Unsettled /\ WireShape
         /\ Clean(r.srv)
         /\ Wrote(r.srv) => Wrote(srv) \/ (Head(H.q).op = "write" /\ srv.st = "INTRANS")
         /\ r.tag = "ROLLBACK" => Head(H.q).op \in {"commit", "rollback", "rollback_to"}
         /\ Head(H.q).op \notin {"commit", "rollback"} /\ srv.st # "IDLE" => r.srv.st # "IDLE"
         /\ Head(H.q).op \in {"commit", "rollback"} => r.srv.st = "IDLE"
         /\ conn.acc => ~conn.prog
<1> DEFINE c == Head(H.q)
<1>1. /\ conn.alive /\ Top("wire") /\ H.q # << >> /\ r \in Replies(srv, c) /\ srv \in Servers /\ c \in Cmds
      /\ WireOn(e)
  BY MoveParts
<1>2. c.op \in {"declare", "close", "fetch", "move"} => c.h \in Handles BY <1>1, WireHead
<1>3. Matches /\ ~Unsettled BY <1>1, WireSame
<1>4. Clean(srv) BY SafeParts DEF Blank, Clean
<1>5. WireShape BY <1>1, WireShaped
<1> HIDE DEF c
<1>6. Clean(r.srv) /\ (Wrote(r.srv) => Wrote(srv) \/ (c.op = "write" /\ srv.st = "INTRANS"))
  BY <1>1, <1>4, WritesKept
<1>7. r.tag = "ROLLBACK" => c.op \in {"commit", "rollback", "rollback_to"} BY <1>1, <1>2, RollbackTag
<1>8. c.op \notin {"commit", "rollback"} /\ srv.st # "IDLE" => r.srv.st # "IDLE" BY <1>1, GoesOn
<1>9. c.op \in {"commit", "rollback"} => r.srv.st = "IDLE" BY <1>1, EndWrites
<1>10. conn.acc => ~conn.prog BY <1>3, SafeParts DEF AccInv, Matches
<1> QED BY <1>3, <1>5, <1>6, <1>7, <1>8, <1>9, <1>10 DEF c
LEMMA MoveAcc ==
  ASSUME IInv, SafeInv, NEW r, NEW e, Moves(r, e)
  PROVE  Blank' /\ AccInv'
<1> DEFINE c == Head(H.q)
<1>1. /\ WireOn(e) /\ conn.alive /\ last' = last /\ r \in Replies(srv, c) /\ srv' = r.srv
      /\ srv \in Servers /\ c \in Cmds
      /\ conn'.acc <=> conn.acc
      /\ conn'.prog <=> conn.prog \/ r.tag = "ROLLBACK"
      /\ conn'.prev <=> conn.prev /\ r.tag # "ROLLBACK"
      /\ conn'.op = conn.op \/ conn'.op = "none"
      /\ conn'.point => conn.point \/ conn.op # "none"
      /\ conn.inTrans \/ (r.tag # "ERROR" /\ r.notice) => conn'.inTrans
  BY MoveParts
<1>2. /\ Matches /\ WireShape
      /\ Clean(r.srv)
      /\ r.tag = "ROLLBACK" => c.op \in {"commit", "rollback", "rollback_to"}
      /\ c.op \in {"commit", "rollback"} => r.srv.st = "IDLE"
      /\ conn.acc => ~conn.prog
  BY MoveKnown
<1>3. Blank' BY <1>1, <1>2 DEF Blank, Clean
<1>4. Has("stmt_end")' <=> Has("stmt_end") BY <1>1, WireSame
<1>5. Has("stmt_clean")' <=> Has("stmt_clean") BY <1>1, WireSame
<1>6. conn'.acc => /\ Has("stmt_end")' \/ Has("stmt_clean")'
                   /\ last'.op \notin EndKinds
  BY <1>1, <1>4, <1>5, SafeParts DEF AccInv
<1>7. ASSUME conn'.acc, conn'.prog PROVE srv'.st = "IDLE" /\ conn'.inTrans
  <2>1. r.tag = "ROLLBACK" BY <1>1, <1>2, <1>7
  <2>2. c.op # "rollback_to" BY <1>1, <1>2, <1>6, <1>7 DEF WireShape, EndKinds
  <2>3. c.op \in {"commit", "rollback"} BY <1>2, <2>1, <2>2
  <2>4. srv'.st = "IDLE" BY <1>1, <1>2, <2>3
  <2>5. srv.st = "IDLE" => r.notice BY <1>1, <2>3, EndReply DEF Says
  <2>6. srv.st # "IDLE" => conn.inTrans BY <1>2 DEF Matches
  <2> QED BY <1>1, <2>1, <2>4, <2>5, <2>6
<1>8. conn'.point \/ conn'.op # "none" => conn'.acc /\ ~conn'.prev BY <1>1, SafeParts DEF AccInv
<1>9. AccInv' BY <1>6, <1>7, <1>8 DEF AccInv
<1> QED BY <1>3, <1>9
LEMMA MovePrev ==
  ASSUME IInv, SafeInv, NEW r, NEW e, Moves(r, e)
  PROVE  PrevInv'
<1> DEFINE c == Head(H.q)
<1>1. /\ WireOn(e) /\ conn.alive /\ last' = last /\ srv' = r.srv /\ Top("wire") /\ H.q # << >>
      /\ conn'.acc <=> conn.acc
      /\ conn'.prog <=> conn.prog \/ r.tag = "ROLLBACK"
      /\ conn'.prev <=> conn.prev /\ r.tag # "ROLLBACK"
  BY MoveParts
<1>2. /\ WireShape
      /\ Wrote(r.srv) => Wrote(srv) \/ (c.op = "write" /\ srv.st = "INTRANS")
      /\ c.op \in {"commit", "rollback"} => r.srv.st = "IDLE"
  BY MoveKnown
<1>3. Has("stmt_end")' <=> Has("stmt_end") BY <1>1, WireSame
<1>4. Has("stmt_clean")' <=> Has("stmt_clean") BY <1>1, WireSame
<1>5. In("stmt_end") => Has("stmt_end") BY <1>1, WireSame
<1> SUFFICES ASSUME Wrote(r.srv), conn'.prev
             PROVE  Noted' /\ (Has("stmt_end")' \/ (Has("stmt_clean")' /\ ~last'.failed))
  <2>1. Wrote(srv)' <=> Wrote(r.srv) BY <1>1
  <2> QED BY <2>1 DEF PrevInv
<1>6. r.tag # "ROLLBACK" /\ conn.prev BY <1>1
<1>7. Noted => Noted' BY <1>1, <1>6 DEF Noted
<1>8. CASE Wrote(srv)
  <2>1. ~Undoing
    <3>1. r.srv.st # "IDLE" BY DEF Wrote
    <3>2. c.op # "rollback" BY <1>2, <3>1
    <3>3. ~One(H.q, Cmd("rollback")) BY <3>2 DEF One, Cmd
    <3> QED BY <1>1, <3>3 DEF Undoing, Top
  <2> QED BY <1>1, <1>3, <1>4, <1>6, <1>7, <1>8, <2>1, SafeParts DEF PrevInv
<1>9. CASE c.op = "write" /\ srv.st = "INTRANS"
  <2>1. Tail(H.q) = << >> /\ In("stmt_end") BY <1>2, <1>9 DEF WireShape
  <2>2. H.q \in Seq(Cmds) BY <1>1, WireHead, TaskFields
  <2>3. H.q[Len(H.q)] = c BY <1>1, <2>1, <2>2, EndOf
  <2>4. Noted BY <1>1, <1>9, <2>3, SafeParts DEF WriteInv
  <2> QED BY <1>3, <1>5, <1>7, <2>1, <2>4
<1> QED BY <1>2, <1>8, <1>9
LEMMA MoveWrite ==
  ASSUME IInv, SafeInv, NEW r, NEW e, Moves(r, e)
  PROVE  CatalogInv' /\ WriteInv'
<1> DEFINE c == Head(H.q)
<1>1. /\ WireOn(e) /\ conn.alive /\ Top("wire") /\ H.q # << >>
      /\ e.q = << >> \/ e.q = Tail(H.q)
      /\ conn'.acc <=> conn.acc
      /\ conn'.prog <=> conn.prog \/ r.tag = "ROLLBACK"
  BY MoveParts
<1>2. /\ WireShape /\ (r.tag = "ROLLBACK" => c.op \in {"commit", "rollback", "rollback_to"}) BY MoveKnown
<1>3. H' = e /\ \A t : Top(t)' <=> t = "wire" BY <1>1, WireFacts
<1>4. CatalogInv' BY <1>3 DEF CatalogInv
<1>5. ASSUME e.q # << >>, e.q[Len(e.q)].op = "write" PROVE Noted'
  <2>1. H.q \in Seq(Cmds) /\ e.q = Tail(H.q) BY <1>1, <1>5, WireHead, TaskFields
  <2>2. H.q[Len(H.q)] = Tail(H.q)[Len(Tail(H.q))] BY <1>1, <1>5, <2>1, EndOf
  <2>3. H.q[Len(H.q)].op = "write" BY <1>5, <2>1, <2>2
  <2>4. srv.st # "INERROR" /\ c.op \in {"begin", "savepoint", "release"}
    BY <1>2, <1>5, <2>1, <2>3 DEF WireShape
  <2>5. Noted BY <1>1, <2>3, <2>4, SafeParts DEF WriteInv
  <2> QED BY <1>1, <1>2, <2>4, <2>5 DEF Noted
<1>6. WriteInv' BY <1>3, <1>5 DEF WriteInv
<1> QED BY <1>4, <1>6
LEMMA MoveExt ==
  ASSUME IInv, SafeInv, NEW r, NEW e, Moves(r, e)
  PROVE  ExtWriteInv'
<1> DEFINE c == Head(H.q)
<1>1. /\ WireOn(e) /\ conn.alive /\ Top("wire") /\ H.q # << >> /\ last' = last /\ srv' = r.srv
      /\ r \in Replies(srv, c) /\ srv \in Servers
      /\ r.tag = "ERROR" => Stopped(r, e)
      /\ r.tag # "ERROR" => Went(r, e)
      /\ conn'.acc <=> conn.acc
      /\ conn'.prog <=> conn.prog \/ r.tag = "ROLLBACK"
  BY MoveParts
<1>2. /\ Matches
      /\ r.tag = "ROLLBACK" => c.op \in {"commit", "rollback", "rollback_to"}
      /\ c.op \notin {"commit", "rollback"} /\ srv.st # "IDLE" => r.srv.st # "IDLE"
  BY MoveKnown
<1>3. Has("exec_ext")' <=> Has("exec_ext") BY <1>1, WireSame
<1>4. Has("request_start")' <=> Has("request_start") BY <1>1, WireSame
<1>5. Has("exec_ext") => In("exec_ext") BY <1>1, WireSame
<1> SUFFICES ASSUME Has("exec_ext")', ~Has("request_start")', last'.op = "write"
             PROVE  Noted' /\ (srv'.st = "IDLE" => ~conn'.inTrans)
  BY DEF ExtWriteInv
<1>6. Noted /\ (srv.st = "IDLE" => ~conn.inTrans)
  <2>1. ~Top("exec_ext") BY <1>1 DEF Top
  <2> QED BY <1>1, <1>3, <1>4, <2>1, SafeParts DEF ExtWriteInv
<1>7. c.op \in {"begin", "savepoint", "release", "deallocate", "close", "move"}
  BY <1>1, <1>3, <1>5, UnderOps
<1>8. Noted' BY <1>1, <1>2, <1>6, <1>7 DEF Noted
<1>9. CASE srv.st # "IDLE" BY <1>1, <1>2, <1>7, <1>8, <1>9
<1>10. CASE srv.st = "IDLE"
  <2>1. BeginsWire \/ \E d \in Cmds : SoloQuick(d)
    <3>1. ~QueryQuick /\ ~SvpOn BY <1>1, <1>10, SvpFacts DEF QueryQuick, QueryOn, InUse
    <3> QED BY <1>1, <1>3, <1>5, <3>1, UnderWire
  <2>2. CASE BeginsWire
    <3>1. r.srv.st = "INTRANS" BY <1>1, <2>2, BeginsFacts
    <3> QED BY <1>1, <1>8, <3>1
  <2>3. CASE \E d \in Cmds : SoloQuick(d)
    <3>1. PICK d \in Cmds : SoloQuick(d) BY <2>3
    <3>2. Went(r, e) BY <1>1, <3>1, SoloStopped
    <3>3. QuickHead(d) /\ d = c BY <1>1, <3>1, SoloHead DEF QuickHead
    <3>4. Silent(r)
      <4>1. r \in Replies(srv, d) /\ Sure(d) BY <1>1, <3>1, <3>3 DEF SoloQuick
      <4> QED BY <1>1, <3>3, <4>1, QuickReply
    <3>5. Tagged(conn, H.f, r.tag, r.notice) BY <3>2, WentIs
    <3>6. ~conn'.inTrans BY <1>6, <1>10, <3>4, <3>5 DEF Tagged, Silent, Says
    <3> QED BY <1>8, <3>6
  <2> QED BY <2>1, <2>2, <2>3
<1> QED BY <1>9, <1>10
\* The statement goes on, and can still be undone.
LEMMA MoveShield ==
  ASSUME IInv, SafeInv, NEW r, NEW e, Moves(r, e), Has("stmt_end"), ~Busy, Before,
         last.op \in {"write", "open"}
  PROVE  Before' \/ Shielded'
<1>1. /\ WireOn(e) /\ conn.alive /\ Top("wire") /\ H.q # << >> /\ last' = last
      /\ r \in Replies(srv, Head(H.q)) /\ srv' = r.srv /\ srv \in Servers /\ Head(H.q) \in Cmds
      /\ r.tag # "ERROR" => Went(r, e) /\ e.q = Tail(H.q)
      /\ r.tag = "ERROR" => Stopped(r, e)
      /\ conn'.prev => conn.prev
  BY MoveParts
<1>2. /\ (\A t : Top(t) <=> t = "wire") /\ (\A t : Top(t)' <=> t = "wire") /\ All(todo') = {e} \cup Rest
      /\ H' = e /\ H.f \in SUBSET Flags /\ H \in Tasks /\ e.t = "wire" /\ "failed" \notin H.f
  BY <1>1, WireFacts, TaskFields DEF WireOn
<1>3. conn.op # "none" /\ InUse /\ srv.w = last.w /\ ~conn.prev /\ ~conn.point BY <1>2 DEF Before
<1>4. SvpOn BY <1>1, <1>3, LiveParts DEF TalkInv, WireInv, SvpOn
<1>5. /\ Went(r, e) /\ r.tag # "ERROR"
      /\ conn.svp => r.tag = "RELEASE" /\ Len(srv.svps) > 0 /\ r.srv = Released(srv, Len(srv.svps))
      /\ ~conn.svp => /\ r.tag = "SAVEPOINT" /\ r.srv.st = "INTRANS" /\ Len(r.srv.svps) = Len(srv.svps) + 1
  BY <1>1, <1>4, SvpReply, SvpStopped
<1>6. H.f = {} /\ conn.op = "savepoint" /\ ~conn.err /\ Len(srv.svps) \in Nat /\ srv.st = "INTRANS"
  BY <1>1, <1>4, SvpFacts
<1>7. Tagged(conn, H.f, r.tag, r.notice) /\ e.f = TagFlags(H.f, r.tag) BY <1>5, WentIs
<1>8. CASE conn.svp
  <2>1. srv'.st = srv.st /\ srv'.w = srv.w BY <1>1, <1>5, <1>8 DEF Released, Servers
  <2>2. conn'.op = conn.op /\ (conn'.point <=> conn.point) BY <1>5, <1>7, <1>8 DEF Tagged
  <2> QED BY <1>1, <1>2, <1>3, <2>1, <2>2 DEF Before, InUse
<1>9. CASE ~conn.svp
  <2>1. Head(H.q) = SvpCmd("savepoint", "exec") /\ Head(H.q).op = "savepoint" /\ After(Tail(H.q))
    BY <1>4, <1>9 DEF SvpOn, SvpWire, SvpQuery, SvpCmd, Cmd
  <2>2. PICK c \in Cmds : c = Head(H.q) /\ c.op = "savepoint" /\ r \in Replies(srv, c) BY <1>1, <2>1
  <2>3. srv'.svps = Append(srv.svps, [name |-> c.svp, w |-> srv.w])
    <3>1. ~Unwritten(srv, r) BY <1>5, <1>6, <1>9 DEF Unwritten
    <3> QED BY <1>1, <2>2, <3>1, SvpWrites
  <2>4. srv'.svps[Len(srv'.svps)].w = srv.w
    <3>1. srv.svps \in Seq(Svp) BY <1>1, ServerFields
    <3> QED BY <2>3, <3>1
  <2>5. conn'.point /\ conn'.svp /\ ~conn'.err BY <1>5, <1>6, <1>7, <1>9 DEF Tagged
  <2>6. "query_rollback" \notin e.f /\ "discard_svp" \notin e.f /\ "discard_release" \notin e.f
        /\ "failed" \notin e.f
    BY <1>5, <1>6, <1>7, <1>9 DEF TagFlags
  <2>7. ~OnQuery' /\ NoQuery' BY <1>2, <2>6 DEF OnQuery, NoQuery
  <2>8. \A k \in Rest : k.t # "return" BY <2>1 DEF After, ForSvp, ForStmt, Only
  <2>9. ~Erring' BY <1>2, <2>6, <2>8 DEF Erring, Replied
  <2> QED BY <1>1, <1>3, <1>5, <1>9, <2>4, <2>5, <2>7, <2>9 DEF Shielded, Shield
<1> QED BY <1>8, <1>9
LEMMA MoveShielded ==
  ASSUME IInv, SafeInv, NEW r, NEW e, Moves(r, e), Has("stmt_end"), ~Busy, Shielded,
         last.op \in {"write", "open"}
  PROVE  Shielded'
<1>1. /\ WireOn(e) /\ conn.alive /\ Top("wire") /\ H.q # << >> /\ last' = last
      /\ r \in Replies(srv, Head(H.q)) /\ srv' = r.srv /\ srv \in Servers /\ Head(H.q) \in Cmds
      /\ r.tag # "ERROR" => Went(r, e)
      /\ r.tag = "ERROR" => Stopped(r, e)
  BY MoveParts
<1>2. /\ (\A t : Top(t)' <=> t = "wire") /\ All(todo') = {e} \cup Rest /\ Rest \subseteq All(todo)
      /\ H' = e /\ H.f \in SUBSET Flags /\ e.t = "wire" /\ "failed" \notin H.f
  BY <1>1, WireFacts, TaskFields, StackFacts DEF WireOn
<1>3. conn.point /\ conn.svp /\ srv.st # "IDLE" /\ NoQuery /\ srv.svps[Len(srv.svps)].w = last.w
  BY <1>1 DEF Shielded, Shield
<1>4. conn.op = "none" BY <1>1, <1>3, LiveParts DEF TalkInv, WireInv, SvpWire
<1>5. Head(H.q).op \in {"write", "declare", "fetch"}
  <2>1. In("stmt_end") BY <1>1, WireSame
  <2> QED BY <1>1, <1>3, <1>4, <2>1, WireShaped DEF WireShape
<1>6. PICK c \in Cmds : c = Head(H.q) /\ r \in Replies(srv, c) /\ c.op \in {"write", "declare", "fetch"}
                        /\ (c.op = "declare" => c.h \in Handles)
  BY <1>1, <1>5, WireHead
<1>7. /\ r.srv.svps = srv.svps
      /\ r.tag = "ERROR" => r.srv.st = "INERROR"
      /\ r.tag # "ERROR" => r.srv.st = srv.st
  <2>1. CASE c.op = "write" BY <1>1, <1>3, <1>6, <2>1, WriteWrites DEF Unwritten
  <2>2. CASE c.op # "write" BY <1>1, <1>3, <1>6, <2>2, PlainUnwritten DEF Unwritten
  <2> QED BY <2>1, <2>2
<1>8. r.tag \in {"OTHER", "ERROR"}
  <2>1. c.op = "write" => r.tag \in {"OTHER", "ERROR"} BY <1>1, <1>6, PlainReply
  <2>2. c.op = "fetch" => r.tag \in {"OTHER", "ERROR"} BY <1>1, <1>6, FetchReply DEF Says
  <2>3. c.op = "declare" => r.tag \in {"OTHER", "ERROR"} BY <1>1, <1>6, DeclareReply DEF Says
  <2> QED BY <1>6, <2>1, <2>2, <2>3
<1>9. CASE r.tag = "ERROR"
  <2>1. e.f = H.f \cup {"failed"} /\ (conn'.point <=> conn.point) /\ (conn'.svp <=> conn.svp)
    BY <1>1, <1>9, StoppedIs
  <2>2. NoQuery' /\ ~OnQuery' BY <1>2, <1>3, <2>1 DEF NoQuery, OnQuery
  <2> QED BY <1>1, <1>3, <1>7, <1>9, <2>1, <2>2 DEF Shielded, Shield
<1>10. CASE r.tag = "OTHER"
  <2>1. Tagged(conn, H.f, r.tag, r.notice) /\ e.f = TagFlags(H.f, r.tag) BY <1>1, <1>10, WentIs
  <2>2. conn'.point /\ conn'.svp /\ (conn'.err <=> conn.err) BY <1>3, <1>10, <2>1 DEF Tagged
  <2>3. e.f = H.f BY <1>10, <2>1 DEF TagFlags
  <2>4. NoQuery' /\ ~OnQuery' BY <1>2, <1>3, <2>3 DEF NoQuery, OnQuery
  <2>5. Erring' => Erring BY <1>2, <2>3 DEF Erring, Replied
  <2> QED BY <1>1, <1>3, <1>7, <1>10, <2>2, <2>4, <2>5 DEF Shielded, Shield
<1> QED BY <1>8, <1>9, <1>10
\* The transaction that a chore, run after a statement was undone, leaves as it was.
LEMMA MoveUndone ==
  ASSUME IInv, IInv', SafeInv, NEW r, NEW e, Moves(r, e), Undone
  PROVE  Undone'
<1>1. /\ WireOn(e) /\ conn.alive /\ Top("wire") /\ H.q # << >> /\ last' = last
      /\ r \in Replies(srv, Head(H.q)) /\ srv' = r.srv /\ srv \in Servers /\ Head(H.q) \in Cmds
      /\ r.tag # "ERROR" => e.q = Tail(H.q)
      /\ r.tag = "ERROR" => e.q = << >>
  BY MoveParts
<1>2. /\ (\A t : Top(t) <=> t = "wire") /\ (\A t : Top(t)' <=> t = "wire") /\ H' = e
      /\ (Busy' <=> Busy) /\ (Has("commit_send")' <=> Has("commit_send"))
  BY <1>1, WireFacts, WireSame
<1>3. InUse /\ srv.w = last.w /\ ~Ending /\ Busy BY <1>2 DEF Undone
<1>4. Head(H.q).op \in {"begin", "savepoint", "release", "deallocate", "close", "move"}
  BY <1>1, <1>3, UnderOps
<1>5. PICK c \in Cmds : c = Head(H.q) /\ r \in Replies(srv, c)
                        /\ c.op \in {"begin", "savepoint", "release", "deallocate", "close", "move"}
  BY <1>1, <1>4
<1>6. srv'.w = srv.w
  <2>1. c.op = "savepoint" => r.srv.w = srv.w BY <1>1, <1>5, SvpWrites DEF Unwritten
  <2>2. c.op = "release" => r.srv.w = srv.w BY <1>1, <1>5, ReleaseWrites DEF Unwritten
  <2>3. c.op \notin {"savepoint", "release"} => r.srv.w = srv.w
    BY <1>1, <1>5, PlainUnwritten DEF Unwritten
  <2> QED BY <1>1, <2>1, <2>2, <2>3
<1>7. srv'.st = "INTRANS"
  <2>1. srv'.st # "IDLE" BY <1>1, <1>3, <1>5, GoesOn DEF InUse
  <2>2. conn'.alive BY <1>1 DEF WireOn
  <2>3. StatusInv' BY <2>2 DEF IInv, LiveInv
  <2>4. srv'.st # "INERROR" BY <1>2, <1>3, <2>3 DEF StatusInv
  <2>5. srv'.st \in StNames BY <1>1, ServerFields DEF WireOn
  <2> QED BY <2>1, <2>4, <2>5 DEF StNames
<1>8. e.q # << >> => Head(e.q).op \notin {"commit", "rollback"}
  <2>1. Tail(H.q) # << >> => Head(Tail(H.q)).op \notin {"commit", "rollback"}
    <3>1. (\E d \in Cmds : SoloQuick(d)) => Tail(H.q) = << >> BY DEF SoloQuick, One
    <3>2. QueryQuick /\ Tail(H.q) # << >> => Head(Tail(H.q)).op \in {"deallocate", "close", "move", "release"}
      BY QuickOps DEF QueryQuick, QueryWire1, QueryNext, QueryLast, One, Two, SvpCmd, Cmd
    <3> QED BY <1>1, <1>3, <3>1, <3>2, UnderWire
  <2> QED BY <1>1, <2>1
<1>9. ~Ending'
  <2>1. ~IsEnd(H.q)' BY <1>2, <1>8 DEF IsEnd, One, Cmd
  <2> QED BY <1>2, <1>3, <2>1 DEF Ending
<1> QED BY <1>1, <1>2, <1>3, <1>6, <1>7, <1>9 DEF Undone, InUse
LEMMA MoveAtom ==
  ASSUME IInv, IInv', SafeInv, NEW r, NEW e, Moves(r, e)
  PROVE  AtomInv'
<1> SUFFICES ASSUME Atom'
             PROVE  /\ Quiet' \/ Has("stmt_end")' \/ Has("stmt_clean")'
                    /\ Has("stmt_end")' => ~Busy' /\ (Before' \/ Shielded')
                    /\ last'.failed /\ ~Has("stmt_end")' => Undone'
  BY DEF AtomInv
<1>1. WireOn(e) /\ conn.alive /\ Top("wire") /\ last' = last BY MoveParts
<1>2. /\ Has("stmt_end")' <=> Has("stmt_end")
      /\ Has("stmt_clean")' <=> Has("stmt_clean")
      /\ Busy' <=> Busy
  BY <1>1, WireSame
<1>3. Atom /\ ~Quiet BY <1>1 DEF Atom, Top, Quiet
<1>4. /\ Has("stmt_end") \/ Has("stmt_clean")
      /\ Has("stmt_end") => ~Busy /\ (Before \/ Shielded)
      /\ last.failed /\ ~Has("stmt_end") => Undone
  BY <1>3, SafeParts DEF AtomInv
<1>5. last.op \in {"write", "open"} BY <1>3 DEF Atom
<1> QED BY <1>1, <1>2, <1>4, <1>5, MoveShield, MoveShielded, MoveUndone
\* WireOk and WireError.
LEMMA MoveSafe ==
  ASSUME IInv, IInv', SafeInv, NEW r, NEW e, Moves(r, e)
  PROVE  SafeInv'
BY MoveAcc, MovePrev, MoveWrite, MoveExt, MoveAtom, SafeFrom
LEMMA WireSafe ==
  ASSUME IInv, IInv', SafeInv, WireOk \/ WireError
  PROVE  SafeInv'
<1>1. \E r, e : Moves(r, e) BY WireOkIs, WireErrorIs DEF Moves
<1> QED BY <1>1, MoveSafe
--------------------
(* The end of a statement and the accounts *)
\* Nothing lies under the end of a statement.
LEMMA EndFacts ==
  ASSUME IInv, conn.alive, NEW t \in {"stmt_end", "stmt_clean"}, Top(t)
  PROVE  /\ todo # << >> /\ H.t = t /\ H \in Tasks /\ Rest = {} /\ Tail(todo) = << >>
         /\ (\A u : Has(u) <=> u = t) /\ (\A u : Top(u) <=> u = t)
         /\ ~Busy /\ Mirrors /\ Matches /\ ~OnQuery /\ conn.op = "none" /\ ~Undoing
<1>1. todo # << >> /\ H.t = t /\ H \in Tasks /\ Sound(todo) /\ todo \in Seq(Tasks) BY TopIs
<1>2. /\ \A u : Has(u) <=> H.t = u \/ In(u)
      /\ \A u : In(u) => u \in Lower(H.t)
      /\ \A u : Top(u) <=> H.t = u
  BY <1>1, UnderTop
<1>3. \A u : ~In(u) BY <1>1, <1>2 DEF Lower, Talk, Clears, Discs
<1>4. Rest = {}
  <2>1. \A k \in Rest : FALSE BY <1>3 DEF In
  <2> QED BY <2>1
<1>5. Tail(todo) = << >> /\ All(todo) = {H} BY <1>1, <1>4, StackFacts
<1>6. ~Busy BY <1>1, <1>5 DEF Busy, Chores, Discs, Clears
<1>7. Mirrors /\ Matches /\ ~OnQuery BY <1>1, Settled
<1>8. conn.op = "none" BY <1>1, <1>2, NoOp
<1>9. ~Undoing BY <1>1, <1>2 DEF Undoing
<1> QED BY <1>1, <1>2, <1>3, <1>4, <1>5, <1>6, <1>7, <1>8, <1>9
LEMMA CleanIs ==
  ASSUME conn \in Conns, NEW b \in BOOLEAN,
         conn' = StartStmt(IF b THEN [conn EXCEPT !.prev = conn.prog, !.prog = TRUE] ELSE conn)
  PROVE  /\ ~conn'.acc /\ ~conn'.point /\ conn'.op = conn.op
         /\ b => conn'.prev = conn.prog
         /\ ~b => conn'.prev = conn.prev
BY DEF Conns, StartStmt
LEMMA CleanStatementSafe ==
  ASSUME IInv, conn.alive, SafeInv, CleanStatement
  PROVE  SafeInv'
<1>1. /\ Top("stmt_clean") /\ Then(<< >>) /\ UNCHANGED <<srv, last>>
      /\ conn' = StartStmt(IF ~last.failed /\ conn.acc
                           THEN [conn EXCEPT !.prev = conn.prog, !.prog = TRUE] ELSE conn)
  BY DEF CleanStatement
<1>2. /\ Tail(todo) = << >> /\ (\A u : Has(u) <=> u = "stmt_clean") /\ (\A u : Top(u) <=> u = "stmt_clean")
      /\ Matches /\ conn.op = "none" /\ ~Undoing
  BY <1>1, EndFacts
<1>3. todo' = << >> BY <1>1, <1>2, Popping
<1>4. PICK b \in BOOLEAN : b <=> ~last.failed /\ conn.acc OBVIOUS
<1>5. /\ ~conn'.acc /\ ~conn'.point /\ conn'.op = "none"
      /\ b => conn'.prev = conn.prog
      /\ ~b => conn'.prev = conn.prev
  BY <1>1, <1>2, <1>4, TypesOf, CleanIs
<1>6. Blank' BY <1>1, SafeParts DEF Blank
<1>7. ~(Wrote(srv) /\ conn'.prev)
  <2>1. CASE b BY <1>4, <1>5, <2>1, SafeParts DEF AccInv, Wrote
  <2>2. CASE ~b BY <1>2, <1>4, <1>5, <2>2, SafeParts DEF PrevInv, Noted
  <2> QED BY <2>1, <2>2
<1>8. Atom' /\ last'.failed => Undone'
  <2> SUFFICES ASSUME Atom', last'.failed
               PROVE  Undone'
    OBVIOUS
  <2>1. Atom /\ last.failed BY <1>1 DEF Atom
  <2>2. Undone BY <1>2, <2>1, SafeParts DEF AtomInv
  <2>3. InUse /\ srv.w = last.w BY <1>2, <2>2 DEF Undone
  <2>4. \A t : ~Top(t)' /\ ~Has(t)' BY <1>3 DEF Top, Has, All
  <2>5. ~Ending' BY <2>4 DEF Ending
  <2> QED BY <1>1, <2>3, <2>4, <2>5 DEF Undone, InUse
<1>9. ~(Wrote(srv') /\ conn'.prev) BY <1>1, <1>7
<1> QED BY <1>3, <1>5, <1>6, <1>8, <1>9, QuietSafe
LEMMA EndStatementSafe ==
  ASSUME IInv, conn.alive, conn.mode = 2, SafeInv, EndStatement
  PROVE  SafeInv'
<1>1. PICK p \in BOOLEAN : p <=> conn.acc /\ conn.inTrans /\ conn.mode # 0 /\ ret = "error" OBVIOUS
<1>2. PICK a \in Tasks : /\ a = IF conn.point /\ conn.svp THEN Call("stmt_rollback") ELSE Call("abort")
                         /\ a.t = IF conn.point /\ conn.svp THEN "stmt_rollback" ELSE "abort"
  BY CallType DEF TaskNames
<1>3. PICK b \in Tasks : b = Call("stmt_clean") /\ b.t = "stmt_clean" BY CallType DEF TaskNames
<1>4. /\ Top("stmt_end") /\ UNCHANGED <<conn, srv, ret>>
      /\ last' = [last EXCEPT !.failed = (ret = "error")]
      /\ todo' = (If(p, <<a>>) \o <<b>>) \o Tail(todo)
  BY <1>1, <1>2, <1>3 DEF EndStatement, Then, If
<1>5. /\ Tail(todo) = << >> /\ (\A u : Has(u) <=> u = "stmt_end") /\ (\A u : Top(u) <=> u = "stmt_end")
      /\ Mirrors /\ Matches /\ ~OnQuery /\ ~Busy /\ conn.op = "none" /\ ~Undoing
  BY <1>4, EndFacts
<1>6. /\ All(todo') = IF p THEN {a, b} ELSE {b}
      /\ todo' # << >> /\ H' = IF p THEN a ELSE b
  <2>1. CASE p
    <3>0. todo' = (<<a>> \o <<b>>) \o << >> BY <1>4, <1>5, <2>1 DEF If
    <3>1. todo' = <<a, b>>
      <4>1. <<a>> \o <<b>> = <<a, b>> /\ <<a, b>> \in Seq(Tasks) BY Pair
      <4>2. PICK s \in Seq(Tasks) : s = <<a, b>> BY <4>1
      <4> QED BY <3>0, <4>1, <4>2, NoCat
    <3>2. <<a, b>>[1] = a /\ <<a, b>>[2] = b /\ Len(<<a, b>>) = 2 OBVIOUS
    <3> QED BY <2>1, <3>1, <3>2 DEF All, H
  <2>2. CASE ~p
    <3>1. todo' = <<b>>
      <4>1. todo' = (<< >> \o <<b>>) \o << >> BY <1>4, <1>5, <2>2 DEF If
      <4> QED BY <4>1
    <3> QED BY <2>2, <3>1 DEF All, H
  <2> QED BY <2>1, <2>2
<1>7. Has("stmt_clean")' /\ ~Has("stmt_end")' /\ ~Has("exec_ext")' BY <1>2, <1>3, <1>6 DEF Has
<1>8. \A t : Top(t)' <=> t = IF p THEN a.t ELSE "stmt_clean" BY <1>3, <1>6 DEF Top, H
<1>9. last'.op = last.op /\ last'.st = last.st /\ last'.w = last.w /\ (last'.failed <=> ret = "error")
  <2>1. last \in LastType BY TypesOf
  <2> QED BY <1>4, <2>1 DEF LastType
<1>10. \A t : Top(t)' => t \in {"stmt_rollback", "abort", "stmt_clean"} BY <1>2, <1>8
<1>11. Blank' /\ AccInv' BY <1>4, <1>7, <1>9, SafeParts DEF Blank, AccInv
<1>12. PrevInv'
  <2> SUFFICES ASSUME Wrote(srv), conn.prev
               PROVE  Undoing' \/ (Noted /\ ~last'.failed)
    BY <1>4, <1>7 DEF PrevInv, Noted, Wrote
  <2>1. Noted /\ conn.inTrans BY <1>5, SafeParts DEF PrevInv, Matches, Wrote
  <2>2. ~conn.point BY SafeParts DEF AccInv
  <2>3. CASE ret = "error" BY <1>1, <1>2, <1>8, <2>1, <2>2, <2>3 DEF Undoing, Noted
  <2>4. CASE ret # "error" BY <1>9, <2>1, <2>4
  <2> QED BY <2>3, <2>4
<1>13. CatalogInv' /\ WriteInv' /\ ExtWriteInv' BY <1>7, <1>10 DEF CatalogInv, WriteInv, ExtWriteInv
<1>14. AtomInv'
  <2> SUFFICES ASSUME Atom', last'.failed
               PROVE  Undone'
    BY <1>7 DEF AtomInv
  <2>1. Atom /\ ret = "error" BY <1>9 DEF Atom
  <2>2. Shielded
    <3>1. Before \/ Shielded BY <1>5, <2>1, SafeParts DEF AtomInv
    <3> QED BY <1>5, <3>1 DEF Before
  <2>3. Shield /\ conn.err /\ conn.inTrans
    <3>1. Erring BY <1>5, <2>1 DEF Erring, Replied
    <3> QED BY <1>5, <2>2, <3>1 DEF Shielded, Mirrors, Matches
  <2>4. conn.point /\ conn.svp /\ conn.acc BY <2>3, SafeParts DEF AccInv, Shield
  <2>5. p /\ a.t = "stmt_rollback" BY <1>1, <1>2, <2>1, <2>3, <2>4
  <2>6. ~OnQuery' BY <1>10 DEF OnQuery
  <2> QED BY <1>4, <1>8, <1>9, <2>3, <2>5, <2>6 DEF Undone, Shield
<1> QED BY <1>11, <1>12, <1>13, <1>14, SafeFrom
\* ROLLBACK TO the internal savepoint: the statement is undone, and no more.
LEMMA StatementRollbackSafe ==
  ASSUME IInv, conn.alive, SafeInv, StatementRollback
  PROVE  SafeInv'
<1>1. Top("stmt_rollback") /\ UNCHANGED last /\ conn.svp /\ conn.point
  BY LiveParts DEF StatementRollback, SvpInv
<1>2. todo # << >> /\ H.t = "stmt_rollback" /\ todo \in Seq(Tasks) /\ Sound(todo) BY <1>1, TopIs
<1>3. /\ \A t : Has(t) <=> H.t = t \/ In(t)
      /\ \A t : In(t) => t = "stmt_clean"
      /\ \A t : Top(t) <=> H.t = t
  BY <1>2, UnderTop DEF Lower, Talk, Clears, Discs
<1>4. Mirrors /\ Matches /\ ~OnQuery /\ conn.op = "none" BY <1>2, <1>3, Settled, NoOp
<1>5. Has("stmt_clean") /\ conn.acc /\ ~conn.prev /\ last.op \notin EndKinds
      /\ (conn.prog => srv.st = "IDLE" /\ conn.inTrans)
  BY <1>1, <1>2, <1>3, SafeParts DEF AccInv
<1>6. Atom /\ last.failed => Undone BY <1>2, <1>3, SafeParts DEF AtomInv
<1>7. SUFFICES ASSUME /\ \A t : Has(t)' => t \in {"update", "stmt_clean"}
                      /\ Has("stmt_clean")'
                      /\ \A t : Top(t)' => t \in {"update", "stmt_clean"}
                      /\ conn'.acc <=> conn.acc
                      /\ conn'.point <=> conn.point
                      /\ conn'.prog <=> conn.prog
                      /\ conn'.prev <=> conn.prev
                      /\ conn'.op = conn.op
                      /\ conn'.inTrans <=> conn.inTrans
                      /\ Blank' /\ ~(conn'.prog /\ srv'.st # "IDLE")
                      /\ Atom /\ last.failed => srv'.st = "INTRANS" /\ srv'.w = last.w
               PROVE  SafeInv'
  <2>1. CASE ~conn.err
    <3>1. Then(<< >>) /\ UNCHANGED <<srv, conn>> BY <2>1 DEF StatementRollback
    <3>2. todo' = Tail(todo) BY <3>1, Popping
    <3>3. All(todo') = Rest /\ (todo' # << >> => H' \in Rest) BY <1>2, <3>2, Pop
    <3>4. (\A t : Has(t)' <=> In(t)) /\ (\A t : Top(t)' => In(t)) BY <3>3 DEF Has, In, Top, H
    <3>5. Atom /\ last.failed => srv.st = "INTRANS" /\ srv.w = last.w BY <1>6, <2>1 DEF Undone, InUse
    <3>6. Blank' BY <3>1, SafeParts DEF Blank
    <3>7. ~(conn.prog /\ srv.st # "IDLE") BY <1>5
    <3> QED BY <1>2, <1>3, <1>5, <1>7, <3>1, <3>4, <3>5, <3>6, <3>7
  <2>2. CASE conn.err
    <3>1. PICK c \in Cmds : c = SvpCmd("rollback_to", "exec") /\ c.op = "rollback_to" /\ c.svp = "exec"
      BY SvpCmdType DEF CmdNames, Kinds, Svps
    <3>2. PICK r \in Replies(srv, c) :
            /\ srv' = r.srv
            /\ conn' = [conn EXCEPT !.ignored = conn.ignored /\ r.tag # "ERROR"]
            /\ Then(<<Call("update")>>)
      BY <1>1, <2>2, <3>1 DEF StatementRollback
    <3>3. srv.st = "INERROR" /\ srv \in Servers BY <1>4, <2>2, TypesOf DEF Mirrors
    <3>4. Len(srv.svps) > 0 /\ srv.svps[Len(srv.svps)].name = "exec"
      BY <1>1, <1>4, <3>3, LiveParts DEF SvpInv, Base
    <3>5. Indices(srv, c.svp) # {} /\ Latest(srv, c.svp) = Len(srv.svps) BY <3>1, <3>3, <3>4, LatestIsLast
    <3>6. srv'.st = "INTRANS" /\ srv'.w = srv.svps[Len(srv.svps)].w
      <4>1. r.tag # "ERROR" BY <3>1, <3>3, <3>5, RollbackToReply DEF Says
      <4>2. ~Unwritten(srv, r)
        <5>1. r.srv.st = "INTRANS"
          <6>1. r.srv = RolledBackTo(srv, Latest(srv, c.svp)) BY <3>1, <3>3, <3>5, RollbackToReply
          <6> QED BY <3>3, <6>1 DEF RolledBackTo, Servers
        <5> QED BY <3>3, <4>1, <5>1 DEF Unwritten
      <4> QED BY <3>1, <3>2, <3>3, <3>5, <4>2, BackWrites
    <3>7. PICK e \in Tasks : e = Call("update") /\ e.t = "update" BY CallType DEF TaskNames
    <3>8. All(todo') = {e} \cup Rest /\ H' = e /\ todo' # << >>
      <4>1. todo' = <<e>> \o Tail(todo) BY <3>2, <3>7 DEF Then
      <4> QED BY <1>2, <4>1, PushOne
    <3>9. (\A t : Has(t)' <=> t = "update" \/ In(t)) /\ (\A t : Top(t)' => t = "update")
      BY <3>7, <3>8 DEF Has, In, Top, H
    <3>10. /\ conn'.acc <=> conn.acc
           /\ conn'.point <=> conn.point
           /\ conn'.prog <=> conn.prog
           /\ conn'.prev <=> conn.prev
           /\ conn'.op = conn.op
           /\ conn'.inTrans <=> conn.inTrans
      <4>1. PICK b \in BOOLEAN : b <=> conn.ignored /\ r.tag # "ERROR" OBVIOUS
      <4>2. conn' = [conn EXCEPT !.ignored = b] BY <3>2, <4>1, TypesOf DEF Conns
      <4> QED BY <4>2, TypesOf DEF Conns
    <3>11. Atom /\ last.failed => srv'.w = last.w
      <4>1. Undone => Shield BY <3>3 DEF Undone, InUse
      <4> QED BY <1>6, <3>6, <4>1 DEF Shield
    <3>12. Blank' BY <3>6 DEF Blank
    <3>13. ~conn.prog BY <1>5, <3>3
    <3> QED BY <1>2, <1>3, <1>5, <1>7, <3>6, <3>9, <3>10, <3>11, <3>12, <3>13
  <2> QED BY <2>1, <2>2
<1>8. last' = last BY <1>1
<1>9. AccInv' BY <1>4, <1>5, <1>7, <1>8, <1>1, SafeParts DEF AccInv
<1>10. PrevInv' /\ CatalogInv' /\ WriteInv' /\ ExtWriteInv'
  BY <1>5, <1>7 DEF PrevInv, CatalogInv, WriteInv, ExtWriteInv
<1>11. AtomInv'
  <2> SUFFICES ASSUME Atom', last'.failed
               PROVE  Undone'
    BY <1>7 DEF AtomInv
  <2>1. Atom /\ last.failed BY <1>8 DEF Atom
  <2>2. ~Ending' BY <1>7 DEF Ending
  <2> QED BY <1>7, <1>8, <2>1, <2>2 DEF Undone, InUse
<1> QED BY <1>7, <1>9, <1>10, <1>11, SafeFrom
(* A prepared statement and the accounts *)
LEMMA ExtSafe ==
  ASSUME IInv, conn.alive, SafeInv, Top("exec_ext"), NEW r \in Replies(srv, Head(H.q)),
         srv' = r.srv, last' = last, NEW N, All(todo') = N \cup Rest, todo' # << >>, H' \in N \cup Rest,
         \A k \in N : k.t \in {"update", "return"},
         conn'.acc <=> conn.acc, conn'.prog <=> conn.prog, conn'.prev <=> conn.prev,
         conn'.point <=> conn.point, conn'.svp <=> conn.svp, conn'.op = conn.op,
         srv.st # "IDLE" /\ (conn'.err \/ Erring') => srv'.st = "INERROR"
  PROVE  SafeInv'
<1>1. /\ todo # << >> /\ H.t = "exec_ext" /\ Sound(todo)
      /\ \A k \in Rest : k.t \in {"exec_end", "stmt_end"}
      /\ In("exec_end") /\ In("stmt_end") /\ ~Busy
      /\ \A u : Top(u) <=> u = "exec_ext"
      /\ Matches /\ conn.op = "none"
      /\ One(H.q, Cmd(last.op)) /\ ~OnQuery
  BY ExtFacts
<1>2. Head(H.q) \in Cmds /\ srv \in Servers /\ r.srv.svps = srv.svps
      /\ (srv.st # "IDLE" => r.srv.st # "IDLE")
  <2>1. srv \in Servers BY TypesOf
  <2>2. /\ Head(H.q) \in Cmds /\ r.srv.svps = srv.svps
        /\ r.tag = "ERROR" => r.srv.st = IF srv.st = "IDLE" THEN "IDLE" ELSE "INERROR"
        /\ r.tag # "ERROR" =>
             \/ r.srv.st = "INTRANS" /\ Head(H.q).op \in {"begin", "start"} /\ srv.st # "INERROR"
             \/ r.srv.st = srv.st /\ Head(H.q).op \notin {"begin", "start"} /\ srv.st # "INERROR"
    BY ExtReply
  <2> QED BY <2>1, <2>2
<1>3. Head(H.q).op = last.op
  <2>1. last.op \in CmdNames BY ExtFacts DEF CmdNames
  <2> QED BY <1>1, <2>1, CmdType DEF One
<1>4. Clean(srv) BY SafeParts DEF Blank, Clean
<1>5. Clean(srv') /\ (Wrote(srv') => Wrote(srv) \/ (last.op = "write" /\ srv.st = "INTRANS"))
  BY <1>2, <1>3, <1>4, WritesKept
<1>6. (\A t : Has(t)' => t \in {"update", "return", "exec_end", "stmt_end"}) /\ Has("stmt_end")'
  BY <1>1 DEF Has, In
<1>7. \A t : Top(t)' => t \in {"update", "return", "exec_end", "stmt_end"} BY <1>1 DEF Top, H
<1>8. Has("exec_ext") /\ ~Has("request_start") /\ ~Has("stmt_clean")
  <2>1. \A t : Has(t) <=> H.t = t \/ In(t) BY <1>1, UnderTop
  <2> QED BY <1>1, <2>1 DEF In
<1>9. ~(conn.acc /\ conn.prog) BY <1>1, SafeParts DEF AccInv, Matches
<1>10. Blank' BY <1>5 DEF Blank, Clean
<1>11. AccInv' BY <1>1, <1>6, <1>9, SafeParts DEF AccInv
<1>12. PrevInv'
  <2> SUFFICES ASSUME Wrote(srv'), conn'.prev PROVE Noted' /\ Has("stmt_end")' BY DEF PrevInv, Wrote
  <2>1. Noted
    <3>1. CASE Wrote(srv) BY <1>1, <3>1, SafeParts DEF PrevInv, Undoing
    <3>2. CASE last.op = "write" /\ srv.st = "INTRANS" BY <1>8, <3>2, SafeParts DEF ExtWriteInv
    <3> QED BY <1>5, <3>1, <3>2
  <2> QED BY <1>6, <2>1 DEF Noted
<1>13. CatalogInv' /\ WriteInv' /\ ExtWriteInv' BY <1>6, <1>7 DEF CatalogInv, WriteInv, ExtWriteInv
<1>14. AtomInv'
  <2> SUFFICES ASSUME Atom' PROVE ~Busy' /\ Shielded' BY <1>6 DEF AtomInv
  <2>1. Atom BY DEF Atom
  <2>2. Shielded
    <3>1. Has("stmt_end") BY <1>1, UnderTop
    <3>2. ~Before BY <1>1 DEF Before
    <3> QED BY <2>1, <3>1, <3>2, SafeParts DEF AtomInv
  <2>3. Shield' BY <1>2, <1>7, <2>2 DEF Shield, Shielded, OnQuery
  <2>4. ~Busy' BY <1>1 DEF Busy, Chores, Discs, Clears
  <2> QED BY <1>7, <2>2, <2>3, <2>4 DEF Shielded, Shield
<1> QED BY <1>10, <1>11, <1>12, <1>13, <1>14, SafeFrom
LEMMA ExecExtOkSafe ==
  ASSUME IInv, conn.alive, SafeInv, ExecExtOk
  PROVE  SafeInv'
<1>1. Top("exec_ext") /\ UNCHANGED last /\ ret' = "ok" /\ Then(<< >>) BY DEF ExecExtOk
<1>2. PICK r \in Replies(srv, Head(H.q)) :
         /\ r.tag # "ERROR"
         /\ srv' = r.srv
         /\ conn' = IF r.srv.st = "IDLE"
                    THEN [conn EXCEPT !.inTrans = FALSE, !.err = FALSE, !.manual = FALSE]
                    ELSE [conn EXCEPT !.inTrans = TRUE,
                                      !.manual = @ \/ Head(H.q).op \in {"begin", "start"}]
  BY DEF ExecExtOk, H
<1>3. todo # << >> /\ Sound(todo) /\ \A k \in Rest : k.t \in {"exec_end", "stmt_end"} BY <1>1, ExtFacts
<1>4. In("exec_end") BY <1>1, ExtFacts
<1>5. todo' = Tail(todo) BY <1>1, Popping
<1>6. All(todo') = Rest /\ (todo' # << >> => H' \in Rest) BY <1>3, <1>5, Pop
<1>7. todo' # << >> BY <1>4, <1>6, AllNone DEF In
<1>8. /\ conn'.acc <=> conn.acc
      /\ conn'.prog <=> conn.prog
      /\ conn'.prev <=> conn.prev
      /\ conn'.point <=> conn.point
      /\ conn'.svp <=> conn.svp
      /\ conn'.op = conn.op
      /\ conn'.err => conn.err
  <2>1. conn \in Conns BY TypesOf
  <2>2. CASE r.srv.st = "IDLE" BY <1>2, <2>1, <2>2 DEF Conns
  <2>3. CASE r.srv.st # "IDLE"
    <3>1. PICK b \in BOOLEAN : b <=> conn.manual \/ Head(H.q).op \in {"begin", "start"} OBVIOUS
    <3>2. conn' = [conn EXCEPT !.inTrans = TRUE, !.manual = b] BY <1>2, <2>1, <2>3, <3>1 DEF Conns
    <3> QED BY <2>1, <3>2 DEF Conns
  <2> QED BY <2>2, <2>3
<1>9. srv.st # "INERROR" /\ Mirrors BY <1>1, <1>2, ExtReply, ExtFacts
<1>10. ~conn'.err BY <1>8, <1>9 DEF Mirrors
<1>11. ~Erring' BY <1>1, <1>3, <1>6, <1>7 DEF Erring, Replied, Top, H
<1>12. PICK N : N = {} OBVIOUS
<1>13. All(todo') = N \cup Rest /\ H' \in N \cup Rest /\ \A k \in N : k.t \in {"update", "return"}
  BY <1>6, <1>7, <1>12
<1> QED BY <1>1, <1>2, <1>7, <1>8, <1>10, <1>11, <1>13, ExtSafe
LEMMA ExecExtErrorSafe ==
  ASSUME IInv, conn.alive, SafeInv, ExecExtError
  PROVE  SafeInv'
<1>1. Top("exec_ext") /\ UNCHANGED last /\ Then(<<Call("update"), Return("error")>>)
      /\ conn' = [conn EXCEPT !.err = conn.err \/ conn.inTrans, !.ignored = FALSE]
  BY DEF ExecExtError
<1>2. PICK r \in Replies(srv, Head(H.q)) : r.tag = "ERROR" /\ srv' = r.srv BY DEF ExecExtError, H
<1>3. todo # << >> BY <1>1, ExtFacts
<1>4. PICK e \in Tasks : e = Call("update") /\ e.t = "update" BY CallType DEF TaskNames
<1>5. PICK f \in Tasks : f = Return("error") /\ f.t = "return" BY ReturnType
<1>6. todo' = <<e, f>> \o Tail(todo) BY <1>1, <1>4, <1>5 DEF Then
<1>7. All(todo') = {e, f} \cup Rest /\ H' = e /\ todo' # << >> BY <1>3, <1>6, PushTwo
<1>8. /\ conn'.acc <=> conn.acc
      /\ conn'.prog <=> conn.prog
      /\ conn'.prev <=> conn.prev
      /\ conn'.point <=> conn.point
      /\ conn'.svp <=> conn.svp
      /\ conn'.op = conn.op
  <2>1. conn \in Conns BY TypesOf
  <2>2. PICK b \in BOOLEAN : b <=> conn.err \/ conn.inTrans OBVIOUS
  <2>3. conn' = [conn EXCEPT !.err = b, !.ignored = FALSE] BY <1>1, <2>1, <2>2 DEF Conns
  <2> QED BY <2>1, <2>3 DEF Conns
<1>9. srv.st # "IDLE" => srv'.st = "INERROR" BY <1>1, <1>2, ExtReply
<1>10. PICK N : N = {e, f} OBVIOUS
<1>11. All(todo') = N \cup Rest /\ H' \in N \cup Rest /\ \A k \in N : k.t \in {"update", "return"}
  BY <1>4, <1>5, <1>7, <1>10
<1> QED BY <1>1, <1>2, <1>7, <1>8, <1>9, <1>11, ExtSafe
(* The internal savepoint and the accounts *)
\* What SetStatementSvp notes of a statement.
LEMMA SetSvpAcc ==
  ASSUME conn \in Conns, NEW cmd, NEW ro \in BOOLEAN, NEW inner \in BOOLEAN,
         NEW d, d = SetSvp(cmd, ro, inner)
  PROVE  /\ d.mode = conn.mode
         /\ d.prev <=> conn.prev
         /\ conn.err => d = conn
         /\ ~conn.err => (d.prog <=> conn.prog /\ ro)
         /\ ~conn.err /\ StmtType(cmd) # "other" => (d.acc <=> conn.acc) /\ d.op = conn.op
         /\ ~conn.err /\ StmtType(cmd) = "other" => d.acc
         /\ d.op = conn.op \/ (d.op = "prepend" /\ ~conn.prev /\ ~inner /\ d.acc)
         /\ ~conn.err /\ StmtType(cmd) = "other" /\ ~conn.point /\ ~conn.prev /\ conn.mode = 2
            /\ ~inner /\ conn.inTrans => d.op = "prepend"
<1> DEFINE b == conn.prog /\ ro
           c == [conn EXCEPT !.prog = b]
           e == [c EXCEPT !.op = "prepend", !.acc = TRUE]
           g == [c EXCEPT !.acc = TRUE]
<1>1. b \in BOOLEAN /\ (b <=> conn.prog /\ ro) OBVIOUS
<1> HIDE DEF b
<1>2. /\ c \in Conns /\ c.mode = conn.mode /\ c.op = conn.op
      /\ c.prev <=> conn.prev
      /\ c.acc <=> conn.acc
      /\ c.prog <=> b
      /\ c.point <=> conn.point
      /\ c.inTrans <=> conn.inTrans
  <2>1. c \in Conns BY <1>1, Zenon DEF Conns
  <2> QED BY <1>1, <2>1 DEF Conns
<1> HIDE DEF c
<1>3. /\ e.mode = c.mode /\ e.op = "prepend" /\ e.acc
      /\ e.prev <=> c.prev
      /\ e.prog <=> c.prog
  BY <1>2 DEF Conns
<1>4. /\ g.mode = c.mode /\ g.op = c.op /\ g.acc
      /\ g.prev <=> c.prev
      /\ g.prog <=> c.prog
  BY <1>2 DEF Conns
<1>5. d = IF conn.err THEN conn
          ELSE IF StmtType(cmd) # "other" THEN c
          ELSE IF NeedSvp(c, inner) THEN e ELSE g
  BY Zenon DEF SetSvp, c, e, g, b
<1>6. NeedSvp(c, inner) <=> ~conn.point /\ ~conn.prev /\ conn.mode = 2 /\ ~inner /\ conn.inTrans
  BY <1>2 DEF NeedSvp
<1> HIDE DEF e, g
<1>7. CASE conn.err BY <1>5, <1>7
<1>8. CASE ~conn.err /\ StmtType(cmd) # "other" BY <1>1, <1>2, <1>5, <1>8
<1>9. CASE ~conn.err /\ StmtType(cmd) = "other" /\ NeedSvp(c, inner) BY <1>1, <1>2, <1>3, <1>5, <1>6, <1>9
<1>10. CASE ~conn.err /\ StmtType(cmd) = "other" /\ ~NeedSvp(c, inner)
  BY <1>1, <1>2, <1>4, <1>5, <1>6, <1>10
<1> QED BY <1>7, <1>8, <1>9, <1>10
\* The accounts of the record that goes with the savepoint that is being set.
LEMMA OpAcc ==
  ASSUME NEW c \in Conns, NEW op, NEW d, d = [c EXCEPT !.op = op]
  PROVE  /\ d.mode = c.mode /\ d.op = op
         /\ d.prev <=> c.prev
         /\ d.acc <=> c.acc
         /\ d.prog <=> c.prog
BY DEF Conns
LEMMA RequestStartIs ==
  ASSUME IInv, conn.alive, conn.mode = 2, RequestStart
  PROVE  /\ Top("request_start") /\ UNCHANGED <<srv, last, ret>> /\ Kept(conn')
         /\ conn.point \/ conn.err => conn' = conn
         /\ conn'.prev <=> conn.prev
         /\ ~conn.point /\ ~conn.err /\ last.op # "special" => conn'.acc /\ ~conn'.prog
         /\ ~conn.point /\ ~conn.err /\ last.op = "special" => (conn'.acc <=> conn.acc) /\ ~conn'.prog
         /\ \/ /\ conn'.op = "savepoint" /\ ~conn.prev /\ ~conn.point /\ conn'.acc
               /\ \E e, f \in Tasks : /\ todo' = <<e, f>> \o Tail(todo)
                                      /\ e.t = "send" /\ e.f = {} /\ f.t = "svp_sent"
            \/ /\ conn'.op = "none" /\ ~conn.point /\ ~conn.inTrans
               /\ \E e \in Tasks : todo' = <<e>> \o Tail(todo) /\ e.t = "begin"
            \/ conn'.op = "none" /\ todo' = Tail(todo)
         /\ ~conn.point /\ ~conn.err /\ last.op # "special" /\ ~conn.prev /\ conn.inTrans
            => conn'.op = "savepoint"
<1> DEFINE cmd == Head(H.q)
           s == SetSvp(cmd, FALSE, FALSE)
           c == IF conn.point THEN conn ELSE s
           need == c.op = "prepend"
           begin == ~conn.inTrans /\ (~conn.auto \/ conn.manual) /\ cmd.op # "special" /\ ~conn.point
           q == InternalSavepoint(c)
           a == Send(q, {})
           b == Call("svp_sent")
           g == Call("begin")
<1>1. /\ todo # << >> /\ H.t = "request_start" /\ conn \in Conns /\ Top("request_start")
      /\ UNCHANGED <<srv, last, ret>> /\ todo \in Seq(Tasks)
  BY TypesOf DEF RequestStart, Top, H
<1>2. /\ conn' = (IF need THEN [c EXCEPT !.op = "savepoint"] ELSE c)
      /\ Then(If(need, <<a, b>>) \o If(begin, <<g>>))
  BY Zenon DEF RequestStart, H, cmd, s, c, need, begin, q, a, b, g
<1>3. PICK x : x = cmd OBVIOUS
<1>4. x.op = last.op /\ (StmtType(x) = "other" <=> last.op # "special")
  <2>1. last.op \in Kinds \ EndKinds /\ One(H.q, Cmd(last.op))
    <3>1. H \in All(todo) BY <1>1, TypesOf, StackFacts
    <3> QED BY <1>1, <3>1, LiveParts DEF ExtInv
  <2>2. x = Cmd(last.op) BY <1>3, <2>1 DEF One
  <2>3. x.op = last.op BY <2>1, <2>2, CmdType DEF CmdNames
  <2> QED BY <2>1, <2>3 DEF StmtType
<1>5. conn.op = "none" BY <1>1, StartFacts
<1>6. PICK d : d = s OBVIOUS
<1>7. /\ Kept(d) /\ d.mode = conn.mode
      /\ d.prev <=> conn.prev
      /\ conn.err => d = conn
      /\ ~conn.err => ~d.prog
      /\ ~conn.err /\ last.op = "special" => (d.acc <=> conn.acc) /\ d.op = conn.op
      /\ ~conn.err /\ last.op # "special" => d.acc
      /\ d.op = conn.op \/ (d.op = "prepend" /\ ~conn.prev /\ d.acc /\ conn.inTrans)
      /\ ~conn.err /\ last.op # "special" /\ ~conn.point /\ ~conn.prev /\ conn.inTrans
         => d.op = "prepend"
  <2>1. d = SetSvp(x, FALSE, FALSE) BY <1>3, <1>6
  <2>2. Kept(d) /\ (d.op = conn.op \/ (d.op = "prepend" /\ conn.inTrans)) BY <1>1, <2>1, SetSvpIs
  <2> QED BY <1>1, <1>4, <2>1, <2>2, SetSvpAcc
<1>8. PICK k : k = c OBVIOUS
<1>9. /\ Kept(k) /\ k \in Conns
      /\ conn.point \/ conn.err => k = conn
      /\ k.prev <=> conn.prev
      /\ ~conn.point /\ ~conn.err /\ last.op # "special" => k.acc /\ ~k.prog
      /\ ~conn.point /\ ~conn.err /\ last.op = "special" => (k.acc <=> conn.acc) /\ ~k.prog
      /\ k.op = "none" \/ (k.op = "prepend" /\ ~conn.prev /\ ~conn.point /\ k.acc /\ conn.inTrans)
      /\ ~conn.point /\ ~conn.err /\ last.op # "special" /\ ~conn.prev /\ conn.inTrans
         => k.op = "prepend"
  <2>1. k = IF conn.point THEN conn ELSE d BY <1>6, <1>8
  <2>2. CASE conn.point BY <1>1, <1>5, <2>1, <2>2, KeptSelf
  <2>3. CASE ~conn.point BY <1>5, <1>7, <2>1, <2>3 DEF Kept
  <2> QED BY <2>2, <2>3
<1>10. /\ conn' = (IF k.op = "prepend" THEN [k EXCEPT !.op = "savepoint"] ELSE k)
       /\ Then(If(k.op = "prepend", <<Send(InternalSavepoint(k), {}), Call("svp_sent")>>) \o If(begin, <<g>>))
  BY <1>2, <1>8
<1> HIDE DEF c, s, need, q, a, cmd
<1>11. begin => ~conn.point /\ ~conn.inTrans OBVIOUS
<1>12. PICK w \in BOOLEAN : w = begin OBVIOUS
<1> HIDE DEF begin
<1>13. CASE k.op = "prepend"
  <2>1. ~w BY <1>9, <1>11, <1>12, <1>13
  <2>2. conn' = [k EXCEPT !.op = "savepoint"] BY <1>10, <1>13
  <2>3. Kept(conn') /\ conn'.op = "savepoint" BY <1>9, <2>2, KeptOp
  <2>4. /\ conn'.prev <=> k.prev
        /\ conn'.acc <=> k.acc
        /\ conn'.prog <=> k.prog
    BY <1>9, <2>2, OpAcc
  <2>5. PICK e \in Tasks : e = Send(InternalSavepoint(k), {}) /\ e.t = "send" /\ e.f = {}
    <3>1. InternalSavepoint(k) \in Seq(Cmds) BY InternalSavepointIs
    <3>2. {} \in SUBSET Flags OBVIOUS
    <3> QED BY <3>1, <3>2, SendType
  <2>6. PICK f \in Tasks : f = Call("svp_sent") /\ f.t = "svp_sent" BY CallType DEF TaskNames
  <2>7. todo' = <<e, f>> \o Tail(todo)
    <3>1. Then(<<e, f>> \o << >>) BY <1>10, <1>12, <1>13, <2>1, <2>5, <2>6 DEF If
    <3>2. <<e, f>> \o << >> = <<e, f>> OBVIOUS
    <3> QED BY <3>1, <3>2 DEF Then
  <2> QED BY <1>1, <1>5, <1>9, <1>13, <2>3, <2>4, <2>5, <2>6, <2>7
<1>14. CASE k.op # "prepend"
  <2>1. conn' = k /\ conn'.op = "none" BY <1>9, <1>10, <1>14
  <2>2. CASE w
    <3>1. PICK e \in Tasks : e = Call("begin") /\ e.t = "begin" BY CallType DEF TaskNames
    <3>2. todo' = <<e>> \o Tail(todo)
      <4>1. Then(<< >> \o <<e>>) BY <1>10, <1>12, <1>14, <2>2, <3>1 DEF If
      <4>2. << >> \o <<e>> = <<e>> OBVIOUS
      <4> QED BY <4>1, <4>2 DEF Then
    <3> QED BY <1>1, <1>9, <1>11, <1>12, <1>14, <2>1, <2>2, <3>1, <3>2
  <2>3. CASE ~w
    <3>1. todo' = Tail(todo)
      <4>1. Then(<< >> \o << >>) BY <1>10, <1>12, <1>14, <2>3 DEF If
      <4>2. << >> \o << >> = << >> OBVIOUS
      <4> QED BY <4>1, <4>2, Popping DEF Then
    <3> QED BY <1>1, <1>9, <1>14, <2>1, <3>1
  <2> QED BY <2>2, <2>3
<1> QED BY <1>13, <1>14
LEMMA RequestStartSafe ==
  ASSUME IInv, IInv', conn.alive, conn.mode = 2, SafeInv, RequestStart
  PROVE  SafeInv'
<1>1. /\ Top("request_start") /\ UNCHANGED <<srv, last, ret>> /\ Kept(conn')
      /\ conn.point \/ conn.err => conn' = conn
      /\ conn'.prev <=> conn.prev
      /\ ~conn.point /\ ~conn.err /\ last.op # "special" => conn'.acc /\ ~conn'.prog
      /\ ~conn.point /\ ~conn.err /\ last.op = "special" => (conn'.acc <=> conn.acc) /\ ~conn'.prog
      /\ ~conn.point /\ ~conn.err /\ last.op # "special" /\ ~conn.prev /\ conn.inTrans
         => conn'.op = "savepoint"
  BY RequestStartIs
<1>2. \/ /\ conn'.op = "savepoint" /\ ~conn.prev /\ ~conn.point /\ conn'.acc
         /\ \E e, f \in Tasks : /\ todo' = <<e, f>> \o Tail(todo)
                                /\ e.t = "send" /\ e.f = {} /\ f.t = "svp_sent"
      \/ /\ conn'.op = "none" /\ ~conn.point /\ ~conn.inTrans
         /\ \E e \in Tasks : todo' = <<e>> \o Tail(todo) /\ e.t = "begin"
      \/ conn'.op = "none" /\ todo' = Tail(todo)
  BY RequestStartIs
<1>3. todo # << >> /\ H.t = "request_start" /\ Sound(todo) /\ H \in All(todo) BY <1>1, TopIs
<1>4. /\ \A k \in Rest : k.t \in {"exec_ext", "exec_end", "stmt_end"}
      /\ In("exec_ext") /\ In("stmt_end") /\ ~Busy /\ conn.op = "none"
  BY <1>3, StartFacts
<1>5. Mirrors /\ Matches /\ ~OnQuery BY <1>3, Settled
<1>6. last.op \in Kinds \ EndKinds BY <1>3, LiveParts DEF ExtInv
<1>7. ~(conn.acc /\ conn.prog) /\ \A t : Top(t) <=> t = "request_start"
  <2>1. \A t : Top(t) <=> t = "request_start" BY <1>3, UnderTop
  <2>2. ~(conn.acc /\ conn.prog) BY <1>5, SafeParts DEF AccInv, Matches
  <2> QED BY <2>1, <2>2
<1>8. Has("stmt_end") /\ ~Has("stmt_clean")
  <2>1. \A t : Has(t) <=> H.t = t \/ In(t) BY <1>3, UnderTop
  <2> QED BY <1>3, <1>4, <2>1 DEF In
<1>9. PICK N \in SUBSET Tasks : /\ All(todo') = N \cup Rest
                                /\ \A k \in N : k.t = "send" => k.f = {}
                                /\ \A k \in N : k.t \in {"send", "svp_sent", "begin"}
                                /\ conn'.op = "savepoint" => todo' # << >> /\ H' \in N /\ H'.t = "send"
                                /\ conn'.op = "none" /\ (conn.point \/ conn.inTrans) => todo' = Tail(todo)
                                /\ todo' # << >> => H' \in N \cup Rest
  <2>1. CASE conn'.op = "savepoint" /\ \E e, f \in Tasks : /\ todo' = <<e, f>> \o Tail(todo)
                                /\ e.t = "send" /\ e.f = {} /\ f.t = "svp_sent"
    <3>1. PICK e \in Tasks, f \in Tasks : /\ todo' = <<e, f>> \o Tail(todo)
                                          /\ e.t = "send" /\ e.f = {} /\ f.t = "svp_sent"
      BY <2>1
    <3>2. All(todo') = {e, f} \cup Rest /\ H' = e /\ todo' # << >> BY <1>3, <3>1, PushTwo
    <3>3. PICK N \in SUBSET Tasks : N = {e, f} OBVIOUS
    <3> QED BY <2>1, <3>1, <3>2, <3>3
  <2>2. CASE conn'.op = "none" /\ ~conn.point /\ ~conn.inTrans
             /\ \E e \in Tasks : todo' = <<e>> \o Tail(todo) /\ e.t = "begin"
    <3>1. PICK e \in Tasks : todo' = <<e>> \o Tail(todo) /\ e.t = "begin" BY <2>2
    <3>2. All(todo') = {e} \cup Rest /\ H' = e /\ todo' # << >> BY <1>3, <3>1, PushOne
    <3>3. PICK N \in SUBSET Tasks : N = {e} OBVIOUS
    <3> QED BY <2>2, <3>1, <3>2, <3>3
  <2>3. CASE conn'.op = "none" /\ todo' = Tail(todo)
    <3>1. All(todo') = Rest /\ (todo' # << >> => H' \in Rest) BY <1>3, <2>3, Pop
    <3>2. PICK N \in SUBSET Tasks : N = {} OBVIOUS
    <3> QED BY <2>3, <3>1, <3>2
  <2> QED BY <1>2, <2>1, <2>2, <2>3
<1>10. /\ \A t : Has(t)' => t \in {"send", "svp_sent", "begin", "exec_ext", "exec_end", "stmt_end"}
       /\ Has("stmt_end")' /\ Has("exec_ext")'
  BY <1>4, <1>9 DEF Has, In
<1>11. /\ \A t : Top(t)' => t \in {"send", "svp_sent", "begin", "exec_ext", "exec_end", "stmt_end"}
       /\ Top("send")' => H'.f = {}
  <2>1. \A t : Top(t)' => t \in {"send", "svp_sent", "begin", "exec_ext", "exec_end", "stmt_end"}
    BY <1>4, <1>9 DEF Top, H
  <2>2. ASSUME Top("send")' PROVE H'.f = {}
    <3>1. todo' # << >> /\ H'.t = "send" BY <2>2 DEF Top, H
    <3>2. H' \in N BY <1>4, <1>9, <3>1
    <3> QED BY <1>9, <3>1, <3>2
  <2> QED BY <2>1, <2>2
<1>12. todo' = Tail(todo) => Top("exec_ext")'
  <2> SUFFICES ASSUME todo' = Tail(todo) PROVE Top("exec_ext")' OBVIOUS
  <2>1. Sound(todo') /\ All(todo') = Rest BY <1>3, Pop
  <2>2. todo' # << >> BY <1>4, <2>1, AllNone DEF In
  <2>3. /\ All(todo') = {Head(todo')} \cup All(Tail(todo'))
        /\ \A k \in All(Tail(todo')) : k.t \in Lower(Head(todo').t)
    BY <2>1, <2>2, SoundTail
  <2>4. Head(todo').t \in {"exec_ext", "exec_end", "stmt_end"} BY <1>4, <2>1, <2>3
  <2>5. Lower("exec_end") = {"stmt_end"} /\ Lower("stmt_end") = {} BY DEF Lower, Talk, Clears, Discs
  <2>6. PICK k \in Rest : k.t = "exec_ext" BY <1>4 DEF In
  <2>7. Head(todo').t = "exec_ext" BY <2>1, <2>3, <2>4, <2>5, <2>6
  <2> QED BY <2>2, <2>7 DEF Top
<1>13. ~(conn'.acc /\ conn'.prog) /\ (Noted => Noted') BY <1>1, <1>7 DEF Noted
<1>14. conn'.point <=> conn.point BY <1>1 DEF Kept
<1>15. Blank' BY <1>1, SafeParts DEF Blank
<1>16. AccInv'
  <2>1. conn'.op = "none" \/ (conn'.op = "savepoint" /\ ~conn.prev /\ conn'.acc) BY <1>2
  <2>2. conn.point => conn.acc /\ ~conn.prev /\ conn' = conn BY <1>1, SafeParts DEF AccInv
  <2> QED BY <1>1, <1>6, <1>10, <1>13, <1>14, <2>1, <2>2 DEF AccInv
<1>17. PrevInv'
  <2> SUFFICES ASSUME Wrote(srv)', conn'.prev PROVE Noted' /\ Has("stmt_end")' BY DEF PrevInv
  <2>1. Wrote(srv) /\ conn.prev BY <1>1 DEF Wrote
  <2>2. Noted BY <1>7, <2>1, SafeParts DEF PrevInv, Undoing
  <2> QED BY <1>10, <1>13, <2>2
<1>18. CatalogInv' /\ WriteInv' BY <1>11 DEF CatalogInv, WriteInv
<1>19. ExtWriteInv'
  <2> SUFFICES ASSUME last'.op = "write"
               PROVE  (Top("exec_ext")' /\ srv'.st = "INERROR") \/ (Noted' /\ (srv'.st = "IDLE" => ~conn'.inTrans))
    BY DEF ExtWriteInv
  <2>1. srv'.st = "IDLE" => ~conn'.inTrans BY <1>1, <1>5 DEF Matches, Kept
  <2>2. CASE conn.point
    <3>1. conn.acc BY <2>2, SafeParts DEF AccInv
    <3> QED BY <1>7, <1>13, <2>1, <3>1 DEF Noted
  <2>3. CASE ~conn.point /\ conn.err
    <3>1. conn.inTrans /\ srv.st = "INERROR" /\ conn' = conn BY <1>1, <1>5, <2>3 DEF Mirrors, Matches
    <3>2. todo' = Tail(todo) BY <1>4, <1>9, <3>1
    <3> QED BY <1>1, <1>12, <3>1, <3>2
  <2>4. CASE ~conn.point /\ ~conn.err BY <1>1, <2>1, <2>4 DEF Noted
  <2> QED BY <2>2, <2>3, <2>4
<1>20. AtomInv'
  <2> SUFFICES ASSUME Atom' PROVE ~Busy' /\ (Before' \/ Shielded') BY <1>10 DEF AtomInv
  <2>1. Atom /\ last.op = "write" BY <1>1, <1>6 DEF Atom, Kinds
  <2>2. Before \/ Shielded BY <1>8, <2>1, SafeParts DEF AtomInv
  <2>3. ~Busy' BY <1>4, <1>9 DEF Busy, Chores, Discs, Clears
  <2>4. CASE Before
    <3>1. InUse /\ srv.w = last.w /\ ~conn.prev /\ ~conn.point BY <2>4 DEF Before
    <3>2. conn.inTrans /\ ~conn.err BY <1>5, <3>1 DEF Mirrors, Matches, InUse
    <3>3. conn'.op = "savepoint" BY <1>1, <2>1, <3>1, <3>2
    <3>4. Top("send")' BY <1>9, <3>3 DEF Top, H
    <3>5. InUse' /\ srv'.w = last'.w BY <1>1, <3>1 DEF InUse
    <3> QED BY <1>1, <1>14, <2>3, <3>1, <3>3, <3>4, <3>5 DEF Before
  <2>5. CASE Shielded
    <3>1. conn.point BY <2>5 DEF Shielded, Shield
    <3>2. conn' = conn /\ todo' = Tail(todo) BY <1>1, <1>4, <1>9, <3>1
    <3>3. Top("exec_ext")' /\ todo' # << >> /\ H'.t = "exec_ext" BY <1>12, <3>2 DEF Top, H
    <3>4. \A t : Top(t)' => t = "exec_ext" BY <3>3 DEF Top, H
    <3>5. ~Erring' /\ ~OnQuery'
      <4>1. \A k \in All(todo') : k.t # "return" BY <1>10 DEF Has
      <4> QED BY <3>4, <4>1 DEF Erring, Replied, OnQuery
    <3>6. conn.err => srv.st = "INERROR" BY <1>5 DEF Mirrors
    <3>7. Shield' BY <1>1, <2>5, <3>2, <3>5 DEF Shielded, Shield
    <3>8. ~Top("wire")' /\ (conn'.err \/ Erring' => srv'.st = "INERROR") BY <1>1, <3>2, <3>4, <3>5, <3>6
    <3> QED BY <2>3, <3>7, <3>8 DEF Shielded
  <2> QED BY <2>2, <2>4, <2>5
<1> QED BY <1>15, <1>16, <1>17, <1>18, <1>19, <1>20, SafeFrom
--------------------
(* What a query is sent for, and the accounts *)
\* The query takes the place of the task that sends it.
LEMMA SentSafe ==
  ASSUME IInv, conn.alive, SafeInv, NEW e, Sends(e), conn'.prev <=> conn.prev,
         conn.acc => conn'.acc, conn'.prog => conn.prog,
         conn'.acc => conn.acc \/ (In("stmt_end") /\ last.op \notin EndKinds /\ ~conn'.prog),
         conn'.op # "none" => conn.op # "none" \/ (conn'.acc /\ ~conn.prev),
         Undoing /\ srv.st # "IDLE" => e.q = H.q,
         e.q[Len(e.q)].op = "write" =>
           Noted' \/ srv.st = "INERROR" \/ (srv.st = "IDLE" /\ Head(e.q).op = "write"),
         IsEnd(e.q) => IsEnd(H.q),
         last.op \in {"write", "open"} /\ In("stmt_end") /\ ~Busy =>
            ~Shielded /\ (Before => conn'.op # "none")
  PROVE  SafeInv'
<1>1. /\ todo # << >> /\ H.t = "send" /\ Sound(todo) /\ All(todo) = {H} \cup Rest
      /\ todo' # << >> /\ H' = e /\ All(todo') = {e} \cup Rest
      /\ \A t : Top(t)' <=> t = "wire"
  BY SendsFacts
<1>2. /\ e.t = "wire" /\ e.q # << >> /\ UNCHANGED <<srv, last, ret>> /\ Kept(conn')
      /\ e.f \cap {"failed", "discard_release"} = {}
  BY DEF Sends
<1>3. /\ conn'.inTrans <=> conn.inTrans
      /\ conn'.point <=> conn.point
      /\ conn'.err <=> conn.err
  BY <1>2 DEF Kept
<1>4. \A t : Top(t) <=> t = "send" BY <1>1, UnderTop
<1>5. \A t \in AccTasks : (Has(t)' <=> Has(t)) /\ (Has(t) <=> In(t)) /\ ~Top(t)
  <2>1. PICK N : N = {e} OBVIOUS
  <2>2. All(todo') = N \cup Rest /\ (\A k \in N : k.t \notin AccTasks) /\ H.t \notin AccTasks
    BY <1>1, <1>2, <2>1 DEF AccTasks
  <2> QED BY <1>1, <2>2, HasKept
<1>6. Noted => Noted' BY DEF Noted
<1>7. Blank' BY <1>2, SafeParts DEF Blank
<1>8. AccInv'
  <2>1. /\ Has("stmt_end")' <=> In("stmt_end")
        /\ Has("stmt_end")' <=> Has("stmt_end")
        /\ Has("stmt_clean")' <=> Has("stmt_clean")
    BY <1>5 DEF AccTasks
  <2>2. ASSUME conn'.acc
        PROVE  /\ Has("stmt_end")' \/ Has("stmt_clean")'
               /\ last'.op \notin EndKinds
               /\ conn'.prog => srv'.st = "IDLE" /\ conn'.inTrans
    <3>1. CASE conn.acc BY <1>2, <1>3, <2>1, <3>1, SafeParts DEF AccInv
    <3>2. CASE ~conn.acc BY <1>2, <2>1, <2>2, <3>2
    <3> QED BY <3>1, <3>2
  <2>3. ASSUME conn'.point \/ conn'.op # "none"
        PROVE  conn'.acc /\ ~conn'.prev
    BY <1>3, <2>3, SafeParts DEF AccInv
  <2> QED BY <2>2, <2>3 DEF AccInv
<1>9. PrevInv'
  <2> SUFFICES ASSUME Wrote(srv)', conn'.prev
               PROVE  Undoing' \/ (Noted' /\ (Has("stmt_end")' \/ (Has("stmt_clean")' /\ ~last'.failed)))
    BY DEF PrevInv
  <2>1. Wrote(srv) /\ conn.prev /\ srv.st # "IDLE" BY <1>2 DEF Wrote
  <2>2. CASE Undoing BY <1>1, <1>4, <2>1, <2>2 DEF Undoing
  <2>3. CASE Noted /\ (Has("stmt_end") \/ (Has("stmt_clean") /\ ~last.failed))
    BY <1>2, <1>5, <1>6, <2>3 DEF AccTasks
  <2> QED BY <2>1, <2>2, <2>3, SafeParts DEF PrevInv
<1>10. CatalogInv' /\ WriteInv'
  <2>1. CatalogInv' BY <1>1 DEF CatalogInv
  <2>2. WriteInv' BY <1>1, <1>2 DEF WriteInv
  <2> QED BY <2>1, <2>2
<1>11. ExtWriteInv'
  <2> SUFFICES ASSUME Has("exec_ext")', ~Has("request_start")', last'.op = "write"
               PROVE  Noted' /\ (srv'.st = "IDLE" => ~conn'.inTrans)
    BY DEF ExtWriteInv
  <2>1. Has("exec_ext") /\ ~Has("request_start") /\ last.op = "write" /\ ~Top("exec_ext")
    BY <1>2, <1>5 DEF AccTasks
  <2>2. Noted /\ (srv.st = "IDLE" => ~conn.inTrans) BY <2>1, SafeParts DEF ExtWriteInv
  <2> QED BY <1>2, <1>3, <1>6, <2>2
<1>12. AtomInv'
  <2> SUFFICES ASSUME Atom'
               PROVE  /\ Has("stmt_end")' \/ Has("stmt_clean")'
                      /\ Has("stmt_end")' => ~Busy' /\ (Before' \/ Shielded')
                      /\ last'.failed /\ ~Has("stmt_end")' => Undone'
    BY DEF AtomInv
  <2>1. Atom BY <1>2 DEF Atom
  <2>2. /\ Has("stmt_end") \/ Has("stmt_clean")
        /\ Has("stmt_end") => ~Busy /\ (Before \/ Shielded)
        /\ last.failed /\ ~Has("stmt_end") => Undone
    BY <1>1, <2>1, SafeParts DEF AtomInv, Quiet
  <2>3. /\ Has("stmt_end")' <=> In("stmt_end")
        /\ Has("stmt_end")' <=> Has("stmt_end")
        /\ Has("stmt_clean")' <=> Has("stmt_clean")
    BY <1>5 DEF AccTasks
  <2>4. Busy' <=> Busy BY <1>1, <1>2 DEF Busy, Chores, Discs, Clears
  <2>5. ASSUME Has("stmt_end")' PROVE ~Busy' /\ Before'
    <3>1. In("stmt_end") /\ ~Busy /\ (Before \/ Shielded) /\ last.op \in {"write", "open"}
      BY <2>1, <2>2, <2>3, <2>5 DEF Atom
    <3>2. Before /\ conn'.op # "none" BY <3>1
    <3>3. InUse' /\ srv'.w = last'.w /\ ~conn'.prev /\ ~conn'.point /\ Top("wire")'
      BY <1>1, <1>2, <1>3, <3>2 DEF Before, InUse
    <3> QED BY <2>4, <3>1, <3>2, <3>3 DEF Before
  <2>6. ASSUME last'.failed, ~Has("stmt_end")' PROVE Undone'
    <3>1. InUse /\ srv.w = last.w /\ ~Ending /\ Busy BY <1>2, <1>4, <2>2, <2>3, <2>6 DEF Undone
    <3>2. ~Ending'
      <4>1. Has("commit_send")' => Has("commit_send") BY <1>1, <1>2 DEF Has

      <4>3. ~IsEnd(e.q) BY <1>4, <3>1 DEF Ending
      <4> QED BY <1>1, <3>1, <4>1, <4>3 DEF Ending
    <3> QED BY <1>2, <2>4, <3>1, <3>2 DEF Undone, InUse
  <2> QED BY <2>2, <2>3, <2>5, <2>6
<1> QED BY <1>7, <1>8, <1>9, <1>10, <1>11, <1>12, SafeFrom
\* A query that leaves the accounts alone.
LEMMA SentAlone ==
  ASSUME IInv, conn.alive, SafeInv, NEW e, Sends(e), conn' = conn, e.q = H.q,
         e.q[Len(e.q)].op # "write",
         In("stmt_end") /\ ~Busy => ~Shielded /\ (Before => conn.op # "none")
  PROVE  SafeInv'
BY SentSafe

\* The driver's own SAVEPOINT, sent by itself.
LEMMA SvpOutSafe ==
  ASSUME IInv, conn.alive, SafeInv, SendQuery, conn.op # "none"
  PROVE  SafeInv'
<1>1. Top("send") /\ SvpSend /\ todo # << >> BY LiveParts DEF SendQuery, TalkInv, SendInv, Top
<1>2. /\ H.f = {} /\ H.q = InternalSavepoint(conn) /\ ForSvp /\ InUse
      /\ conn.op = "savepoint" /\ ~conn.point
  BY <1>1 DEF SvpSend
<1> DEFINE q == H.q
           sp == SvpCmd("savepoint", "exec")
           rl == SvpCmd("release", "exec")
<1>3. /\ q \in Seq(Cmds) /\ q # << >>
      /\ conn.svp => Head(q) = rl /\ One(Tail(q), sp)
      /\ ~conn.svp => One(q, sp)
  BY <1>2, InternalSavepointIs
<1>4. sp.op = "savepoint" /\ sp \in Cmds BY SvpCmdType DEF CmdNames, Kinds, Svps
<1> HIDE DEF sp, rl
<1>5. ~AddsBegin(H) /\ ~AddsQuery(H) /\ ~Protects(H) BY <1>2 DEF AddsBegin, AddsQuery, Protects
<1>6. Protected(H) = conn BY <1>5 DEF Protected
<1>7. ~Prepends(H) /\ conn.inTrans
  <2>1. conn.inTrans BY <1>2, LiveParts DEF StatusInv
  <2> QED BY <1>2, <1>6, <2>1 DEF Prepends
<1>8. PICK e \in Tasks : Sends(e) /\ e.q = q /\ e.f = {} /\ conn' = conn
  BY <1>2, <1>3, <1>5, <1>6, <1>7, SendPlain
<1>9. q[Len(q)].op # "write"
  <2>1. CASE ~conn.svp
    <3>1. q # << >> /\ Tail(q) = << >> /\ Head(q) = sp BY <1>3, <2>1 DEF One
    <3>2. q[Len(q)] = sp BY <1>3, <3>1, EndOf
    <3> QED BY <1>4, <3>2
  <2>2. CASE conn.svp
    <3>1. Tail(q) # << >> /\ Head(Tail(q)) = sp /\ Tail(Tail(q)) = << >> BY <1>3, <2>2 DEF One
    <3>2. q[Len(q)] = Tail(q)[Len(Tail(q))] BY <1>3, <3>1, EndOf
    <3>3. Tail(q) \in Seq(Cmds) BY <1>3
    <3>4. Tail(q)[Len(Tail(q))] = sp BY <3>1, <3>3, EndOf
    <3> QED BY <1>4, <3>2, <3>4
  <2> QED BY <2>1, <2>2
<1>10. ~Shielded BY <1>2 DEF Shielded, Shield
<1> QED BY <1>2, <1>8, <1>9, <1>10, SentAlone

\* A BEGIN, COMMIT or ROLLBACK by itself.
LEMMA BoundaryOutSafe ==
  ASSUME IInv, conn.alive, SafeInv, SendQuery, conn.op = "none", BeginSend \/ EndSend
  PROVE  SafeInv'
<1>1. Top("send") /\ todo # << >> /\ Matches /\ H \in Tasks /\ H.q \in Seq(Cmds)
      /\ \A t : Top(t) <=> t = "send"
  <2>1. Top("send") /\ todo # << >> /\ H.t = "send" /\ H \in Tasks /\ Sound(todo) BY TopIs DEF SendQuery
  <2>2. Matches BY <2>1, Settled DEF Mirrors
  <2>3. H.q \in Seq(Cmds) BY <2>1, TaskFields
  <2>4. \A t : Top(t) <=> t = "send" BY <2>1, UnderTop
  <2> QED BY <2>1, <2>2, <2>3, <2>4
<1> DEFINE q == H.q
<1>2. PICK op \in {"begin", "commit", "rollback"} : One(q, Cmd(op)) BY DEF BeginSend, EndSend, IsEnd
<1>3. Cmd(op).op = op /\ q # << >> BY <1>2, CmdType DEF CmdNames, Kinds, One
<1>4. H.f = {} /\ ~AddsBegin(H) /\ ~AddsQuery(H) /\ ~Protects(H)
  BY DEF BeginSend, EndSend, AddsBegin, AddsQuery, Protects
<1>5. Protected(H) = conn BY <1>4 DEF Protected
<1>6. ~Prepends(H) BY <1>5 DEF Prepends
<1>7. PICK e \in Tasks : Sends(e) /\ e.q = q /\ e.f = {} /\ conn' = conn
  BY <1>3, <1>4, <1>5, <1>6, SendPlain
<1>8. q[Len(q)].op # "write"
  <2>1. Tail(q) = << >> /\ Head(q) = Cmd(op) BY <1>2 DEF One
  <2>2. q[Len(q)] = Cmd(op) BY <1>1, <1>3, <2>1, EndOf
  <2> QED BY <1>3, <2>2
<1>9. ~Before BY <1>1, <1>4 DEF Before
<1>10. In("stmt_end") => ~Shielded
  <2>1. CASE BeginSend BY <1>1, <2>1 DEF BeginSend, Matches, Shielded, Shield
  <2>2. CASE EndSend BY <2>2 DEF EndSend, ForEnd, Only, In
  <2> QED BY <2>1, <2>2
<1> QED BY <1>7, <1>8, <1>9, <1>10, SentAlone
\* What encloses a sequence.
LEMMA Enclosed ==
  ASSUME NEW S, NEW x \in S, NEW y \in S, NEW q \in Seq(S)
  PROVE  /\ (<<x>> \o q) \o <<y>> \in Seq(S) /\ (<<x>> \o q) \o <<y>> # << >>
         /\ Head((<<x>> \o q) \o <<y>>) = x
         /\ ((<<x>> \o q) \o <<y>>)[Len((<<x>> \o q) \o <<y>>)] = y
<1>1. PICK r : r = <<x>> \o q OBVIOUS
<1>2. r \in Seq(S) /\ r # << >> /\ Head(r) = x BY <1>1, Cons
<1>3. Len(r) \in Nat /\ Len(r) > 0 /\ r[1] = x BY <1>2
<1>4. PICK d : d = <<y>> OBVIOUS
<1>5. d \in Seq(S) /\ Len(d) = 1 /\ d[1] = y BY <1>4
<1>6. PICK w : w = r \o d OBVIOUS
<1>7. w \in Seq(S) /\ Len(w) = Len(r) + 1 /\ w[1] = r[1] /\ w[Len(r) + 1] = d[1]
  <2>1. w \in Seq(S) /\ Len(w) = Len(r) + Len(d) BY <1>2, <1>5, <1>6, ConcatProperties
  <2>2. \A i \in 1..(Len(r) + Len(d)) : w[i] = IF i <= Len(r) THEN r[i] ELSE d[i - Len(r)]
    BY <1>2, <1>5, <1>6, ConcatProperties
  <2>3. w[1] = r[1] BY <1>3, <1>5, <2>2
  <2>4. w[Len(r) + 1] = d[1] BY <1>3, <1>5, <2>2
  <2> QED BY <1>5, <2>1, <2>3, <2>4
<1>8. w # << >> /\ Head(w) = x /\ w[Len(w)] = y BY <1>3, <1>5, <1>7
<1> QED BY <1>1, <1>4, <1>6, <1>7, <1>8
\* A CLOSE, MOVE or DEALLOCATE: the last command of the query is that, or a RELEASE.
LEMMA QuickOutSafe ==
  ASSUME IInv, conn.alive, SafeInv, SendQuery, conn.op = "none", QuickSend
  PROVE  SafeInv'
<1>1. /\ Top("send") /\ todo # << >> /\ H \in Tasks /\ H.f \in SUBSET Flags /\ H.q \in Seq(Cmds)
      /\ \A t : Top(t) <=> t = "send"
  <2>1. Top("send") /\ todo # << >> /\ H.t = "send" /\ H \in Tasks /\ Sound(todo) BY TopIs DEF SendQuery
  <2>2. H.q \in Seq(Cmds) /\ H.f \in SUBSET Flags BY <2>1, TaskFields
  <2>3. \A t : Top(t) <=> t = "send" BY <2>1, UnderTop
  <2> QED BY <2>1, <2>2, <2>3
<1> DEFINE q == H.q
<1>2. PICK c \in Cmds : One(q, c) /\ Quick(c) BY DEF QuickSend
<1>3. H.f \subseteq {"rollback_on_error", "ignore_abort", "read_only"} /\ ~conn.err BY DEF QuickSend
<1>4. c.op \in {"deallocate", "close", "move"} /\ q # << >> /\ Head(q) = c /\ Tail(q) = << >>
  BY <1>2, QuickIs DEF One
<1>5. ~AddsBegin(H) /\ ~Protects(H) BY <1>3 DEF AddsBegin, Protects
<1>6. Protected(H) = conn BY <1>5 DEF Protected
<1>7. ~Prepends(H) BY <1>6 DEF Prepends
<1>8. In("stmt_end") => Busy BY <1>1, <1>2, QuickUnder
<1>9. ~Undoing BY <1>1, <1>4, CmdType DEF Undoing, One, CmdNames, Kinds
<1>10. CASE ~AddsQuery(H)
  <2>1. PICK e \in Tasks : Sends(e) /\ e.q = q /\ conn' = conn BY <1>4, <1>5, <1>6, <1>7, <1>10, SendPlain
  <2>2. q[Len(q)].op # "write" BY <1>1, <1>4, EndOf
  <2> QED BY <1>8, <2>1, <2>2, SentAlone
<1>11. CASE AddsQuery(H)
  <2> DEFINE sv == SvpCmd("savepoint", "query")
             rl == SvpCmd("release", "query")
             w == (<<sv>> \o q) \o <<rl>>
             f == WireFlags(H)
             e == WireTask(w, f)
  <2>1. /\ sv \in Cmds /\ sv.op = "savepoint" /\ rl \in Cmds /\ rl.op = "release" /\ q \in Seq(Cmds)
    BY <1>1, SvpCmdType DEF CmdNames, Kinds, Svps
  <2>2. /\ todo' = <<e>> \o Tail(todo) /\ conn' = conn /\ UNCHANGED <<srv, curs, discardp, ret, last>>
    <3>1. /\ UNCHANGED <<srv, curs, discardp, ret, last>> /\ conn' = Protected(H)
          /\ todo' = <<WireTask((((( << >> \o <<sv>>) \o << >>) \o H.q) \o <<rl>>), WireFlags(H))>>
                     \o Tail(todo)
      BY <1>5, <1>7, <1>11, SendQueryIs
    <3> HIDE DEF sv, rl
    <3>2. <<sv>> \in Seq(Cmds) /\ <<rl>> \in Seq(Cmds) BY <2>1
    <3>3. ((((<< >> \o <<sv>>) \o << >>) \o q) \o <<rl>>) = w BY <2>1, <3>2, Around
    <3> QED BY <1>6, <3>1, <3>3
  <2> HIDE DEF sv, rl
  <2>6. w \in Seq(Cmds) /\ w # << >> /\ Head(w) = sv /\ w[Len(w)] = rl BY <2>1, Enclosed
  <2>7. f \in SUBSET Flags /\ f \cap {"failed", "discard_release"} = {}
    BY <1>1, <1>11 DEF WireFlags, Flags
  <2> HIDE DEF w, f
  <2>8. e \in Tasks /\ e.t = "wire" /\ e.q = w /\ e.f = f BY <2>6, <2>7, WireTaskIs
  <2> HIDE DEF e
  <2>9. Kept(conn') BY <2>2, TypesOf, KeptSelf
  <2>10. Sends(e) BY <1>1, <2>2, <2>6, <2>7, <2>8, <2>9 DEF Sends
  <2>11. e.q[Len(e.q)].op = "release" /\ ~IsEnd(e.q)
    BY <2>1, <2>6, <2>8, CmdType DEF IsEnd, One, CmdNames, Kinds
  <2> QED BY <1>8, <1>9, <2>2, <2>10, <2>11, SentSafe
<1> QED BY <1>10, <1>11
\* What stands at the end of two sequences.
LEMMA LastOfTwo ==
  ASSUME NEW S, NEW r \in Seq(S), NEW q \in Seq(S), q # << >>
  PROVE  (r \o q)[Len(r \o q)] = q[Len(q)]
<1>1. Len(q) \in Nat /\ Len(q) > 0 /\ Len(r) \in Nat OBVIOUS
<1>2. PICK w : w = r \o q OBVIOUS
<1>3. Len(w) = Len(r) + Len(q) BY <1>2, ConcatProperties
<1>4. \A i \in 1..(Len(r) + Len(q)) : w[i] = IF i <= Len(r) THEN r[i] ELSE q[i - Len(r)]
  BY <1>2, ConcatProperties
<1>5. w[Len(w)] = q[Len(q)] BY <1>1, <1>3, <1>4
<1> QED BY <1>2, <1>5

\* The query of a statement, with what is put before it.
LEMMA StmtOut ==
  ASSUME IInv, conn.alive, SendQuery, conn.op = "none", StmtSend
  PROVE  \E e \in Tasks :
            /\ Sends(e) /\ e.q[Len(e.q)] = H.q[Len(H.q)]
            /\ \/ e.q = H.q /\ ~AddsBegin(H) /\ ~Prepends(H)
               \/ /\ AddsBegin(H) \/ Prepends(H)
                  /\ Head(e.q).op \in {"begin", "savepoint", "release"}
            /\ conn' = IF Prepends(H) THEN [Protected(H) EXCEPT !.op = "savepoint"] ELSE Protected(H)
<1>1. /\ Top("send") /\ todo # << >> /\ H \in Tasks /\ H.f \in SUBSET Flags /\ H.q \in Seq(Cmds)
      /\ conn \in Conns
  BY TypesOf, StackFacts, TaskFields DEF SendQuery, Top, H
<1>q. PICK q : q = H.q OBVIOUS
<1> DEFINE c == Protected(H)
<1>2. /\ "stmt" \in H.f /\ H.f \cap {"rollback_on_error", "ignore_abort", "end_with_commit"} = {}
      /\ Body(q)
  BY <1>q DEF StmtSend
<1>3. q # << >> /\ q \in Seq(Cmds) BY <1>1, <1>q, <1>2, BodyIs
<1>4. ~AddsQuery(H) BY <1>2 DEF AddsQuery
<1>5. /\ Kept(c)
      /\ c.op = "none" \/ (c.op = "prepend" /\ conn.inTrans)
  BY <1>1, <1>q, ProtectedIs
<1>6. WireFlags(H) = {} /\ {} \in SUBSET Flags BY <1>2, <1>4 DEF WireFlags
<1>7. /\ UNCHANGED <<srv, curs, discardp, ret, last>>
      /\ conn' = IF Prepends(H) THEN [c EXCEPT !.op = "savepoint"] ELSE c
  BY SendQueryIs DEF c
<1>8. Prepends(H) => c.op = "prepend" /\ conn.inTrans /\ ~AddsBegin(H) BY <1>5 DEF Prepends, c
<1> HIDE DEF c
<1>9. CASE AddsBegin(H)
  <2> DEFINE b == Cmd("begin")
             w == <<b>> \o q
             e == WireTask(w, {})
  <2>1. b \in Cmds /\ b.op = "begin" BY CmdType DEF CmdNames, Kinds
  <2>2. w \in Seq(Cmds) /\ w # << >> /\ Head(w) = b
    <3> HIDE DEF b
    <3> QED BY <1>3, <2>1, Cons
  <2>3. w[Len(w)] = q[Len(q)]
    <3> HIDE DEF b
    <3>1. <<b>> \in Seq(Cmds) BY <2>1
    <3> QED BY <1>3, <3>1, LastOfTwo
  <2>4. ~Prepends(H) BY <1>8, <1>9
  <2>5. todo' = <<e>> \o Tail(todo) /\ conn' = c
    <3>1. todo' = <<WireTask(((((<<b>> \o << >>) \o << >>) \o H.q) \o << >>), WireFlags(H))>> \o Tail(todo)
      BY <1>4, <1>9, <2>4, SendQueryIs
    <3> HIDE DEF b
    <3>2. <<b>> \in Seq(Cmds) BY <2>1
    <3>3. ((((<<b>> \o << >>) \o << >>) \o q) \o << >>) = w BY <1>3, <3>2, Around
    <3> QED BY <1>q, <1>6, <1>7, <2>4, <3>1, <3>3
  <2> HIDE DEF w, b
  <2>6. e \in Tasks /\ e.t = "wire" /\ e.q = w /\ e.f = {} BY <1>6, <2>2, WireTaskIs
  <2> HIDE DEF e
  <2>7. c.op = "none" BY <1>5, <1>9 DEF AddsBegin
  <2>8. Sends(e) BY <1>1, <1>5, <1>7, <2>2, <2>5, <2>6, <2>7 DEF Sends
  <2> QED BY <1>q, <1>9, <2>1, <2>2, <2>3, <2>4, <2>5, <2>6, <2>8 DEF c
<1>10. CASE ~AddsBegin(H) /\ Prepends(H)
  <2> DEFINE i == InternalSavepoint(c)
             w == i \o q
             e == WireTask(w, {})
  <2>1. PICK a \in Seq(Cmds) : a = i BY InternalSavepointIs
  <2>2. a # << >> /\ Head(a).op \in {"savepoint", "release"}
    <3>1. /\ SvpCmd("savepoint", "exec").op = "savepoint" /\ SvpCmd("release", "exec").op = "release"
      BY SvpCmdType DEF CmdNames, Kinds, Svps
    <3>2. /\ i # << >>
          /\ IF c.svp THEN Head(i) = SvpCmd("release", "exec") ELSE One(i, SvpCmd("savepoint", "exec"))
      BY InternalSavepointIs
    <3> QED BY <2>1, <3>1, <3>2 DEF One
  <2>3. PICK v \in Seq(Cmds) : v = a \o q BY <1>3, ConcatProperties
  <2>4. v # << >> /\ Head(v) = Head(a)
    <3>1. Len(a) \in Nat /\ Len(a) > 0 /\ Len(q) \in Nat BY <1>3, <2>2
    <3>2. Len(v) = Len(a) + Len(q) BY <1>3, <2>3, ConcatProperties
    <3>3. \A k \in 1..(Len(a) + Len(q)) : v[k] = IF k <= Len(a) THEN a[k] ELSE q[k - Len(a)]
      BY <1>3, <2>3, ConcatProperties
    <3>4. v[1] = a[1] /\ Len(v) > 0 BY <3>1, <3>2, <3>3
    <3> QED BY <2>2, <3>4
  <2>5. v[Len(v)] = q[Len(q)] BY <1>3, <2>3, LastOfTwo
  <2>6. w = v BY <2>1, <2>3
  <2>7. todo' = <<e>> \o Tail(todo)
    <3>1. todo' = <<WireTask((((( << >> \o << >>) \o i) \o H.q) \o << >>), WireFlags(H))>> \o Tail(todo)
      BY <1>4, <1>10, SendQueryIs DEF c, i
    <3>2. (((( << >> \o << >>) \o a) \o q) \o << >>) = a \o q BY <1>3, Around
    <3> QED BY <1>q, <1>6, <2>1, <3>1, <3>2
  <2> HIDE DEF w, i
  <2>8. e \in Tasks /\ e.t = "wire" /\ e.q = v /\ e.f = {} BY <1>6, <2>6, WireTaskIs
  <2> HIDE DEF e
  <2>9. Kept(conn') BY <1>5, <1>7, <1>10, KeptOp
  <2>10. Sends(e) BY <1>1, <1>7, <1>8, <1>10, <2>4, <2>7, <2>8, <2>9 DEF Sends
  <2>11. \/ e.q = H.q /\ ~AddsBegin(H) /\ ~Prepends(H)
         \/ (AddsBegin(H) \/ Prepends(H)) /\ Head(e.q).op \in {"begin", "savepoint", "release"}
    BY <1>10, <2>2, <2>4, <2>8
  <2> QED BY <1>q, <1>7, <2>5, <2>8, <2>10, <2>11 DEF c
<1>11. CASE ~AddsBegin(H) /\ ~Prepends(H)
  <2>1. PICK e \in Tasks : Sends(e) /\ e.q = H.q /\ conn' = c
    BY <1>q, <1>3, <1>4, <1>5, <1>11, SendPlain DEF c
  <2> QED BY <1>11, <2>1 DEF c
<1> QED BY <1>9, <1>10, <1>11
\* What the internal savepoint's record notes of the statement that is sent.
LEMMA ProtectedAcc ==
  ASSUME conn \in Conns, NEW k
  PROVE  /\ Protected(k).prev <=> conn.prev
         /\ ~Protects(k) \/ conn.err => Protected(k) = conn
         /\ Protects(k) /\ ~conn.err => (Protected(k).prog <=> conn.prog /\ "read_only" \in k.f)
         /\ Protects(k) /\ ~conn.err /\ StmtType(Head(k.q)) # "other"
            => (Protected(k).acc <=> conn.acc)
         /\ Protects(k) /\ ~conn.err /\ StmtType(Head(k.q)) = "other" => Protected(k).acc
         /\ Protected(k).op = conn.op
            \/ (Protected(k).op = "prepend" /\ Protected(k).acc /\ ~conn.prev)
         /\ (/\ Protects(k) /\ ~conn.err /\ StmtType(Head(k.q)) = "other" /\ ~conn.point
             /\ ~conn.prev /\ conn.mode = 2 /\ "inner" \notin k.f /\ conn.inTrans)
            => Protected(k).op = "prepend"
<1>1. CASE ~Protects(k) BY <1>1 DEF Protected
<1>2. CASE Protects(k)
  <2>1. PICK ro \in BOOLEAN : ro <=> "read_only" \in k.f OBVIOUS
  <2>2. PICK inner \in BOOLEAN : inner <=> "inner" \in k.f OBVIOUS
  <2>3. PICK x : x = Head(k.q) OBVIOUS
  <2>4. PICK d : d = SetSvp(x, ro, inner) OBVIOUS
  <2>5. Protected(k) = d
    <3>1. ro = ("read_only" \in k.f) /\ inner = ("inner" \in k.f) BY <2>1, <2>2
    <3> QED BY <1>2, <2>3, <2>4, <3>1 DEF Protected
  <2>6. /\ d.prev <=> conn.prev
        /\ conn.err => d = conn
        /\ ~conn.err => (d.prog <=> conn.prog /\ ro)
        /\ ~conn.err /\ StmtType(x) # "other" => (d.acc <=> conn.acc)
        /\ ~conn.err /\ StmtType(x) = "other" => d.acc
        /\ d.op = conn.op \/ (d.op = "prepend" /\ ~conn.prev /\ d.acc)
        /\ ~conn.err /\ StmtType(x) = "other" /\ ~conn.point /\ ~conn.prev /\ conn.mode = 2
           /\ ~inner /\ conn.inTrans => d.op = "prepend"
    BY <2>4, SetSvpAcc
  <2>7. StmtType(x) = StmtType(Head(k.q)) BY <2>3
  <2> QED BY <1>2, <2>1, <2>2, <2>5, <2>6, <2>7
<1> QED BY <1>1, <1>2

\* A statement is one command, or a DECLARE and a FETCH.
LEMMA BodyShape ==
  ASSUME NEW q, Body(q)
  PROVE  PlainBody(q) \/ OpenBody(q)
<1>1. CASE \E op \in Kinds : IsOp(q, op)
  <2>1. PICK op \in Kinds : IsOp(q, op) BY <1>1
  <2> QED BY <2>1 DEF IsOp, One, Cmd, PlainBody
<1>2. CASE \E h \in Handles, hold \in BOOLEAN : IsOpen(q, h, hold)
  <2>1. PICK h \in Handles, hold \in BOOLEAN : IsOpen(q, h, hold) BY <1>2
  <2> QED BY <2>1 DEF IsOpen, Two, One, Declare, Fetch, CursCmd, Cmd, OpenBody
<1> QED BY <1>1, <1>2 DEF Body
LEMMA StmtOutSafe ==
  ASSUME IInv, conn.alive, conn.mode = 2, SafeInv, SendQuery, conn.op = "none", StmtSend
  PROVE  SafeInv'
<1>1. /\ Top("send") /\ todo # << >> /\ H \in Tasks /\ H.q \in Seq(Cmds) /\ Mirrors /\ Matches
      /\ conn \in Conns /\ srv \in Servers
      /\ \A t : Top(t) <=> t = "send"
  <2>1. Top("send") /\ todo # << >> /\ H.t = "send" /\ H \in Tasks /\ Sound(todo) BY TopIs DEF SendQuery
  <2>2. Mirrors /\ Matches BY <2>1, Settled DEF Mirrors
  <2>3. H.q \in Seq(Cmds) BY <2>1, TaskFields
  <2>4. \A t : Top(t) <=> t = "send" BY <2>1, UnderTop
  <2> QED BY <2>1, <2>2, <2>3, <2>4, TypesOf
<1>2. /\ "stmt" \in H.f /\ H.f \cap {"rollback_on_error", "ignore_abort", "end_with_commit"} = {}
      /\ ForStmt /\ Body(H.q) /\ ~conn.point
      /\ "begin" \in H.f => ~conn.inTrans
  BY DEF StmtSend
<1>3. In("stmt_end") /\ (PlainBody(H.q) \/ OpenBody(H.q)) BY <1>2, BodyShape DEF ForStmt
<1> DEFINE c == Protected(H)
           plain == "read_only" \notin H.f /\ "inner" \notin H.f
           other == StmtType(Head(H.q)) = "other"
<1>4. PICK e \in Tasks :
            /\ Sends(e) /\ e.q[Len(e.q)] = H.q[Len(H.q)]
            /\ \/ e.q = H.q /\ ~AddsBegin(H) /\ ~Prepends(H)
               \/ /\ AddsBegin(H) \/ Prepends(H)
                  /\ Head(e.q).op \in {"begin", "savepoint", "release"}
            /\ conn' = IF Prepends(H) THEN [c EXCEPT !.op = "savepoint"] ELSE c
  BY StmtOut
<1>5. /\ Kept(c)
      /\ c.op = "none" \/ (/\ c.op = "prepend" /\ Protects(H) /\ ~conn.err /\ conn.inTrans /\ other)
  BY <1>1, ProtectedIs
<1>6. /\ c.prev <=> conn.prev
      /\ ~Protects(H) \/ conn.err => c = conn
      /\ Protects(H) /\ ~conn.err => (c.prog <=> conn.prog /\ "read_only" \in H.f)
      /\ Protects(H) /\ ~conn.err /\ ~other => (c.acc <=> conn.acc)
      /\ Protects(H) /\ ~conn.err /\ other => c.acc
      /\ c.op = "none" \/ (c.op = "prepend" /\ c.acc /\ ~conn.prev)
      /\ (/\ Protects(H) /\ ~conn.err /\ other /\ ~conn.prev
          /\ "inner" \notin H.f /\ conn.inTrans) => c.op = "prepend"
  BY <1>1, <1>2, ProtectedAcc
<1>7. /\ AddsBegin(H) <=> "begin" \in H.f
      /\ Prepends(H) <=> c.op = "prepend"
      /\ Protects(H) <=> Considers(H)
  <2>1. ~AddsQuery(H) BY <1>2 DEF AddsQuery
  <2>2. AddsBegin(H) <=> "begin" \in H.f BY <1>2 DEF AddsBegin
  <2>3. Prepends(H) <=> c.op = "prepend" BY <1>5, <2>1 DEF Prepends, AddsBegin
  <2>4. Protects(H) <=> Considers(H) BY <1>2, <2>1 DEF Protects
  <2> QED BY <2>2, <2>3, <2>4
<1>8. /\ conn'.prev <=> c.prev
      /\ conn'.acc <=> c.acc
      /\ conn'.prog <=> c.prog
      /\ conn'.op # "none" <=> c.op # "none"
  <2>1. CASE Prepends(H)
    <3>1. conn' = [c EXCEPT !.op = "savepoint"] /\ c \in Conns BY <1>4, <1>5, <2>1 DEF Kept
    <3> HIDE DEF c
    <3>2. /\ conn'.op = "savepoint"
          /\ conn'.prev <=> c.prev
          /\ conn'.acc <=> c.acc
          /\ conn'.prog <=> c.prog
      BY <3>1, OpAcc
    <3>3. c.op = "prepend" BY <1>7, <2>1
    <3> QED BY <3>2, <3>3
  <2>2. CASE ~Prepends(H) BY <1>4, <2>2
  <2> QED BY <2>1, <2>2
<1> HIDE DEF c
<1>9. ~plain => c = conn /\ ~AddsBegin(H) /\ One(H.q, Cmd("read"))
  <2> SUFFICES ASSUME ~plain PROVE c = conn /\ ~AddsBegin(H) /\ One(H.q, Cmd("read")) OBVIOUS
  <2>1. ~conn.inTrans /\ "begin" \notin H.f /\ One(H.q, Cmd("read"))
    BY <1>1, <1>2, SafeParts DEF CatalogInv
  <2>2. Head(H.q).op = "read" BY <2>1 DEF One, Cmd
  <2>3. ~Considers(H) BY <2>1, <2>2 DEF Considers, AddsBegin
  <2> QED BY <1>6, <1>7, <2>1, <2>3
<1>10. other => last.op \notin EndKinds BY <1>3 DEF PlainBody, OpenBody, StmtType, EndKinds
<1>11. conn.acc => c.acc BY <1>6
<1>12. c.prog => conn.prog BY <1>6
<1>13. c.acc => conn.acc \/ (In("stmt_end") /\ last.op \notin EndKinds /\ ~c.prog)
  <2> SUFFICES ASSUME c.acc, ~conn.acc PROVE last.op \notin EndKinds /\ ~c.prog BY <1>3
  <2>1. Protects(H) /\ ~conn.err /\ other BY <1>6
  <2>2. plain BY <1>9
  <2> QED BY <1>6, <1>10, <2>1, <2>2
<1>14. Undoing /\ srv.st # "IDLE" => e.q = H.q
  <2> SUFFICES ASSUME Undoing, srv.st # "IDLE" PROVE ~AddsBegin(H) /\ ~Prepends(H) BY <1>4
  <2>1. One(H.q, Cmd("rollback")) BY <1>1 DEF Undoing
  <2>2. Head(H.q).op = "rollback" BY <2>1 DEF One, Cmd
  <2>3. ~other BY <2>2 DEF StmtType, EndKinds
  <2>4. conn.inTrans BY <1>1 DEF Matches
  <2> QED BY <1>5, <1>7, <2>3, <2>4 DEF AddsBegin
<1>15. e.q[Len(e.q)].op = "write" =>
         Noted' \/ srv.st = "INERROR" \/ (srv.st = "IDLE" /\ Head(e.q).op = "write")
  <2> SUFFICES ASSUME H.q[Len(H.q)].op = "write"
               PROVE  Noted' \/ srv.st = "INERROR" \/ (srv.st = "IDLE" /\ Head(e.q).op = "write")
    BY <1>4
  <2>1. PlainBody(H.q) /\ Head(H.q).op = "write"
    <3>1. CASE PlainBody(H.q)
      <4>1. H.q[Len(H.q)] = Head(H.q) BY <1>1, <3>1, EndOf DEF PlainBody
      <4> QED BY <3>1, <4>1
    <3>2. CASE OpenBody(H.q)
      <4>1. Tail(H.q) \in Seq(Cmds) BY <1>1, <3>2 DEF OpenBody
      <4>2. H.q[Len(H.q)] = Head(Tail(H.q)) BY <1>1, <3>2, <4>1, EndOf DEF OpenBody
      <4> QED BY <3>2, <4>2 DEF OpenBody
    <3> QED BY <1>3, <3>1, <3>2
  <2>2. other BY <2>1 DEF StmtType, EndKinds
  <2>3. plain BY <1>9, <2>1 DEF One, Cmd
  <2>4. CASE conn.err BY <1>1, <2>4 DEF Mirrors
  <2>5. CASE ~conn.err /\ Considers(H)
    <3>1. c.acc /\ ~c.prog BY <1>6, <1>7, <2>2, <2>3, <2>5
    <3> QED BY <1>8, <3>1 DEF Noted
  <2>6. CASE ~conn.err /\ ~Considers(H)
    <3>1. ~AddsBegin(H) /\ ~conn.inTrans BY <2>6 DEF Considers
    <3>2. ~Prepends(H) BY <1>5, <1>7, <3>1
    <3>3. e.q = H.q /\ srv.st = "IDLE" BY <1>1, <1>4, <3>1, <3>2 DEF Matches
    <3> QED BY <2>1, <3>3
  <2> QED BY <2>4, <2>5, <2>6
<1>16. IsEnd(e.q) => IsEnd(H.q) BY <1>4 DEF IsEnd, One, Cmd
<1>17. ~Shielded BY <1>2 DEF Shielded, Shield
<1>18. last.op \in {"write", "open"} /\ Before => conn'.op # "none"
  <2> SUFFICES ASSUME last.op \in {"write", "open"}, Before PROVE c.op # "none" BY <1>8
  <2>1. conn.inTrans /\ ~conn.err /\ ~conn.prev BY <1>1 DEF Before, InUse, Mirrors, Matches
  <2>2. plain BY <1>2, <2>1, <1>1, SafeParts DEF CatalogInv
  <2>3. Considers(H) BY <2>1 DEF Considers
  <2>4. other BY <1>3 DEF PlainBody, OpenBody, StmtType, EndKinds
  <2> QED BY <1>6, <1>7, <2>1, <2>2, <2>3, <2>4
<1> QED BY <1>4, <1>6, <1>8, <1>11, <1>12, <1>13, <1>14, <1>15, <1>16, <1>17, <1>18, SentSafe

LEMMA SendQuerySafe ==
  ASSUME IInv, conn.alive, conn.mode = 2, SafeInv, SendQuery
  PROVE  SafeInv'
<1>1. conn.op = "none" => StmtSend \/ BeginSend \/ EndSend \/ QuickSend
  BY LiveParts DEF TalkInv, SendInv, SendQuery
<1> QED BY <1>1, SvpOutSafe, StmtOutSafe, BoundaryOutSafe, QuickOutSafe
--------------------
(* The calls of the application and the accounts *)
\* Between two calls no statement is accounted for.
LEMMA QuietAcc ==
  ASSUME IInv, conn.alive, SafeInv, Quiet
  PROVE  /\ ~conn.acc /\ ~conn.point /\ conn.op = "none" /\ Blank
         /\ ~(Wrote(srv) /\ conn.prev)
         /\ Matches /\ Mirrors
<1>1. (\A t : ~Has(t) /\ ~Top(t)) /\ Matches /\ Mirrors /\ conn.op = "none" /\ ~conn.point BY QuietLive
<1>2. ~conn.acc /\ Blank BY <1>1, SafeParts DEF AccInv
<1>3. ~(Wrote(srv) /\ conn.prev) BY <1>1, SafeParts DEF PrevInv, Undoing
<1> QED BY <1>1, <1>2, <1>3
\* What a call begins with.
LEMMA CallSafe ==
  ASSUME IInv, conn.alive, SafeInv, Quiet, srv' = srv, AccSame, conn'.op = conn.op,
         ~Top("wire")', CatalogInv', Has("exec_ext")' => Has("request_start")', ~last'.failed,
         Atom' => Has("stmt_end")' /\ ~Busy' /\ Before'
  PROVE  SafeInv'
<1>1. /\ ~conn'.acc /\ ~conn'.point /\ conn'.op = "none" /\ ~(Wrote(srv') /\ conn'.prev) /\ Blank
  BY QuietAcc DEF AccSame
<1>2. Blank' BY <1>1 DEF Blank
<1>3. AccInv' /\ PrevInv' BY <1>1 DEF AccInv, PrevInv
<1>4. WriteInv' /\ ExtWriteInv' BY DEF WriteInv, ExtWriteInv
<1>5. AtomInv' BY DEF AtomInv
<1> QED BY <1>2, <1>3, <1>4, <1>5, SafeFrom
\* A call that runs no statement.
LEMMA PlainCallSafe ==
  ASSUME IInv, conn.alive, SafeInv, Quiet, srv' = srv, AccSame, conn'.op = conn.op,
         \A k \in All(todo') : k.t \notin {"wire", "exec_ext"} /\ (k.t = "send" => "stmt" \notin k.f),
         todo' # << >> => H' \in All(todo'), ~last'.failed, last'.op \notin {"write", "open"}
  PROVE  SafeInv'
<1>1. ~Top("wire")' /\ (Top("send")' => "stmt" \notin H'.f) BY DEF Top, H
<1>2. CatalogInv' BY <1>1 DEF CatalogInv
<1>3. ~Has("exec_ext")' BY DEF Has
<1>4. ~Atom' BY DEF Atom
<1> QED BY <1>1, <1>2, <1>3, <1>4, CallSafe
LEMMA CalledLast ==
  ASSUME NEW op, Calling(op)
  PROVE  last'.op = op /\ last'.st = srv.st /\ last'.w = srv.w /\ ~last'.failed
BY DEF Calling
\* SQLEndTran.
LEMMA EndTranSafe ==
  ASSUME IInv, conn.alive, SafeInv, NEW op \in {"commit", "rollback"}, EndTran(op)
  PROVE  SafeInv'
<1>1. /\ Quiet /\ conn' = [conn EXCEPT !.ignored = FALSE] /\ srv' = srv /\ Calling(op)
      /\ todo' = If((~conn.auto \/ conn.manual) /\ conn.inTrans,
                    <<Call(IF op = "commit" THEN "commit" ELSE "abort"), Call("transact_end")>>)
  BY DEF EndTran
<1>2. AccSame /\ conn'.op = conn.op BY <1>1, TypesOf, AccBut
<1>3. ~last'.failed /\ last'.op \notin {"write", "open"} BY <1>1, CalledLast
<1>4. /\ \A k \in All(todo') : k.t \in {"commit", "abort", "transact_end"}
      /\ todo' # << >> => H' \in All(todo')
  <2>1. PICK a, b : /\ a = Call(IF op = "commit" THEN "commit" ELSE "abort")
                    /\ b = Call("transact_end")
    OBVIOUS
  <2>2. a \in Tasks /\ a.t \in {"commit", "abort"} /\ b \in Tasks /\ b.t = "transact_end"
    BY <2>1, CallType DEF TaskNames
  <2>3. CASE todo' = << >> BY <2>3, AllNone
  <2>4. CASE todo' # << >>
    <3>1. todo' = <<a, b>> BY <1>1, <2>1, <2>4 DEF If
    <3>2. All(<<a, b>>) = {a, b} /\ Head(<<a, b>>) = a BY DEF All
    <3> QED BY <2>2, <3>1, <3>2 DEF H
  <2> QED BY <2>3, <2>4
<1> QED BY <1>1, <1>2, <1>3, <1>4, PlainCallSafe
\* SQLSetConnectAttr.
LEMMA SetAutocommitSafe ==
  ASSUME IInv, conn.alive, SafeInv, SetAutocommit
  PROVE  SafeInv'
<1>1. /\ Quiet /\ conn' = [conn EXCEPT !.ignored = FALSE] /\ srv' = srv /\ Calling("commit")
      /\ todo' = If(conn.inTrans, <<Call("commit")>>) \o <<Call("set_auto")>>
  BY DEF SetAutocommit
<1>2. AccSame /\ conn'.op = conn.op BY <1>1, TypesOf, AccBut
<1>3. ~last'.failed /\ last'.op \notin {"write", "open"} BY <1>1, CalledLast
<1>4. PICK a, b : a = Call("commit") /\ b = Call("set_auto") OBVIOUS
<1>5. a \in Tasks /\ a.t = "commit" /\ b \in Tasks /\ b.t = "set_auto" BY <1>4, CallType DEF TaskNames
<1>6. /\ \A k \in All(todo') : k.t \in {"commit", "set_auto"}
      /\ H' \in All(todo')
  <2>1. CASE conn.inTrans
    <3>1. todo' = <<a>> \o <<b>> BY <1>1, <1>4, <2>1 DEF If
    <3>2. <<a>> \o <<b>> = <<a, b>> BY <1>5, Pair
    <3>3. All(<<a, b>>) = {a, b} /\ Head(<<a, b>>) = a BY DEF All
    <3> QED BY <1>5, <3>1, <3>2, <3>3 DEF H
  <2>2. CASE ~conn.inTrans
    <3>1. todo' = << >> \o <<b>> BY <1>1, <1>4, <2>2 DEF If
    <3>2. << >> \o <<b>> = <<b>> BY <1>5
    <3>3. All(<<b>>) = {b} /\ Head(<<b>>) = b BY DEF All
    <3> QED BY <1>5, <3>1, <3>2, <3>3 DEF H
  <2> QED BY <2>1, <2>2
<1> QED BY <1>1, <1>2, <1>3, <1>6, PlainCallSafe
\* SQLCloseCursor and SQLFreeStmt.
LEMMA CloseCursorSafe ==
  ASSUME IInv, conn.alive, SafeInv, NEW h \in Handles, CloseCursor(h)
  PROVE  SafeInv'
<1>1. Quiet /\ conn' = conn /\ srv' = srv /\ Calling("close") /\ todo' = <<CallH("close", h)>>
  BY DEF CloseCursor
<1>2. AccSame /\ conn'.op = conn.op BY <1>1, AccSelf
<1>3. ~last'.failed /\ last'.op \notin {"write", "open"} BY <1>1, CalledLast
<1>4. PICK a : a = CallH("close", h) OBVIOUS
<1>5. a.t = "close" BY <1>4, CallHType DEF TaskNames
<1>6. All(todo') = {a} /\ H' = a
  <2>1. todo' = <<a>> BY <1>1, <1>4
  <2>2. All(<<a>>) = {a} /\ Head(<<a>>) = a BY DEF All
  <2> QED BY <2>1, <2>2 DEF H
<1> QED BY <1>1, <1>2, <1>3, <1>5, <1>6, PlainCallSafe
\* A server-side statement is given up.
LEMMA FreePreparedSafe ==
  ASSUME IInv, conn.alive, SafeInv, FreePrepared
  PROVE  SafeInv'
<1>1. PICK f : f = {"ignore_abort", "rollback_on_error"} OBVIOUS
<1>2. PICK q : q = <<Cmd("deallocate")>> OBVIOUS
<1>3. PICK a : a = Send(q, f) OBVIOUS
<1>4. Quiet /\ conn' = conn /\ srv' = srv /\ Calling("free") /\ todo' = If(~conn.err, <<a>>)
  BY <1>1, <1>2, <1>3 DEF FreePrepared
<1>5. AccSame /\ conn'.op = conn.op BY <1>4, AccSelf
<1>6. ~last'.failed /\ last'.op \notin {"write", "open"} BY <1>4, CalledLast
<1>7. a.t = "send" /\ a.f = f
  <2>1. Cmd("deallocate") \in Cmds BY CmdType DEF CmdNames
  <2>2. q \in Seq(Cmds) /\ f \in SUBSET Flags BY <1>1, <1>2, <2>1 DEF Flags
  <2> QED BY <1>3, <2>2, SendType
<1>8. /\ \A k \in All(todo') : k.t = "send" /\ "stmt" \notin k.f
      /\ todo' # << >> => H' \in All(todo')
  <2>1. CASE conn.err
    <3>1. todo' = << >> BY <1>4, <2>1 DEF If
    <3> QED BY <3>1, AllNone
  <2>2. CASE ~conn.err
    <3>1. todo' = <<a>> BY <1>4, <2>2 DEF If
    <3>2. All(<<a>>) = {a} /\ Head(<<a>>) = a BY DEF All
    <3> QED BY <1>1, <1>7, <3>1, <3>2 DEF H
  <2> QED BY <2>1, <2>2
<1> QED BY <1>4, <1>5, <1>6, <1>8, PlainCallSafe
\* A call that runs a statement: nothing stands between it and the savepoint it may need.
LEMMA StmtCallSafe ==
  ASSUME IInv, conn.alive, SafeInv, Quiet, srv' = srv, conn' = conn, NEW op, Calling(op),
         NEW N \in SUBSET Tasks, All(todo') = N, todo' # << >>, H' \in N,
         \A k \in N : k.t \in {"send", "begin", "request_start", "exec_ext", "exec_end", "opened", "stmt_end"},
         \E k \in N : k.t = "stmt_end",
         (\E k \in N : k.t = "exec_ext") => \E k \in N : k.t = "request_start",
         H'.t = "begin" => ~conn.inTrans,
         H'.t = "send" => "stmt" \in H'.f /\ {"read_only", "inner"} \cap H'.f = {},
         H'.t \in {"send", "begin", "request_start"}
  PROVE  SafeInv'
<1>1. AccSame /\ conn'.op = conn.op BY AccSelf
<1>2. \A t : Has(t)' <=> \E k \in N : k.t = t BY DEF Has
<1>3. \A t : Top(t)' <=> H'.t = t BY DEF Top, H
<1>4. last'.op = op /\ last'.st = srv.st /\ last'.w = srv.w /\ ~last'.failed BY CalledLast
<1>5. ~Top("wire")' BY <1>3
<1>6. CatalogInv' BY <1>3 DEF CatalogInv
<1>7. Has("exec_ext")' => Has("request_start")' BY <1>2
<1>8. Atom' => Has("stmt_end")' /\ ~Busy' /\ Before'
  <2> SUFFICES ASSUME Atom' PROVE Has("stmt_end")' /\ ~Busy' /\ Before' OBVIOUS
  <2>1. Has("stmt_end")' BY <1>2
  <2>2. ~Busy' BY DEF Busy, Chores, Discs, Clears
  <2>3. /\ ~conn.acc /\ ~conn.point /\ conn.op = "none"
        /\ ~(Wrote(srv) /\ conn.prev) /\ Matches
    BY QuietAcc
  <2>4. srv.st = "INTRANS" /\ srv.w > 0 BY <1>4 DEF Atom
  <2>5. Wrote(srv) /\ conn.inTrans BY <2>3, <2>4 DEF Wrote, Matches
  <2>6. InUse' /\ srv'.w = last'.w /\ ~conn'.prev /\ ~conn'.point BY <1>4, <2>3, <2>4, <2>5 DEF InUse
  <2>7. Top("request_start")' \/ (Top("send")' /\ "stmt" \in H'.f) BY <1>3, <2>5
  <2> QED BY <2>1, <2>2, <2>6, <2>7 DEF Before
<1> QED BY <1>1, <1>4, <1>5, <1>6, <1>7, <1>8, CallSafe
LEMMA ExecDirectSafe ==
  ASSUME IInv, conn.alive, SafeInv, NEW op \in DirectOps, ExecDirect(op)
  PROVE  SafeInv'
<1>1. op \in Kinds BY OptionAssumption
<1>2. PICK f : f = {"stmt"} \cup IF IssueBegin(StmtType(Cmd(op)), FALSE) THEN {"begin"} ELSE {} OBVIOUS
<1>3. PICK q : q = <<Cmd(op)>> OBVIOUS
<1>4. /\ Quiet /\ Calling(op) /\ UNCHANGED <<conn, srv>>
      /\ todo' = CommitFirst(Cmd(op)) \o <<Send(q, f), ExecEnd(Cmd(op)), Call("stmt_end")>>
  BY <1>2, <1>3 DEF ExecDirect
<1>5. PICK a, b, c : a = Send(q, f) /\ b = ExecEnd(Cmd(op)) /\ c = Call("stmt_end") OBVIOUS
<1>6. f \in SUBSET Flags /\ "stmt" \in f /\ {"read_only", "inner"} \cap f = {} BY <1>2 DEF Flags
<1>7. /\ a \in Tasks /\ a.t = "send" /\ a.f = f
      /\ b \in Tasks /\ b.t = "exec_end"
      /\ c \in Tasks /\ c.t = "stmt_end"
  <2>1. q \in Seq(Cmds)
    <3>1. Cmd(op) \in Cmds BY <1>1, CmdType DEF CmdNames
    <3> QED BY <1>3, <3>1
  <2>2. a \in Tasks /\ a.t = "send" /\ a.f = f BY <1>5, <1>6, <2>1, SendType
  <2>3. b \in Tasks /\ b.t = "exec_end" BY <1>1, <1>4, <1>5, ExecFirst
  <2>4. c \in Tasks /\ c.t = "stmt_end" BY <1>5, CallType DEF TaskNames
  <2> QED BY <2>2, <2>3, <2>4
<1>8. /\ todo' # << >> /\ H' = a /\ All(todo') = {a, b, c}
  <2>1. PICK s : s = <<a, b, c>> OBVIOUS
  <2>2. CommitFirst(Cmd(op)) = << >> BY <1>1, <1>4, ExecFirst
  <2>3. s \in Seq(Tasks) BY <1>7, <2>1
  <2>4. << >> \o s = s BY <2>3, NoCat
  <2>5. todo' = <<a, b, c>> BY <1>4, <1>5, <2>1, <2>2, <2>4
  <2> QED BY <1>7, <2>5, StmtStack
<1>9. PICK N \in SUBSET Tasks : N = {a, b, c} BY <1>7
<1> QED BY <1>4, <1>6, <1>7, <1>8, <1>9, StmtCallSafe
LEMMA OpenCursorSafe ==
  ASSUME IInv, conn.alive, SafeInv, NEW h \in Handles, NEW hold \in BOOLEAN, OpenCursor(h, hold)
  PROVE  SafeInv'
<1>1. PICK f : f = {"stmt"} \cup IF IssueBegin("other", TRUE) THEN {"begin"} ELSE {} OBVIOUS
<1>2. PICK q : q = <<Declare(h, hold), Fetch(h)>> OBVIOUS
<1>3. PICK a, b, c : a = Send(q, f) /\ b = OpenedTask(h, hold) /\ c = Call("stmt_end") OBVIOUS
<1>4. Quiet /\ Calling("open") /\ UNCHANGED <<conn, srv>> /\ todo' = <<a, b, c>>
  <2>1. todo' = <<a, b, c>> BY <1>1, <1>2, <1>3, Zenon DEF OpenCursor, Declare, Fetch, OpenedTask
  <2> QED BY <2>1 DEF OpenCursor
<1>5. q \in Seq(Cmds)
  <2>1. Declare(h, hold) \in Cmds /\ Fetch(h) \in Cmds BY DeclareType, CursCmdType DEF Fetch, CmdNames
  <2> QED BY <1>2, <2>1
<1>6. f \in SUBSET Flags /\ "stmt" \in f /\ {"read_only", "inner"} \cap f = {} BY <1>1 DEF Flags
<1>7. /\ a \in Tasks /\ a.t = "send" /\ a.f = f
      /\ b \in Tasks /\ b.t = "opened"
      /\ c \in Tasks /\ c.t = "stmt_end"
  <2>1. a \in Tasks /\ a.t = "send" /\ a.f = f BY <1>3, <1>5, <1>6, SendType
  <2>2. b \in Tasks /\ b.t = "opened" BY <1>3, OpenedType
  <2>3. c \in Tasks /\ c.t = "stmt_end" BY <1>3, CallType DEF TaskNames
  <2> QED BY <2>1, <2>2, <2>3
<1>8. todo' # << >> /\ H' = a /\ All(todo') = {a, b, c} BY <1>4, <1>7, StmtStack
<1>9. PICK N \in SUBSET Tasks : N = {a, b, c} BY <1>7
<1> QED BY <1>4, <1>6, <1>7, <1>8, <1>9, StmtCallSafe
LEMMA ExecPreparedSafe ==
  ASSUME IInv, Prudent, conn.alive, SafeInv, NEW op \in PreparedOps, ExecPrepared(op)
  PROVE  SafeInv'
<1>1. Quiet /\ Calling(op) /\ UNCHANGED <<conn, srv>> BY ExecPreparedIs
<1>2. PICK q \in Seq(Cmds), e, a, b, c, d \in Tasks : PreparedStack(op, q, e, a, b, c, d)
  BY ExecPreparedIs
<1>3. PICK N \in SUBSET Tasks : N = All(todo') BY <1>2 DEF PreparedStack
<1>4. /\ todo' # << >> /\ H' \in N /\ H'.t \in {"begin", "request_start"}
      /\ (H'.t = "begin" => ~conn.inTrans)
      /\ \E k \in N : k.t = "stmt_end"
      /\ \E k \in N : k.t = "request_start"
      /\ \A k \in N : k.t \in {"send", "begin", "request_start", "exec_ext", "exec_end", "opened", "stmt_end"}
  BY <1>2, <1>3 DEF PreparedStack, IssueBegin
<1> QED BY <1>1, <1>3, <1>4, StmtCallSafe
LEMMA CatalogSafe ==
  ASSUME IInv, Cautious, conn.alive, conn.mode = 2, SafeInv, Catalog
  PROVE  SafeInv'
<1>1. PICK f : f = {"stmt", "inner", "read_only"} OBVIOUS
<1>2. PICK q : q = <<Cmd("read")>> OBVIOUS
<1>3. PICK a, b : a = Send(q, f) /\ b = Call("stmt_end") OBVIOUS
<1>4. /\ Quiet /\ Calling("catalog") /\ UNCHANGED <<conn, srv>> /\ todo' = <<a, b>>
      /\ ~conn.inTrans
  BY <1>1, <1>2, <1>3 DEF Catalog, Cautious
<1>5. q \in Seq(Cmds) /\ One(q, Cmd("read")) BY <1>2, CmdType DEF CmdNames, Kinds, One
<1>6. f \in SUBSET Flags /\ "begin" \notin f BY <1>1 DEF Flags
<1>7. /\ a \in Tasks /\ a.t = "send" /\ a.q = q /\ a.f = f
      /\ b \in Tasks /\ b.t = "stmt_end"
  BY <1>3, <1>5, <1>6, SendType, CallType DEF TaskNames
<1>8. todo' # << >> /\ H' = a /\ All(todo') = {a, b}
  <2>1. b.t \in Lower(a.t) /\ ~Awaits(a) /\ ~Works(a)
    BY <1>7 DEF Lower, Talk, Clears, Discs, Ends, Awaits, Works
  <2>2. <<a, b>> # << >> /\ Head(<<a, b>>) = a /\ All(<<a, b>>) = {a, b} BY <1>7, <2>1, Stack2
  <2> QED BY <1>4, <2>2 DEF H
<1>9. AccSame /\ conn'.op = conn.op BY <1>4, AccSelf
<1>10. last'.op = "catalog" /\ ~last'.failed BY <1>4, CalledLast
<1>11. CatalogInv' BY <1>4, <1>5, <1>6, <1>7, <1>8 DEF CatalogInv
<1>12. ~Top("wire")' /\ ~Has("exec_ext")' /\ ~Atom' BY <1>7, <1>8, <1>10 DEF Top, H, Has, Atom
<1> QED BY <1>4, <1>9, <1>10, <1>11, <1>12, CallSafe
LEMMA AccConnected ==
  ASSUME NEW c \in Conns, NEW d,
         d = [c EXCEPT !.alive = TRUE, !.auto = TRUE, !.inTrans = FALSE, !.manual = FALSE,
                       !.err = FALSE, !.ignored = FALSE]
  PROVE  d.alive /\ d.mode = c.mode /\ (d.acc <=> c.acc) /\ (d.point <=> c.point) /\ d.op = c.op
BY Zenon DEF Conns
\* SQLConnect starts with a session that has written nothing.
LEMMA ReconnectSafe ==
  ASSUME IInv, Prudent, AInv, conn.mode = 2, Reconnect
  PROVE  SafeInv'
<1>1. /\ Quiet /\ todo' = << >> /\ Calling("connect") /\ srv' = NewServer
      /\ conn' = [conn EXCEPT !.alive = TRUE, !.auto = TRUE, !.inTrans = FALSE, !.manual = FALSE,
                              !.err = FALSE, !.ignored = FALSE]
  BY DEF Reconnect, Quiet
<1>2. conn.op = "none" /\ ~conn.point BY <1>1, QuietLive, TypesOf DEF Gone
<1>3. ~conn.acc BY <1>1, QuietAcc DEF AInv
<1>4. ~conn'.acc /\ ~conn'.point /\ conn'.op = "none"
  <2>1. PICK c \in Conns : c = conn BY TypesOf
  <2>2. PICK d : d = [c EXCEPT !.alive = TRUE, !.auto = TRUE, !.inTrans = FALSE, !.manual = FALSE,
                               !.err = FALSE, !.ignored = FALSE]
    OBVIOUS
  <2>3. (d.acc <=> c.acc) /\ (d.point <=> c.point) /\ d.op = c.op BY <2>1, <2>2, AccConnected
  <2> QED BY <1>1, <1>2, <1>3, <2>1, <2>2, <2>3
<1>5. srv'.st = "IDLE" /\ srv'.w = 0 /\ srv'.svps = << >> BY <1>1 DEF NewServer
<1>6. Blank' /\ ~(Wrote(srv') /\ conn'.prev) BY <1>5 DEF Blank, Wrote
<1>7. ~last'.failed BY <1>1, CalledLast
<1> QED BY <1>1, <1>4, <1>6, <1>7, QuietSafe
LEMMA ApplicationSafe ==
  ASSUME IInv, Prudent, Cautious, AInv, conn.mode = 2, Application
  PROVE  SafeInv'
<1>1. CASE Reconnect BY <1>1, ReconnectSafe
<1>2. CASE ~Reconnect
  <2>1. conn.alive /\ SafeInv
    <3>1. conn.alive
      BY <1>2 DEF Application, ExecDirect, ExecPrepared, Catalog, OpenCursor, EndTran, SetAutocommit,
        FreePrepared, CloseCursor
    <3> QED BY <3>1 DEF AInv
  <2> QED
    BY <1>2, <2>1, ExecDirectSafe, ExecPreparedSafe, CatalogSafe, OpenCursorSafe, EndTranSafe,
      SetAutocommitSafe, FreePreparedSafe, CloseCursorSafe DEF Application
<1> QED BY <1>1, <1>2
--------------------
(* A lost connection and the accounts *)
\* The option and the session are the same, and whatever was noted of a statement.
Same(c, d) == d.mode = c.mode /\ d.alive = c.alive /\ d.acc = c.acc
Lasting == conn'.mode = conn.mode /\ (conn'.alive = conn.alive) /\ (conn'.acc => conn.acc \/ conn.alive)
Losing == conn'.mode = conn.mode /\ ~conn'.alive /\ ~conn'.acc
LEMMA SameBut ==
  ASSUME NEW c \in Conns, NEW d, NEW x,
         \/ d = c
         \/ d = [c EXCEPT !.ignored = x]
         \/ d = [c EXCEPT !.committing = x]
         \/ d = [c EXCEPT !.op = x]
         \/ d = [c EXCEPT !.auto = x]
         \/ d = [c EXCEPT !.manual = x]
  PROVE  Same(c, d)
BY Zenon DEF Conns, Same
LEMMA SameBut2 ==
  ASSUME NEW c \in Conns, NEW d, NEW x, NEW y,
         \/ d = [c EXCEPT !.ignored = x, !.err = y]
         \/ d = [c EXCEPT !.err = x, !.ignored = y]
         \/ d = [c EXCEPT !.inTrans = x, !.err = y]
         \/ d = [c EXCEPT !.inTrans = x, !.manual = y]
  PROVE  Same(c, d)
BY Zenon DEF Conns, Same
LEMMA SameBut3 ==
  ASSUME NEW c \in Conns, NEW d, NEW x, NEW y, NEW z,
         \/ d = [c EXCEPT !.inTrans = x, !.err = y, !.manual = z]
         \/ d = [c EXCEPT !.err = x, !.inTrans = y, !.ignored = z]
  PROVE  Same(c, d)
BY Zenon DEF Conns, Same
LEMMA LastingBut ==
  ASSUME conn \in Conns, Same(conn, conn')
  PROVE  Lasting
BY DEF Same, Lasting
LEMMA SameTag ==
  ASSUME NEW c \in Conns, NEW r, NEW f, NEW d, d = TagConn(Noticed(c, r), f, r.tag)
  PROVE  Same(c, d)
<1> DEFINE n == Noticed(c, r)
<1>1. n \in Conns /\ Same(c, n)
  <2> HIDE DEF n
  <2>1. n = c \/ n = [c EXCEPT !.inTrans = TRUE] BY DEF Noticed, n
  <2>2. n = [c EXCEPT !.inTrans = TRUE] => n \in Conns /\ Same(c, n) BY DEF Conns, Same
  <2> QED BY <2>1, <2>2 DEF Same
<1> HIDE DEF n
<1>2. \/ d = n \/ d = [n EXCEPT !.inTrans = TRUE, !.manual = TRUE] \/ d = [n EXCEPT !.svp = FALSE]
      \/ d = [n EXCEPT !.point = TRUE, !.svp = TRUE, !.op = "none"]
      \/ d = [n EXCEPT !.err = TRUE, !.svp = FALSE, !.prev = FALSE, !.prog = TRUE]
  BY DEF TagConn, n
<1>3. Same(n, d) BY <1>1, <1>2, Zenon DEF Conns, Same
<1> QED BY <1>1, <1>3 DEF Same
LEMMA SameSvp ==
  ASSUME conn \in Conns, NEW cmd, NEW ro \in BOOLEAN, NEW inner \in BOOLEAN,
         NEW d, d = SetSvp(cmd, ro, inner)
  PROVE  /\ d \in Conns /\ d.mode = conn.mode /\ d.alive = conn.alive
         /\ [d EXCEPT !.op = "savepoint"].mode = conn.mode
         /\ [d EXCEPT !.op = "savepoint"].alive = conn.alive
<1> DEFINE b == conn.prog /\ ro
           c == [conn EXCEPT !.prog = b]
           e == [c EXCEPT !.op = "prepend", !.acc = TRUE]
           g == [c EXCEPT !.acc = TRUE]
<1>1. b \in BOOLEAN OBVIOUS
<1> HIDE DEF b
<1>2. c \in Conns /\ c.mode = conn.mode /\ c.alive = conn.alive BY <1>1, Zenon DEF Conns
<1> HIDE DEF c
<1>3. e \in Conns /\ e.mode = conn.mode /\ e.alive = conn.alive BY <1>2, Zenon DEF Conns
<1>4. g \in Conns /\ g.mode = conn.mode /\ g.alive = conn.alive BY <1>2, Zenon DEF Conns
<1>5. d = conn \/ d = c \/ d = e \/ d = g BY Zenon DEF SetSvp, c, e, g, b
<1> HIDE DEF e, g
<1>6. d \in Conns /\ d.mode = conn.mode /\ d.alive = conn.alive BY <1>2, <1>3, <1>4, <1>5
<1> QED BY <1>6, Zenon DEF Conns
LEMMA Ended ==
  ASSUME NEW c \in Conns
  PROVE  /\ StartStmt(SvpInit(NoTrans(c))).mode = c.mode
         /\ StartStmt(SvpInit(NoTrans(c))).alive = c.alive
<1>1. PICK n : n = NoTrans(c) OBVIOUS
<1>2. n \in Conns /\ n.mode = c.mode /\ n.alive = c.alive
  <2>1. n = c \/ n = [c EXCEPT !.inTrans = FALSE, !.err = FALSE, !.manual = FALSE] BY <1>1 DEF NoTrans
  <2> QED BY <2>1, Zenon DEF Conns
<1>3. PICK m : m = StartStmt(SvpInit(n)) OBVIOUS
<1>4. m.mode = n.mode /\ m.alive = n.alive BY <1>2, <1>3, Zenon DEF StartStmt, SvpInit, Conns
<1> QED BY <1>1, <1>2, <1>3, <1>4
LEMMA LostAcc ==
  ASSUME conn \in Conns, LostConn
  PROVE  Losing
<1>1. PICK b : b = OnAbortConn OBVIOUS
<1>2. b \in Conns /\ b.mode = conn.mode /\ ~b.acc BY <1>1, OnAbort, Ended, AccReset DEF OnAbortConn
<1>3. PICK d : d = [b EXCEPT !.alive = FALSE] OBVIOUS
<1>4. d \in Conns /\ d.mode = b.mode /\ (d.acc <=> b.acc) /\ ~d.alive BY <1>2, <1>3, Zenon DEF Conns
<1>5. conn' = [d EXCEPT !.ignored = FALSE] BY <1>1, <1>3 DEF LostConn, DeadConn
<1>6. conn'.mode = d.mode /\ (conn'.acc <=> d.acc) /\ (conn'.alive <=> d.alive)
  BY <1>4, <1>5, Zenon DEF Conns
<1> QED BY <1>2, <1>4, <1>6 DEF Losing
\* The calls that leave the record of the connection alone, or note one field in it.
LEMMA StackLasts ==
  ASSUME IInv, \/ ReturnResult \/ ClearCursor \/ Moved \/ DiscardAll \/ DiscardOne \/ DiscardFree
               \/ CloseResult \/ Closed \/ Begin \/ Commit \/ CloseEof \/ CommitSend \/ Abort
               \/ Opened \/ EndStatement \/ OnCommitEnd \/ SvpSent \/ FlipAutocommit \/ WireDone
  PROVE  Lasting
<1>1. conn \in Conns BY TypesOf
<1>2. CASE UNCHANGED conn BY <1>1, <1>2, SameBut, LastingBut
<1>3. CASE OnCommitEnd \/ SvpSent \/ FlipAutocommit
  <2>1. \/ conn' = [conn EXCEPT !.committing = FALSE]
        \/ conn' = [conn EXCEPT !.op = "none"]
        \/ conn' = [conn EXCEPT !.auto = ~conn.auto]
    BY <1>3 DEF OnCommitEnd, SvpSent, FlipAutocommit
  <2> QED BY <1>1, <2>1, SameBut, LastingBut
<1>4. CASE WireDone
  <2>1. PICK x : conn' = [conn EXCEPT !.ignored = x] BY <1>4 DEF WireDone
  <2> QED BY <1>1, <2>1, SameBut, LastingBut
<1>5. ReturnResult \/ ClearCursor \/ Moved \/ DiscardAll \/ DiscardOne \/ DiscardFree => UNCHANGED conn
  BY DEF ReturnResult, ClearCursor, Moved, DiscardAll, DiscardOne, DiscardFree
<1>6. CloseResult \/ Closed \/ Begin \/ Commit \/ CloseEof => UNCHANGED conn
  BY DEF CloseResult, Closed, Begin, Commit, CloseEof
<1>7. CommitSend \/ Abort \/ Opened \/ EndStatement => UNCHANGED conn
  BY DEF CommitSend, Abort, Opened, EndStatement
<1> QED BY <1>2, <1>3, <1>4, <1>5, <1>6, <1>7
LEMMA SvpShape ==
  ASSUME conn \in Conns, conn.alive, NEW c \in Conns, c.mode = conn.mode, c.alive = conn.alive,
         conn' = c \/ conn' = [c EXCEPT !.op = "savepoint"]
  PROVE  Lasting
<1>1. conn'.mode = conn.mode /\ conn'.alive = conn.alive BY Zenon DEF Conns
<1> QED BY <1>1 DEF Lasting
LEMMA SvpLasts ==
  ASSUME IInv, SendQuery \/ RequestStart
  PROVE  Lasting
<1>1. conn \in Conns BY TypesOf
<1>2. CASE ~conn.alive
  <2>1. conn' = conn BY <1>2 DEF SendQuery, RequestStart
  <2> QED BY <1>1, <2>1, SameBut, LastingBut
<1>3. CASE conn.alive /\ SendQuery
  <2> DEFINE k == Head(todo)
             ro == "read_only" \in k.f
             inner == "inner" \in k.f
             begin == "begin" \in k.f /\ ~conn.inTrans
             consider == begin \/ (conn.inTrans /\ ~conn.err) \/ Head(k.q).op = "begin"
             queryRollback == "rollback_on_error" \in k.f /\ consider
                              /\ "end_with_commit" \notin k.f
             protect == ~queryRollback /\ consider /\ "stmt" \in k.f
                        /\ "end_with_commit" \notin k.f /\ ~conn.point
             c == IF protect THEN SetSvp(Head(k.q), ro, inner) ELSE conn
             prepend == c.op = "prepend" /\ ~begin /\ ~queryRollback
  <2>1. conn' = IF prepend THEN [c EXCEPT !.op = "savepoint"] ELSE c BY <1>3, Zenon DEF SendQuery
  <2>2. c = conn \/ c = SetSvp(Head(k.q), ro, inner) BY Zenon
  <2>3. PICK d : d = c OBVIOUS
  <2>5. ro \in BOOLEAN /\ inner \in BOOLEAN OBVIOUS
  <2> HIDE DEF c, prepend, ro, inner
  <2>4. conn' = d \/ conn' = [d EXCEPT !.op = "savepoint"] BY <2>1, <2>3
  <2>6. d \in Conns /\ d.mode = conn.mode /\ d.alive = conn.alive BY <1>1, <2>2, <2>3, <2>5, SameSvp
  <2> QED BY <1>1, <1>3, <2>4, <2>6, SvpShape
<1>4. CASE conn.alive /\ RequestStart
  <2> DEFINE c == IF conn.point THEN conn ELSE SetSvp(Head(Head(todo).q), FALSE, FALSE)
  <2>1. conn' = IF c.op = "prepend" THEN [c EXCEPT !.op = "savepoint"] ELSE c
    BY <1>4, Zenon DEF RequestStart
  <2>2. c = conn \/ c = SetSvp(Head(Head(todo).q), FALSE, FALSE) BY Zenon
  <2>3. PICK d : d = c OBVIOUS
  <2> HIDE DEF c
  <2>4. conn' = d \/ conn' = [d EXCEPT !.op = "savepoint"] BY <2>1, <2>3
  <2>5. d \in Conns /\ d.mode = conn.mode /\ d.alive = conn.alive BY <1>1, <2>2, <2>3, SameSvp
  <2> QED BY <1>1, <1>4, <2>4, <2>5, SvpShape
<1> QED BY <1>2, <1>3, <1>4
LEMMA EndLasts ==
  ASSUME IInv, UpdateStatus \/ EndTransact \/ CleanStatement
  PROVE  Lasting
<1>1. conn \in Conns BY TypesOf
<1>2. PICK a : a = OnAbortConn OBVIOUS
<1>3. a.mode = conn.mode /\ a.alive = conn.alive /\ ~a.acc BY <1>1, <1>2, Ended, AccReset DEF OnAbortConn
<1>4. conn' = a => Lasting BY <1>3 DEF Lasting
<1>5. CASE UpdateStatus
  <2>1. \/ conn' = conn \/ conn' = a \/ (conn.alive /\ conn' = OnCommitConn)
        \/ conn' = [conn EXCEPT !.inTrans = TRUE, !.err = FALSE]
        \/ conn' = [conn EXCEPT !.inTrans = TRUE, !.err = TRUE]
    <3>1. CASE conn.alive BY <1>2, <1>5, <3>1, UpdateIs
    <3>2. CASE ~conn.alive BY <1>5, <3>2 DEF UpdateStatus
    <3> QED BY <3>1, <3>2
  <2>2. conn' = OnCommitConn /\ conn.alive => Lasting
    <3>1. PICK d : d = StartStmt(SvpInit(NoTrans(conn))) OBVIOUS
    <3>2. d = a BY <1>2, <3>1 DEF OnAbortConn
    <3>3. OnCommitConn = conn \/ OnCommitConn = [d EXCEPT !.committing = TRUE] BY <3>1 DEF OnCommitConn
    <3>4. d \in Conns BY <1>1, <1>2, <3>2, OnAbort
    <3>5. [d EXCEPT !.committing = TRUE].mode = d.mode /\ [d EXCEPT !.committing = TRUE].alive = d.alive
      BY <3>4, SameBut DEF Same
    <3> QED BY <1>3, <3>2, <3>3, <3>5 DEF Lasting
  <2>3. (conn' = conn \/ \E x, y : conn' = [conn EXCEPT !.inTrans = x, !.err = y]) => Same(conn, conn')
    BY <1>1, SameBut, SameBut2, Zenon
  <2> QED BY <1>1, <1>4, <2>1, <2>2, <2>3, LastingBut
<1>6. CASE EndTransact
  <2>1. conn' = conn \/ conn' = a BY <1>2, <1>6 DEF EndTransact
  <2> QED BY <1>1, <1>4, <2>1, SameBut, LastingBut
<1>7. CASE CleanStatement
  <2>1. PICK b \in BOOLEAN : b <=> ~last.failed /\ conn.acc OBVIOUS
  <2>2. conn' = StartStmt(IF b THEN [conn EXCEPT !.prev = conn.prog, !.prog = TRUE] ELSE conn)
    BY <1>7, <2>1 DEF CleanStatement
  <2>3. ~conn'.acc BY <1>1, <2>2, CleanIs
  <2>4. conn'.mode = conn.mode /\ conn'.alive = conn.alive BY <1>1, <2>2 DEF Conns, StartStmt
  <2> QED BY <2>3, <2>4 DEF Lasting
<1> QED BY <1>5, <1>6, <1>7
LEMMA WireLasts ==
  ASSUME IInv, \/ WireOk \/ WireError \/ QueryRollback \/ ExecExtOk \/ ExecExtError \/ FinishExec
               \/ StatementRollback
  PROVE  Lasting
<1>1. conn \in Conns BY TypesOf
<1>2. CASE WireOk
  <2>1. PICK r : conn' = TagConn(Noticed(conn, r), Head(todo).f, r.tag) BY <1>2 DEF WireOk
  <2> QED BY <1>1, <2>1, SameTag, LastingBut
<1>3. CASE WireError
  <2>1. PICK x : conn' = [conn EXCEPT !.err = x, !.inTrans = TRUE, !.ignored = FALSE]
    BY <1>3 DEF WireError
  <2>2. Same(conn, conn') BY <1>1, <2>1, Zenon DEF Conns, Same
  <2> QED BY <1>1, <2>2, LastingBut
<1>4. CASE QueryRollback
  <2>1. conn' = conn \/ \E x : conn' = [conn EXCEPT !.ignored = FALSE, !.err = x]
    BY <1>4 DEF QueryRollback
  <2>2. Same(conn, conn') BY <1>1, <2>1, SameBut, SameBut2, SameBut3, Zenon
  <2> QED BY <1>1, <2>2, LastingBut
<1>5. CASE ExecExtOk
  <2>1. \/ conn' = [conn EXCEPT !.inTrans = FALSE, !.err = FALSE, !.manual = FALSE]
        \/ \E y : conn' = [conn EXCEPT !.inTrans = TRUE, !.manual = y]
    <3> DEFINE cmd == Head(Head(todo).q)
    <3>1. PICK r : conn' = IF r.srv.st = "IDLE"
                           THEN [conn EXCEPT !.inTrans = FALSE, !.err = FALSE, !.manual = FALSE]
                           ELSE [conn EXCEPT !.inTrans = TRUE,
                                             !.manual = @ \/ cmd.op \in {"begin", "start"}]
      BY <1>5, Zenon DEF ExecExtOk
    <3>2. PICK y : y = (conn.manual \/ cmd.op \in {"begin", "start"}) OBVIOUS
    <3>3. CASE r.srv.st = "IDLE" BY <3>1, <3>3, Zenon
    <3>4. CASE r.srv.st # "IDLE"
      <4>1. conn' = [conn EXCEPT !.inTrans = TRUE, !.manual = y] BY <3>1, <3>2, <3>4, Zenon
      <4> QED BY <4>1, Zenon
    <3> QED BY <3>3, <3>4
  <2>2. Same(conn, conn') BY <1>1, <2>1, Zenon DEF Conns, Same
  <2> QED BY <1>1, <2>2, LastingBut
<1>6. CASE ExecExtError
  <2>1. \E x, y : conn' = [conn EXCEPT !.err = x, !.ignored = y] BY <1>6 DEF ExecExtError
  <2>2. Same(conn, conn') BY <1>1, <2>1, SameBut, SameBut2, SameBut3, Zenon
  <2> QED BY <1>1, <2>2, LastingBut
<1>7. CASE FinishExec
  <2>1. conn' = conn \/ conn' = [conn EXCEPT !.manual = TRUE] BY <1>7 DEF FinishExec
  <2>2. Same(conn, conn') BY <1>1, <2>1, SameBut, SameBut2, SameBut3, Zenon
  <2> QED BY <1>1, <2>2, LastingBut
<1>8. CASE StatementRollback
  <2>1. conn' = conn \/ \E x : conn' = [conn EXCEPT !.ignored = x] BY <1>8 DEF StatementRollback
  <2>2. Same(conn, conn') BY <1>1, <2>1, SameBut, SameBut2, SameBut3, Zenon
  <2> QED BY <1>1, <2>2, LastingBut
<1> QED BY <1>2, <1>3, <1>4, <1>5, <1>6, <1>7, <1>8
LEMMA DriverLasts ==
  ASSUME IInv, Driver
  PROVE  Lasting \/ Losing
<1>1. CASE WireLost \/ ExecExtLost
  <2>1. LostConn BY <1>1 DEF WireLost, ExecExtLost, LostConn
  <2> QED BY <2>1, TypesOf, LostAcc
<1>2. CASE ~(WireLost \/ ExecExtLost) BY <1>2, StackLasts, SvpLasts, EndLasts, WireLasts DEF Driver
<1> QED BY <1>1, <1>2
LEMMA ApplicationLasts ==
  ASSUME IInv, Application
  PROVE  conn'.alive /\ conn'.mode = conn.mode
<1>1. conn \in Conns BY TypesOf
<1>2. CASE Reconnect
  <2>1. PICK c \in Conns : c = conn BY <1>1
  <2>2. PICK d : d = [c EXCEPT !.alive = TRUE, !.auto = TRUE, !.inTrans = FALSE, !.manual = FALSE,
                               !.err = FALSE, !.ignored = FALSE]
    OBVIOUS
  <2>3. d.alive /\ d.mode = c.mode BY <2>1, <2>2, AccConnected
  <2>4. conn' = d BY <1>2, <2>1, <2>2 DEF Reconnect
  <2> QED BY <2>1, <2>3, <2>4
<1>3. CASE ~Reconnect
  <2>1. conn.alive
    BY <1>3 DEF Application, ExecDirect, ExecPrepared, Catalog, OpenCursor, EndTran, SetAutocommit,
      FreePrepared, CloseCursor
  <2>2. conn' = conn \/ conn' = [conn EXCEPT !.ignored = FALSE]
    BY <1>3 DEF Application, ExecDirect, ExecPrepared, Catalog, OpenCursor, EndTran, SetAutocommit,
      FreePrepared, CloseCursor
  <2>3. Same(conn, conn') BY <1>1, <2>2, SameBut
  <2> QED BY <2>1, <2>3 DEF Same
<1> QED BY <1>2, <1>3
LEMMA DriverSafe ==
  ASSUME IInv, IInv', conn.alive, conn.mode = 2, SafeInv, Driver, conn'.alive
  PROVE  SafeInv'
<1>1. CASE SendQuery \/ WireOk \/ WireError \/ WireDone \/ QueryRollback
  BY <1>1, SendQuerySafe, WireSafe, WireDoneSafe, QueryRollbackSafe
<1>2. CASE UpdateStatus \/ ReturnResult \/ ClearCursor \/ Moved \/ DiscardAll
  BY <1>2, UpdateStatusSafe, ReturnResultSafe, ClearCursorSafe, MovedSafe, DiscardAllSafe
<1>3. CASE DiscardOne \/ DiscardFree \/ OnCommitEnd \/ CloseResult \/ Closed
  BY <1>3, DiscardOneSafe, DiscardFreeSafe, OnCommitEndSafe, CloseResultSafe, ClosedSafe
<1>4. CASE Begin \/ Commit \/ CloseEof \/ CommitSend \/ Abort
  BY <1>4, BeginSafe, CommitSafe, CloseEofSafe, CommitSendSafe, AbortSafe
<1>5. CASE Opened \/ RequestStart \/ SvpSent \/ ExecExtOk \/ ExecExtError
  BY <1>5, OpenedSafe, RequestStartSafe, SvpSentSafe, ExecExtOkSafe, ExecExtErrorSafe
<1>6. CASE FinishExec \/ EndStatement \/ StatementRollback \/ CleanStatement \/ EndTransact \/ FlipAutocommit
  BY <1>6, FinishExecSafe, EndStatementSafe, StatementRollbackSafe, CleanStatementSafe, EndTransactSafe,
    FlipAutocommitSafe
<1>7. ~(WireLost \/ ExecExtLost)
  <2>1. WireLost \/ ExecExtLost => LostConn BY DEF WireLost, ExecExtLost, LostConn
  <2>2. LostConn => ~conn'.alive BY TypesOf, LostAcc DEF Losing
  <2> QED BY <2>1, <2>2
<1> QED BY <1>1, <1>2, <1>3, <1>4, <1>5, <1>6, <1>7 DEF Driver
LEMMA AtomStart ==
  ASSUME Init
  PROVE  AInv
<1>1. todo = << >> /\ srv.st = "IDLE" /\ srv.w = 0 /\ srv.svps = << >> /\ ~last.failed /\ last.op = "none"
  BY DEF Init, NewServer
<1>2. ~conn.acc /\ ~conn.point /\ conn.op = "none" BY DEF Init
<1>3. \A t : ~Has(t) /\ ~Top(t)
  <2>1. All(todo) = {} BY <1>1, NoneSound
  <2> QED BY <1>1, <2>1 DEF Has, Top
<1>4. Blank /\ AccInv /\ PrevInv BY <1>1, <1>2 DEF Blank, AccInv, PrevInv, Wrote
<1>5. CatalogInv /\ WriteInv /\ ExtWriteInv BY <1>3 DEF CatalogInv, WriteInv, ExtWriteInv
<1>6. AtomInv BY <1>1 DEF AtomInv, Atom
<1> QED BY <1>2, <1>4, <1>5, <1>6 DEF AInv, SafeInv, CountInv
LEMMA AtomNext ==
  ASSUME IInv, IInv', Prudent, Cautious, AInv, [Next]_vars
  PROVE  AInv'
<1>1. CASE Application
  <2>1. conn'.alive /\ conn'.mode = conn.mode BY <1>1, ApplicationLasts
  <2>2. conn.mode = 2 => SafeInv' BY <1>1, ApplicationSafe
  <2> QED BY <2>1, <2>2 DEF AInv
<1>2. CASE Driver
  <2>1. Lasting \/ Losing BY <1>2, DriverLasts
  <2>2. ~conn'.alive => ~conn'.acc
    <3>1. CASE Losing BY <3>1 DEF Losing
    <3>2. CASE Lasting BY <3>2 DEF Lasting, AInv
    <3> QED BY <2>1, <3>1, <3>2
  <2>3. conn'.alive => conn.alive /\ conn'.mode = conn.mode BY <2>1 DEF Lasting, Losing
  <2>4. conn'.alive /\ conn'.mode = 2 => SafeInv' BY <1>2, <2>3, DriverSafe DEF AInv
  <2> QED BY <2>2, <2>4 DEF AInv
<1>3. CASE UNCHANGED vars
  <2>1. conn' = conn /\ srv' = srv /\ todo' = todo /\ last' = last /\ ret' = ret BY <1>3 DEF vars
  <2>2. ~conn.alive => ~conn'.acc BY <2>1 DEF AInv
  <2>3. SafeInv => SafeInv'
    BY <2>1 DEF SafeInv, CountInv, Blank, AccInv, PrevInv, CatalogInv, WriteInv, ExtWriteInv, AtomInv,
      Wrote, Undoing, Noted, Atom, Before, Shield, Shielded, Undone, Replied, Erring, Has, Top, H, Quiet,
      InUse, OnQuery, NoQuery, Ending, Busy
  <2> QED BY <2>1, <2>2, <2>3 DEF AInv
<1> QED BY <1>1, <1>2, <1>3 DEF Next
\* A call is over: what it did to the transaction is undone.
LEMMA AtomHolds ==
  ASSUME IInv, AInv
  PROVE  StatementAtomic
<1> SUFFICES ASSUME Quiet, conn.alive, conn.mode = 2, last.failed, last.op \in {"write", "open"},
                    last.st = "INTRANS", last.w > 0
             PROVE  srv.st = "INTRANS" /\ srv.w = last.w
  BY DEF StatementAtomic
<1>1. \A t : ~Has(t) /\ ~Top(t) BY QuietLive
<1>2. Undone BY <1>1 DEF AInv, SafeInv, AtomInv, Atom
<1> QED BY <1>1, <1>2 DEF Undone, InUse
\* With RollbackOnError = 2 a statement of the application that fails in a
\* transaction with earlier writes leaves the transaction in use and every one of
\* those writes in place, whatever queries the driver ran around it
\* (DiscardStatementSvp and CC_internal_rollback; docs/config.html:198).
THEOREM Atomic ==
  ASSUME Cautious
  PROVE  Spec => []StatementAtomic
<1>1. Prudent BY DEF Prudent, Cautious
<1>2. Spec => []IInv BY <1>1, Invariant
<1>3. Init => AInv BY AtomStart
<1>4. IInv /\ IInv' /\ AInv /\ [Next]_vars => AInv' BY <1>1, AtomNext
<1>5. IInv /\ AInv => StatementAtomic BY AtomHolds
<1> QED BY <1>2, <1>3, <1>4, <1>5, PTL DEF Spec
=============================================================================
