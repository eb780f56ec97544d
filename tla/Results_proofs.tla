---------------------------- MODULE Results_proofs ----------------------------
(***************************************************************************)
(* Proofs about the rows of a result and the columns of a row.             *)
(*                                                                         *)
(* RowCache: for results of any length, any window, any rowset, any        *)
(* sequence of fetches and a server that may refuse any command, the       *)
(* driver's picture of its cursor is true (CursorKnown); the rows of the   *)
(* rowset that was delivered stay in memory where the driver looks for     *)
(* them (RowsetCached); and the calls are those of Scroll (Transparent).   *)
(* The last two are about applications without the habits of Risky.  First *)
(* comes the cursor (IInv), then the window that hangs on it (WInv).       *)
(*                                                                         *)
(* GetData: SQLGetData hands out a value in pieces.  For any result, any   *)
(* buffers, bindings and descriptors, every piece goes on where the one    *)
(* before it ended, a value is complete when the driver says so, and each  *)
(* piece is written where the application asked for it.                    *)
(***************************************************************************)
EXTENDS RowCache, GetData, TLAPS

--------------------
(* The inductive invariant.                                                *)

StmtFields == {"rowset_start", "currTuple", "save", "fetchcursor", "forward", "fetch_max"}
ResFields == {"open", "cursor", "cached", "dataFilled", "num_total_read", "eof", "cursTuple", "base",
              "valid", "fetch_number", "reqsize", "moving", "move_offset", "chain"}
SrvFields == {"n", "pos", "alive"}
CallFields == {"pc", "o", "k", "size", "rows", "refused", "prev", "offset"}

StmtType ==
  /\ stmt = [f \in StmtFields |-> stmt[f]]
  /\ stmt.rowset_start \in Int /\ stmt.currTuple \in Int /\ stmt.save \in Int /\ stmt.fetch_max \in Nat

ResultType(r) ==
  /\ r = [f \in ResFields |-> r[f]]
  /\ r.cached \in Seq(Int)
  /\ r.num_total_read \in Int /\ r.cursTuple \in Int /\ r.base \in Int /\ r.fetch_number \in Int
  /\ r.reqsize \in Nat /\ r.move_offset \in Nat

SrvType ==
  /\ srv = [f \in SrvFields |-> srv[f]]
  /\ srv.n \in Nat /\ srv.pos \in 0..(srv.n + 1)

CallType ==
  /\ call = [f \in CallFields |-> call[f]]
  /\ call.o \in Orientations
  /\ call.k \in Int /\ call.size \in Nat /\ call.prev \in Int /\ call.offset \in Int

Types == StmtType /\ ResultType(res) /\ SrvType /\ CallType

\* The picture is true, and stays so when the server refuses a command.  No more rows
\* are counted than there are, and as long as the end was not seen the cursor has not
\* run over it.
Pictured(r, v) ==
  /\ r.cursor => r.cursTuple = v.pos - 1
  /\ r.open => r.num_total_read \in 0..v.n
  /\ (r.open /\ r.eof) => r.num_total_read = v.n
  /\ (r.cursor /\ ~r.eof) => v.pos <= v.n

\* A call moves or fetches only while the result has its cursor.
Underway ==
  /\ res.cursor => res.open
  /\ call.pc = "fill" => res.cursor
  /\ call.pc = "last" => res.cursor /\ ~res.eof

IInv == Types /\ Pictured(res, srv) /\ Underway

--------------------
(* The cursor, moved and fetched from.                                     *)

\* MovedBy in the two directions.
GoneBack(wide) ==
  IF PassedBack(wide) < wide /\ (PassedBack(wide) > 0 \/ res.cursTuple >= 0)
  THEN PassedBack(wide) + 1 ELSE PassedBack(wide)

GoneForward(wide) ==
  IF Passed(wide) < wide /\ (Passed(wide) > 0 \/ ~(res.eof /\ res.cursTuple >= res.num_total_read))
  THEN Passed(wide) + 1 ELSE Passed(wide)

\* The distance that QR_next_tuple works out from the server's answer to MOVE
\* BACKWARD is the one the cursor went, also over the first row.
LEMMA MovesBack ==
  ASSUME Types, Pictured(res, srv), res.cursor, NEW wide \in Nat
  PROVE  GoneBack(wide) = srv.pos - Backward(wide).pos
<1>1. srv.n \in Nat /\ srv.pos \in 0..(srv.n + 1) /\ res.cursTuple = srv.pos - 1
  BY DEF Types, SrvType, Pictured
<1>2. Backward(wide).pos = IF wide > srv.pos THEN 0 ELSE srv.pos - wide
  BY DEF Types, SrvType, Backward, SrvFields
<1>3. CASE srv.pos > 0 /\ wide <= srv.pos - 1
  <2>1. PassedBack(wide) = wide BY <1>1, <1>3 DEF PassedBack, Lesser
  <2>2. GoneBack(wide) = wide BY <2>1 DEF GoneBack
  <2> QED BY <1>1, <1>2, <1>3, <2>2
<1>4. CASE srv.pos = 0
  <2>1. PassedBack(wide) = 0 BY <1>1, <1>4 DEF PassedBack, Lesser
  <2>2. GoneBack(wide) = 0 BY <1>1, <1>4, <2>1 DEF GoneBack
  <2>3. Backward(wide).pos = 0
    <3>1. CASE wide > srv.pos BY <1>2, <3>1
    <3>2. CASE wide = 0 BY <1>2, <1>4, <3>2
    <3> QED BY <1>4, <3>1, <3>2
  <2> QED BY <1>4, <2>2, <2>3
<1>5. CASE srv.pos > 0 /\ wide > srv.pos - 1
  <2>1. PassedBack(wide) = srv.pos - 1 BY <1>1, <1>5 DEF PassedBack, Lesser
  <2>2. GoneBack(wide) = srv.pos BY <1>1, <1>5, <2>1 DEF GoneBack
  <2> QED BY <1>1, <1>2, <1>5, <2>2
<1> QED BY <1>1, <1>3, <1>4, <1>5

\* Where the server's cursor is after a MOVE.
LEMMA GoesTo ==
  ASSUME SrvType, NEW wide \in Nat
  PROVE  /\ Backward(wide) = [srv EXCEPT !.pos = Backward(wide).pos]
         /\ Backward(wide).pos \in 0..srv.pos
         /\ Forward(wide) = [srv EXCEPT !.pos = Forward(wide).pos]
         /\ Forward(wide).pos \in srv.pos..(srv.n + 1)
<1>1. Backward(wide).pos = IF wide > srv.pos THEN 0 ELSE srv.pos - wide
  BY DEF SrvType, Backward, SrvFields
<1>2. Forward(wide).pos = Lesser(srv.n + 1, srv.pos + wide) BY DEF SrvType, Forward, SrvFields
<1>3. srv.n \in Nat /\ srv.pos \in 0..(srv.n + 1) BY DEF SrvType
<1>4. Backward(wide).pos \in 0..srv.pos BY <1>1, <1>3
<1>5. Forward(wide).pos \in srv.pos..(srv.n + 1) BY <1>2, <1>3 DEF Lesser
<1>6. Backward(wide) = [srv EXCEPT !.pos = Backward(wide).pos] BY <1>1 DEF Backward
<1>7. Forward(wide) = [srv EXCEPT !.pos = Forward(wide).pos] BY <1>2 DEF Forward, Lesser
<1> QED BY <1>4, <1>5, <1>6, <1>7

\* An answer that counts fewer rows than were asked for means that the cursor ran
\* over the last one; otherwise it went as far as the answer says.
LEMMA RunsOver ==
  ASSUME SrvType, NEW wide \in Nat, srv.pos <= srv.n
  PROVE  /\ Passed(wide) \in 0..wide
         /\ Passed(wide) < wide => /\ Passed(wide) = srv.n - srv.pos
                                   /\ Forward(wide).pos = srv.n + 1
         /\ Passed(wide) = wide => Forward(wide).pos = srv.pos + wide /\ Forward(wide).pos <= srv.n
<1>1. Forward(wide).pos = Lesser(srv.n + 1, srv.pos + wide) BY DEF SrvType, Forward, SrvFields
<1>2. srv.n \in Nat /\ srv.pos \in 0..(srv.n + 1) BY DEF SrvType
<1> QED BY <1>1, <1>2 DEF Passed, Lesser

\* Behind the last row nothing is counted and nothing moves.
LEMMA Behind ==
  ASSUME SrvType, NEW wide \in Nat, srv.pos > srv.n
  PROVE  Passed(wide) = 0 /\ Forward(wide).pos = srv.n + 1
<1>1. Forward(wide).pos = Lesser(srv.n + 1, srv.pos + wide) BY DEF SrvType, Forward, SrvFields
<1>2. srv.n \in Nat /\ srv.pos \in 0..(srv.n + 1) BY DEF SrvType
<1> QED BY <1>1, <1>2 DEF Passed, Lesser

\* The distance of a MOVE forward is the one the cursor went.
LEMMA MovesForward ==
  ASSUME Types, Pictured(res, srv), res.cursor, res.open, NEW wide \in Nat
  PROVE  GoneForward(wide) = Forward(wide).pos - srv.pos
<1>1. /\ srv.n \in Nat /\ srv.pos \in 0..(srv.n + 1) /\ res.cursTuple = srv.pos - 1
      /\ res.eof => res.num_total_read = srv.n
      /\ ~res.eof => srv.pos <= srv.n
  BY DEF Types, SrvType, Pictured
<1>2. SrvType BY DEF Types
<1>3. CASE srv.pos > srv.n
  <2>1. Passed(wide) = 0 /\ Forward(wide).pos = srv.n + 1 BY <1>2, <1>3, Behind
  <2>2. GoneForward(wide) = 0 BY <1>1, <1>3, <2>1 DEF GoneForward
  <2> QED BY <1>1, <1>3, <2>1, <2>2
<1>4. CASE srv.pos <= srv.n
  <2>1. /\ Passed(wide) \in 0..wide
        /\ Passed(wide) < wide => Passed(wide) = srv.n - srv.pos /\ Forward(wide).pos = srv.n + 1
        /\ Passed(wide) = wide => Forward(wide).pos = srv.pos + wide
    BY <1>2, <1>4, RunsOver
  <2>2. CASE Passed(wide) = wide
    <3>1. GoneForward(wide) = wide BY <2>2 DEF GoneForward
    <3> QED BY <1>1, <2>1, <2>2, <3>1
  <2>3. CASE Passed(wide) < wide
    <3>1. GoneForward(wide) = srv.n - srv.pos + 1 BY <1>1, <1>4, <2>1, <2>3 DEF GoneForward
    <3> QED BY <1>1, <2>1, <2>3, <3>1
  <2> QED BY <2>1, <2>2, <2>3
<1> QED BY <1>1, <1>3, <1>4

--------------------
(* Types.                                                                  *)

\* A step that leaves the cursor and the end alone leaves the picture true.
Kept ==
  /\ srv' = srv
  /\ \A f \in {"open", "cursor", "eof", "num_total_read", "cursTuple"} : res'[f] = res[f]

LEMMA KeptPictured ==
  ASSUME Pictured(res, srv), Kept
  PROVE  Pictured(res, srv)'
<1>1. /\ srv' = srv /\ res'.open = res.open /\ res'.cursor = res.cursor /\ res'.eof = res.eof
      /\ res'.num_total_read = res.num_total_read /\ res'.cursTuple = res.cursTuple
  BY DEF Kept
<1> QED BY <1>1 DEF Pictured

\* The switch on the orientation answers an index.
LEMMA TargetType ==
  ASSUME Types
  PROVE  Target \in Int /\ NumTuples \in Int
<1>1. /\ stmt.rowset_start \in Int /\ call.k \in Int /\ call.size \in Nat /\ call.prev \in Int
      /\ call.o \in Orientations /\ res.num_total_read \in Int
  BY DEF Types, StmtType, CallType, ResultType
<1>2. NumTuples \in Int BY <1>1, FitsAssumption DEF NumTuples, QR_get_num_total_tuples
<1>3. Before \in Int BY <1>1 DEF Before, BOF
<1>4. NextStart \in Int BY <1>1 DEF NextStart
<1>5. PriorStart \in Int BY <1>1, <1>2, <1>3 DEF PriorStart
<1>6. LastStart \in Int
  BY <1>1, <1>3, FitsAssumption DEF LastStart, FromEnd, getNthValid, QR_get_num_total_tuples
<1>7. AbsoluteStart \in Int
  BY <1>1, <1>3, FitsAssumption DEF AbsoluteStart, FromEnd, FromStart, getNthValid, QR_get_num_total_tuples
<1>8. RelativeStart \in Int
  BY <1>1, <1>3, FitsAssumption DEF RelativeStart, FromEnd, FromStart, getNthValid, QR_get_num_total_tuples
<1>9. BookmarkStart \in Int
  BY <1>1, <1>3, FitsAssumption DEF BookmarkStart, FromStart, getNthValid, QR_get_num_total_tuples
<1>10. Target \in Int BY <1>1, <1>4, <1>5, <1>6, <1>7, <1>8, <1>9 DEF Target, Orientations
<1> QED BY <1>2, <1>10

--------------------
(* The actions.                                                            *)

\* What Execute and PGAPI_MoreResults say of a new result is true.
LEMMA AnswerPictured ==
  ASSUME NEW k \in Nat, NEW cursor \in BOOLEAN, NEW first \in Nat, NEW r,
         r = Answer(k, cursor, first), cursor => first > 0
  PROVE  /\ ResultType(r)
         /\ r.open
         /\ r.cursor = cursor
         /\ cursor => r.cursTuple = Lesser(first, k + 1) - 1
         /\ r.eof => r.num_total_read = k
         /\ ~r.eof => Lesser(first, k + 1) <= k
         /\ r.num_total_read \in 0..k
         /\ ~cursor => r.eof
<1> DEFINE got   == IF cursor THEN Lesser(k, first) ELSE k
           short == cursor /\ got < first
<1>1. /\ r.cached = [i \in 1..got |-> i] /\ r.num_total_read = got
      /\ r.cursTuple = (IF short THEN got ELSE IF cursor THEN got - 1 ELSE -1)
      /\ r.base = 0 /\ r.fetch_number = 0 /\ r.reqsize = 0 /\ r.move_offset = 0
  BY DEF Answer, NoResult
<1>2. r.open /\ r.cursor = cursor /\ r.eof = (short \/ ~cursor) BY DEF Answer, NoResult
<1>3. r = [f \in ResFields |-> r[f]] BY DEF Answer, NoResult, ResFields
<1>4. got \in Nat BY DEF Lesser
<1>5. r.cached \in Seq(Int) BY <1>1, <1>4
<1>6. ResultType(r) BY <1>1, <1>3, <1>4, <1>5 DEF ResultType
<1>7. CASE cursor
  <2>1. /\ r.num_total_read = Lesser(k, first)
        /\ r.cursTuple = (IF Lesser(k, first) < first THEN Lesser(k, first) ELSE Lesser(k, first) - 1)
    BY <1>1, <1>7
  <2>2. r.eof <=> Lesser(k, first) < first BY <1>2, <1>7
  <2>3. first \in Nat \ {0} BY <1>7
  <2>4. r.cursTuple = Lesser(first, k + 1) - 1 BY <2>1, <2>3 DEF Lesser
  <2>5. r.eof => r.num_total_read = k BY <2>1, <2>2, <2>3 DEF Lesser
  <2>6. (~r.eof => Lesser(first, k + 1) <= k) /\ r.num_total_read \in 0..k BY <2>1, <2>2, <2>3 DEF Lesser
  <2> QED BY <1>2, <1>6, <1>7, <2>4, <2>5, <2>6
<1>8. CASE ~cursor
  <2>1. r.num_total_read = k /\ r.eof /\ ~r.cursor BY <1>1, <1>2, <1>8, Zenon
  <2>2. r.num_total_read \in 0..k BY <2>1
  <2> QED BY <1>2, <1>6, <1>8, <2>1, <2>2, Zenon
<1> QED BY <1>7, <1>8

LEMMA BeginKeeps ==
  ASSUME IInv, NEW o \in Orientations, NEW k \in Int, NEW size \in Nat, Begin(o, k, size)
  PROVE  IInv'
<1>1. /\ StmtType /\ ResultType(res) /\ SrvType /\ CallType /\ Pictured(res, srv) /\ Underway
      /\ UNCHANGED <<stmt, srv, seen>>
      /\ res' = [res EXCEPT !.moving = 0, !.move_offset = 0]
      /\ call' = [Idle EXCEPT !.pc = IF MovesToLast(o, k) THEN "last" ELSE "position",
                          !.o = o, !.k = k, !.size = size, !.prev = stmt.save]
  BY DEF IInv, Types, Begin
<1>2. StmtType' /\ SrvType' BY <1>1 DEF StmtType, SrvType
<1>3. ResultType(res)' /\ Kept BY <1>1 DEF ResultType, Kept, ResFields
<1>4. CallType'
  <2>1. call' = [f \in CallFields |-> call'[f]] BY <1>1 DEF CallFields, Idle
  <2>2. /\ call'.o = o /\ call'.k = k /\ call'.size = size /\ call'.prev = stmt.save /\ call'.offset = 0
    BY <1>1 DEF Idle
  <2>3. stmt.save \in Int BY <1>1 DEF StmtType
  <2> QED BY <2>1, <2>2, <2>3 DEF CallType
<1>5. Pictured(res, srv)' BY <1>1, <1>3, KeptPictured
<1>6. call'.pc = "last" => res.cursor /\ ~res.eof BY <1>1 DEF MovesToLast, Idle
<1>7. call'.pc # "fill" BY <1>1 DEF Idle
<1>8. Underway' BY <1>1, <1>3, <1>6, <1>7 DEF Underway, Kept
<1> QED BY <1>2, <1>3, <1>4, <1>5, <1>8 DEF IInv, Types

LEMMA ExecuteKeeps ==
  ASSUME IInv, Execute
  PROVE  IInv'
<1>1. PICK k \in 0..MaxRows, cursor, forward \in BOOLEAN, f \in FetchMax, chain \in {0, 1} :
        /\ IF cursor THEN chain = 0 ELSE f = CHOOSE g \in FetchMax : TRUE
        /\ stmt' = [Fresh(stmt) EXCEPT !.fetchcursor = cursor, !.forward = forward, !.fetch_max = f]
        /\ res' = [Answer(k, cursor, f) EXCEPT !.chain = chain]
        /\ srv' = [n |-> k, pos |-> IF cursor THEN Lesser(f, k + 1) ELSE 0, alive |-> TRUE]
        /\ seen' = [Nothing EXCEPT !.n = k]
  BY Zenon DEF Execute
<1>2. /\ StmtType /\ CallType /\ call' = call /\ call.pc = "idle"
      /\ k \in Nat /\ f \in Nat \ {0} /\ cursor \in BOOLEAN
  BY SizeAssumption, FetchAssumption DEF IInv, Types, Execute
<1>3. StmtType'
  <2>1. stmt' = [f1 \in StmtFields |-> stmt'[f1]] BY <1>1, <1>2 DEF StmtType, StmtFields, Fresh
  <2>2. stmt'.rowset_start = -1 /\ stmt'.currTuple = -1 /\ stmt'.save = stmt.save /\ stmt'.fetch_max = f
    BY <1>1, <1>2 DEF StmtType, StmtFields, Fresh
  <2> QED BY <1>2, <2>1, <2>2 DEF StmtType
<1>4. PICK r : r = Answer(k, cursor, f) OBVIOUS
<1>5. /\ ResultType(r) /\ r.open /\ r.cursor = cursor
      /\ cursor => r.cursTuple = Lesser(f, k + 1) - 1
      /\ r.eof => r.num_total_read = k
      /\ ~r.eof => Lesser(f, k + 1) <= k
      /\ r.num_total_read \in 0..k
  <2>1. cursor => f > 0 BY <1>2
  <2>2. k \in Nat /\ f \in Nat /\ cursor \in BOOLEAN BY <1>2
  <2> QED BY <1>4, <2>1, <2>2, AnswerPictured
<1>6. res' = [r EXCEPT !.chain = chain] BY <1>1, <1>4
<1>7. ResultType(res)' BY <1>5, <1>6 DEF ResultType, ResFields
<1>8. /\ res'.open /\ res'.cursor = cursor /\ res'.cursTuple = r.cursTuple /\ res'.eof = r.eof
      /\ res'.num_total_read = r.num_total_read
  BY <1>5, <1>6 DEF ResultType, ResFields
<1>9. /\ srv' = [f1 \in SrvFields |-> srv'[f1]]
      /\ srv'.n = k /\ srv'.pos = IF cursor THEN Lesser(f, k + 1) ELSE 0
  BY <1>1 DEF SrvFields
<1>10. SrvType'
  <2>1. srv'.pos \in 0..(k + 1) BY <1>2, <1>9 DEF Lesser
  <2> QED BY <1>2, <1>9, <2>1 DEF SrvType
<1>11. Pictured(res, srv)'
  <2>1. res'.cursor => res'.cursTuple = srv'.pos - 1 BY <1>5, <1>8, <1>9
  <2>2. res'.eof => res'.num_total_read = srv'.n BY <1>5, <1>8, <1>9
  <2>3. res'.cursor /\ ~res'.eof => srv'.pos <= srv'.n BY <1>5, <1>8, <1>9
  <2>4. res'.num_total_read \in 0..srv'.n BY <1>5, <1>8, <1>9
  <2> QED BY <2>1, <2>2, <2>3, <2>4 DEF Pictured
<1>12. CallType' /\ Underway' BY <1>2, <1>8 DEF CallType, Underway
<1> QED BY <1>3, <1>7, <1>10, <1>11, <1>12 DEF IInv, Types

\* Closing the cursor leaves the rest of the result.
ShutWith(r, no) == [r EXCEPT !.cursor = no, !.cursTuple = -1]
Shut(r) == [r EXCEPT !.cursor = FALSE, !.cursTuple = -1]

LEMMA ClosedWith ==
  ASSUME NEW r, ResultType(r), NEW no
  PROVE  /\ ResultType(ShutWith(r, no)) /\ ShutWith(r, no).cursor = no
         /\ ShutWith(r, no).open = r.open /\ ShutWith(r, no).eof = r.eof
         /\ ShutWith(r, no).num_total_read = r.num_total_read
<1> DEFINE q == ShutWith(r, no)
<1>1. q = [f \in ResFields |-> q[f]] BY DEF ResultType, ResFields, ShutWith
<1>2. q.cursor = no /\ q.cursTuple = -1 BY DEF ResultType, ResFields, ShutWith
<1>3. \A f \in ResFields \ {"cursor", "cursTuple"} : q[f] = r[f] BY DEF ResultType, ResFields, ShutWith
<1> HIDE DEF q
<1>4. /\ q.open = r.open /\ q.eof = r.eof /\ q.num_total_read = r.num_total_read
      /\ q.cached = r.cached /\ q.base = r.base /\ q.fetch_number = r.fetch_number
      /\ q.reqsize = r.reqsize /\ q.move_offset = r.move_offset
  BY <1>3 DEF ResFields
<1>5. ResultType(q)
  <2>1. /\ q.cached \in Seq(Int) /\ q.num_total_read \in Int /\ q.base \in Int
        /\ q.fetch_number \in Int /\ q.reqsize \in Nat /\ q.move_offset \in Nat
    BY <1>4 DEF ResultType
  <2>2. q.cursTuple \in Int BY <1>2
  <2> QED BY <1>1, <2>1, <2>2, Zenon DEF ResultType
<1> QED BY <1>2, <1>4, <1>5, Zenon DEF q

LEMMA Closed ==
  ASSUME NEW r, ResultType(r)
  PROVE  /\ ResultType(Shut(r)) /\ ~Shut(r).cursor
         /\ Shut(r).open = r.open /\ Shut(r).eof = r.eof
         /\ Shut(r).num_total_read = r.num_total_read
<1>1. PICK no : no = FALSE /\ Shut(r) = ShutWith(r, no) BY Zenon DEF Shut, ShutWith
<1>2. /\ ResultType(ShutWith(r, no)) /\ ShutWith(r, no).cursor = no
      /\ ShutWith(r, no).open = r.open /\ ShutWith(r, no).eof = r.eof
      /\ ShutWith(r, no).num_total_read = r.num_total_read
  BY ClosedWith
<1> QED BY <1>1, <1>2, Zenon

LEMMA RollbackKeeps ==
  ASSUME IInv, Rollback
  PROVE  IInv'
<1>1. /\ StmtType /\ CallType /\ ResultType(res) /\ SrvType /\ Underway /\ Pictured(res, srv)
      /\ stmt' = stmt /\ call' = call /\ call.pc = "idle"
      /\ res' = Shut(res)
      /\ srv' = [srv EXCEPT !.alive = FALSE]
  BY Zenon DEF IInv, Types, Rollback, Shut
<1>2. srv'.n = srv.n /\ srv'.pos = srv.pos /\ SrvType' BY <1>1 DEF SrvType, SrvFields
<1>3. /\ ResultType(res)' /\ ~res'.cursor
      /\ res'.open = res.open /\ res'.eof = res.eof /\ res'.num_total_read = res.num_total_read
  BY <1>1, Closed
<1>4. StmtType' /\ CallType' /\ Underway' BY <1>1, <1>3 DEF StmtType, CallType, Underway
<1>5. Pictured(res, srv)' BY <1>1, <1>2, <1>3 DEF Pictured
<1> QED BY <1>2, <1>3, <1>4, <1>5 DEF IInv, Types

LEMMA MoreResultsKeeps ==
  ASSUME IInv, PGAPI_MoreResults
  PROVE  IInv'
<1>1. /\ StmtType /\ CallType /\ call' = call /\ call.pc = "idle" /\ stmt' = Fresh(stmt)
  BY DEF IInv, Types, PGAPI_MoreResults
<1>2. StmtType'
  <2>1. stmt' = [f1 \in StmtFields |-> stmt'[f1]] BY <1>1 DEF StmtType, StmtFields, Fresh
  <2>2. /\ stmt'.rowset_start = -1 /\ stmt'.currTuple = -1
        /\ stmt'.save = stmt.save /\ stmt'.fetch_max = stmt.fetch_max
    BY <1>1 DEF StmtType, StmtFields, Fresh
  <2> QED BY <1>1, <2>1, <2>2 DEF StmtType
<1>3. CallType' BY <1>1 DEF CallType
<1>4. CASE res.chain = 1
  <2>1. PICK k \in 0..MaxRows : /\ res' = Answer(k, FALSE, 0)
                                /\ srv' = [n |-> k, pos |-> 0, alive |-> TRUE]
    <3>1. res.chain # 0 BY <1>4
    <3> QED BY <3>1, Zenon DEF PGAPI_MoreResults
  <2>2. k \in Nat BY SizeAssumption
  <2>3. /\ ResultType(res') /\ res'.open /\ ~res'.cursor /\ (res'.eof => res'.num_total_read = k)
        /\ res'.num_total_read \in 0..k
    <3>1. \A b \in BOOLEAN : ~b => /\ ResultType(Answer(k, b, 0)) /\ Answer(k, b, 0).open
                                   /\ Answer(k, b, 0).cursor = b
                                   /\ Answer(k, b, 0).num_total_read \in 0..k
                                   /\ Answer(k, b, 0).eof => Answer(k, b, 0).num_total_read = k
      BY <2>2, AnswerPictured
    <3> QED BY <2>1, <3>1
  <2>4. SrvType' /\ srv'.n = k BY <2>1, <2>2 DEF SrvType, SrvFields
  <2> QED BY <1>1, <1>2, <1>3, <2>3, <2>4 DEF IInv, Types, Pictured, Underway, ResultType
<1>5. CASE res.chain = 0
  <2>1. res' = NoResult /\ srv' = [n |-> 0, pos |-> 0, alive |-> FALSE] BY <1>5 DEF PGAPI_MoreResults
  <2>2. ResultType(res)' BY <2>1 DEF ResultType, NoResult, ResFields
  <2>3. ~res'.open /\ ~res'.cursor BY <2>1 DEF NoResult
  <2>4. SrvType' BY <2>1 DEF SrvType, SrvFields
  <2> QED BY <1>1, <1>2, <1>3, <2>2, <2>3, <2>4 DEF IInv, Types, Pictured, Underway
<1> QED BY <1>4, <1>5 DEF PGAPI_MoreResults

\* What is left to show of a step that does not touch the cursor.
LEMMA SameCursor ==
  ASSUME IInv, Kept, StmtType', ResultType(res)', CallType', call'.pc \notin {"fill", "last"}
  PROVE  IInv'
<1>1. SrvType' /\ Pictured(res, srv)' BY KeptPictured DEF IInv, Types, Kept, SrvType
<1>2. Underway' BY DEF IInv, Underway, Kept
<1> QED BY <1>1, <1>2 DEF IInv, Types

\* The server refuses a command, and moves nothing.
LEMMA RefuseTypes ==
  ASSUME SrvType, CallType, NEW to, Refuse(to)
  PROVE  SrvType' /\ srv'.n = srv.n /\ srv'.pos = srv.pos /\ CallType' /\ call'.pc = to
<1>1. SrvType' /\ srv'.n = srv.n /\ srv'.pos = srv.pos BY DEF SrvType, SrvFields, Refuse
<1>2. call' = [f \in CallFields |-> call'[f]] BY DEF CallType, CallFields, Refuse
<1>3. /\ call'.pc = to /\ call'.o = call.o /\ call'.k = call.k /\ call'.size = call.size
      /\ call'.prev = call.prev /\ call'.offset = call.offset
  BY DEF CallType, CallFields, Refuse
<1>4. CallType' BY <1>2, <1>3 DEF CallType
<1> QED BY <1>1, <1>3, <1>4

LEMMA MoveToLastKeeps ==
  ASSUME IInv, QR_move_cursor_to_last
  PROVE  IInv'
<1>1. /\ StmtType /\ ResultType(res) /\ SrvType /\ CallType /\ Pictured(res, srv) /\ stmt' = stmt
      /\ res.cursor /\ ~res.eof /\ res.open
  BY DEF IInv, Types, Underway, QR_move_cursor_to_last
<1>2. StmtType' BY <1>1 DEF StmtType
<1>3. CASE /\ srv.alive
           /\ srv' = Forward(srv.n + 1)
           /\ res' = [res EXCEPT !.cursTuple = @ + (Passed(srv.n) + 1), !.eof = TRUE,
                                 !.num_total_read = res.cursTuple + (Passed(srv.n) + 1)]
           /\ call' = [call EXCEPT !.pc = "position"]
  <2>1. srv.n \in Nat /\ srv.pos \in 0..srv.n /\ res.cursTuple = srv.pos - 1
    BY <1>1, <1>3 DEF SrvType, Pictured
  <2>2. Passed(srv.n) = srv.n - srv.pos BY <2>1 DEF Passed, Lesser
  <2>3. srv' = [srv EXCEPT !.pos = srv.n + 1] BY <1>3, <2>1 DEF Forward, Lesser
  <2>4. SrvType' /\ srv'.n = srv.n /\ srv'.pos = srv.n + 1 BY <1>1, <2>1, <2>3 DEF SrvType, SrvFields
  <2>5. res.cursTuple + (Passed(srv.n) + 1) = srv.n BY <2>1, <2>2
  <2>6. PICK yes : yes = TRUE /\ res' = [res EXCEPT !.cursTuple = srv.n, !.eof = yes, !.num_total_read = srv.n]
    BY <1>3, <2>5
  <2>7. res'.cursTuple = srv.n /\ res'.num_total_read = srv.n /\ res'.open = res.open
    BY <1>1, <2>6 DEF ResultType, ResFields
  <2>8. res' = [f \in ResFields |-> res'[f]] BY <1>1, <2>6 DEF ResultType, ResFields
  <2>9. res'.eof = yes BY <1>1, <2>6 DEF ResultType, ResFields
  <2>10. /\ res'.cached = res.cached /\ res'.base = res.base /\ res'.fetch_number = res.fetch_number
         /\ res'.reqsize = res.reqsize /\ res'.move_offset = res.move_offset
    BY <1>1, <2>6 DEF ResultType, ResFields
  <2>11. ResultType(res)'
    <3>1. /\ res'.cached \in Seq(Int) /\ res'.num_total_read \in Int /\ res'.base \in Int
          /\ res'.fetch_number \in Int /\ res'.reqsize \in Nat /\ res'.move_offset \in Nat
      BY <1>1, <2>1, <2>7, <2>10 DEF ResultType
    <3>2. res'.cursTuple \in Int BY <2>1, <2>7
    <3> QED BY <2>8, <3>1, <3>2, Zenon DEF ResultType
  <2>12. Pictured(res, srv)' BY <2>1, <2>4, <2>6, <2>7, <2>9 DEF Pictured
  <2>13. CallType' /\ call'.pc = "position" BY <1>1, <1>3 DEF CallType, CallFields
  <2>14. Underway' BY <1>1, <2>7, <2>13 DEF Underway
  <2> QED BY <1>2, <2>4, <2>11, <2>12, <2>13, <2>14 DEF IInv, Types
<1>4. CASE Refuse("position") /\ UNCHANGED res
  <2>1. SrvType' /\ srv'.n = srv.n /\ srv'.pos = srv.pos /\ CallType' /\ call'.pc = "position"
    BY <1>1, <1>4, RefuseTypes
  <2>2. ResultType(res)' /\ Pictured(res, srv)' /\ Underway'
    BY <1>1, <1>4, <2>1 DEF ResultType, Pictured, Underway
  <2> QED BY <1>2, <2>1, <2>2 DEF IInv, Types
<1> QED BY <1>3, <1>4, Zenon DEF QR_move_cursor_to_last

LEMMA Placed ==
  ASSUME Types, NEW place \in Int, SC_set_rowset_start(place), srv' = srv
  PROVE  StmtType' /\ ResultType(res)' /\ Kept
<1>1. /\ StmtType /\ ResultType(res) /\ stmt.rowset_start \in Int /\ res.base \in Int /\ call.size \in Nat
  BY DEF Types, StmtType, ResultType, CallType
<1>2. PICK base, yes : /\ base \in Int
                       /\ res' = [res EXCEPT !.base = base, !.valid = yes, !.reqsize = call.size]
  <2> DEFINE base == IF ~stmt.fetchcursor THEN place
                     ELSE IF res.valid THEN res.base + place - stmt.rowset_start
                     ELSE IF place < 0 THEN -1 ELSE place
  <2>1. base \in Int BY <1>1
  <2>2. res' = [res EXCEPT !.base = base, !.valid = TRUE, !.reqsize = call.size]
    BY DEF SC_set_rowset_start
  <2> HIDE DEF base
  <2> QED BY <2>1, <2>2, Zenon
<1>3. StmtType'
  <2>1. stmt' = [stmt EXCEPT !.rowset_start = place, !.currTuple = place - 1, !.save = -1]
    BY DEF SC_set_rowset_start
  <2>2. stmt' = [f \in StmtFields |-> stmt'[f]] BY <1>1, <2>1 DEF StmtType, StmtFields
  <2>3. /\ stmt'.rowset_start = place /\ stmt'.currTuple = place - 1 /\ stmt'.save = -1
        /\ stmt'.fetch_max = stmt.fetch_max
    BY <1>1, <2>1 DEF StmtType, StmtFields
  <2>4. stmt.fetch_max \in Nat BY <1>1 DEF StmtType
  <2> QED BY <2>2, <2>3, <2>4 DEF StmtType
<1>4. \A f \in ResFields \ {"base", "valid", "reqsize"} : res'[f] = res[f]
  BY <1>1, <1>2 DEF ResultType, ResFields
<1>5. res'.base = base /\ res'.reqsize = call.size BY <1>1, <1>2 DEF ResultType, ResFields
<1>6. res' = [f \in ResFields |-> res'[f]] BY <1>1, <1>2 DEF ResultType, ResFields
<1>7. /\ res'.cached = res.cached /\ res'.num_total_read = res.num_total_read
      /\ res'.cursTuple = res.cursTuple /\ res'.fetch_number = res.fetch_number
      /\ res'.move_offset = res.move_offset
  BY <1>4 DEF ResFields
<1>8. ResultType(res)'
  <2>1. /\ res'.cached \in Seq(Int) /\ res'.num_total_read \in Int /\ res'.cursTuple \in Int
        /\ res'.fetch_number \in Int /\ res'.move_offset \in Nat
    BY <1>1, <1>7 DEF ResultType
  <2>2. res'.base \in Int /\ res'.reqsize \in Nat BY <1>1, <1>2, <1>5
  <2> QED BY <1>6, <2>1, <2>2, Zenon DEF ResultType
<1>9. Kept BY <1>4 DEF Kept, ResFields
<1> QED BY <1>3, <1>8, <1>9

\* A call that goes on at another step is as well typed as before.
LEMMA GoesOn ==
  ASSUME CallType, NEW to, call' = [call EXCEPT !.pc = to]
  PROVE  CallType' /\ call'.pc = to
<1> QED BY DEF CallType, CallFields

LEMMA PositionKeeps ==
  ASSUME IInv, Position
  PROVE  IInv'
<1>1. Types /\ CallType /\ Target \in Int /\ NumTuples \in Int /\ srv' = srv
  BY TargetType DEF IInv, Types, Position
<1>2. PICK place \in Int, to \in {"nodata", "move", "row"} :
        SC_set_rowset_start(place) /\ call' = [call EXCEPT !.pc = to]
  <2>1. CASE NoRows(NumTuples) BY <1>1, <2>1 DEF NoRows
  <2>2. CASE NoRows(BOF) BY <2>2 DEF NoRows, BOF
  <2>3. CASE /\ SC_set_rowset_start(IF Target < 0 THEN 0 ELSE Target)
             /\ call' = [call EXCEPT !.pc = IF stmt.fetchcursor THEN "move" ELSE "row"]
    <3>1. (IF Target < 0 THEN 0 ELSE Target) \in Int BY <1>1
    <3>2. (IF stmt.fetchcursor THEN "move" ELSE "row") \in {"nodata", "move", "row"} OBVIOUS
    <3> QED BY <2>3, <3>1, <3>2, Zenon
  <2> QED BY <2>1, <2>2, <2>3, Zenon DEF Position
<1>3. StmtType' /\ ResultType(res)' /\ Kept BY <1>1, <1>2, Placed
<1>4. CallType' /\ call'.pc = to BY <1>1, <1>2, GoesOn
<1> QED BY <1>3, <1>4, SameCursor

\* The next row of the window is another one.
LEMMA FetchNumberSet ==
  ASSUME ResultType(res), NEW fetch \in Int, res' = [res EXCEPT !.fetch_number = fetch], srv' = srv
  PROVE  ResultType(res)' /\ Kept
<1>1. res' = [f \in ResFields |-> res'[f]] BY DEF ResultType, ResFields
<1>2. \A f \in ResFields \ {"fetch_number"} : res'[f] = res[f] BY DEF ResultType, ResFields
<1>3. res'.fetch_number = fetch BY DEF ResultType, ResFields
<1>4. Kept BY <1>2 DEF Kept, ResFields
<1>5. /\ res'.cached = res.cached /\ res'.num_total_read = res.num_total_read
      /\ res'.cursTuple = res.cursTuple /\ res'.base = res.base /\ res'.reqsize = res.reqsize
      /\ res'.move_offset = res.move_offset
  BY <1>2 DEF ResFields
<1>6. /\ res'.cached \in Seq(Int) /\ res'.num_total_read \in Int /\ res'.cursTuple \in Int
      /\ res'.base \in Int /\ res'.reqsize \in Nat /\ res'.move_offset \in Nat
  BY <1>5 DEF ResultType
<1>7. ResultType(res)' BY <1>1, <1>3, <1>6, Zenon DEF ResultType
<1> QED BY <1>4, <1>7

LEMMA PlanMoveKeeps ==
  ASSUME IInv, move_cursor_position_if_needed
  PROVE  IInv'
<1>1. /\ StmtType /\ ResultType(res) /\ CallType /\ stmt' = stmt /\ srv' = srv
      /\ stmt.currTuple \in Int /\ res.cursTuple \in Int /\ res.base \in Int
      /\ call' = [call EXCEPT !.pc = "row"]
  BY DEF IInv, Types, StmtType, ResultType, move_cursor_position_if_needed
<1>2. CallType' /\ call'.pc = "row" BY <1>1, GoesOn
<1>3. StmtType' BY <1>1 DEF StmtType
<1>4. PICK m, offset, fetch : /\ offset \in Nat /\ fetch \in Int
                              /\ \/ res' = [res EXCEPT !.moving = m, !.move_offset = offset]
                                 \/ res' = [res EXCEPT !.fetch_number = fetch]
  <2> DEFINE d == stmt.currTuple - res.cursTuple
             m == IF d > 0 THEN 1 ELSE IF d < 0 THEN -1 ELSE 0
             offset == IF d < 0 THEN -d ELSE d
  <2>1. offset \in Nat BY <1>1
  <2>2. \/ res' = [res EXCEPT !.moving = 0, !.move_offset = 0]
        \/ res' = [res EXCEPT !.fetch_number = res.base]
        \/ res' = [res EXCEPT !.moving = m, !.move_offset = offset]
    BY Zenon DEF move_cursor_position_if_needed
  <2> HIDE DEF m, offset
  <2> QED BY <1>1, <2>1, <2>2
<1>5. ResultType(res)' /\ Kept
  <2>1. CASE res' = [res EXCEPT !.moving = m, !.move_offset = offset]
    BY <1>1, <1>4, <2>1 DEF ResultType, ResFields, Kept
  <2>2. CASE res' = [res EXCEPT !.fetch_number = fetch] BY <1>1, <1>4, <2>2, FetchNumberSet
  <2> QED BY <1>4, <2>1, <2>2
<1> QED BY <1>2, <1>3, <1>5, SameCursor

LEMMA GotRowTypes ==
  ASSUME StmtType, CallType, NEW row, GotRow(row, call)
  PROVE  StmtType' /\ CallType' /\ call'.pc \in {"return", "row"}
<1>1. StmtType'
  <2>1. stmt' = [stmt EXCEPT !.currTuple = @ + 1] BY DEF GotRow
  <2>2. stmt' = [f \in StmtFields |-> stmt'[f]] BY <2>1 DEF StmtType, StmtFields
  <2>3. /\ stmt'.rowset_start = stmt.rowset_start /\ stmt'.currTuple = stmt.currTuple + 1
        /\ stmt'.save = stmt.save /\ stmt'.fetch_max = stmt.fetch_max
    BY <2>1 DEF StmtType, StmtFields
  <2> QED BY <2>2, <2>3 DEF StmtType
<1>2. PICK rows, to : to \in {"return", "row"} /\ call' = [call EXCEPT !.rows = rows, !.pc = to]
  BY DEF GotRow
<1>3. CallType' /\ call'.pc = to BY <1>2 DEF CallType, CallFields
<1> QED BY <1>1, <1>2, <1>3

\* SC_fetch at the end of the rows may close the cursor, and forgets nothing else.
LEMMA NoRowPicture ==
  ASSUME StmtType, NEW r, ResultType(r), Pictured(r, srv'), NoRow(r), r.cursor => r.open
  PROVE  StmtType' /\ ResultType(res)' /\ Pictured(res, srv)' /\ (res'.cursor => res'.open)
<1>1. StmtType' BY DEF NoRow, StmtType
<1>2. CASE res' = r BY <1>1, <1>2
<1>3. CASE res' = Shut(r)
  <2>1. /\ ResultType(res') /\ ~res'.cursor
        /\ res'.open = r.open /\ res'.eof = r.eof /\ res'.num_total_read = r.num_total_read
    BY <1>3, Closed
  <2> QED BY <1>1, <2>1 DEF Pictured
<1> QED BY <1>2, <1>3, Zenon DEF NoRow, Shut

LEMMA RowFromMemoryKeeps ==
  ASSUME IInv, RowFromMemory
  PROVE  IInv'
<1>1. StmtType /\ ResultType(res) /\ CallType /\ res' = res /\ srv' = srv
  BY DEF IInv, Types, RowFromMemory
<1>2. ResultType(res)' /\ Kept BY <1>1 DEF Kept
<1>3. CASE GotRow(CachedRow(res, GIdx2CacheIdx(stmt.currTuple + 1)), call)
  <2>1. StmtType' /\ CallType' /\ call'.pc \in {"return", "row"} BY <1>1, <1>3, GotRowTypes
  <2> QED BY <1>2, <2>1, SameCursor
<1>4. CASE /\ call' = [call EXCEPT !.pc = "return"]
           /\ stmt' = [stmt EXCEPT !.currTuple = QR_get_num_total_tuples]
  <2>1. CallType' /\ call'.pc = "return" BY <1>1, <1>4, GoesOn
  <2>2. QR_get_num_total_tuples \in Int BY <1>1 DEF QR_get_num_total_tuples, ResultType
  <2>3. stmt' = [f \in StmtFields |-> stmt'[f]] BY <1>1, <1>4 DEF StmtType, StmtFields
  <2>4. /\ stmt'.rowset_start = stmt.rowset_start /\ stmt'.currTuple = QR_get_num_total_tuples
        /\ stmt'.save = stmt.save /\ stmt'.fetch_max = stmt.fetch_max
    BY <1>1, <1>4 DEF StmtType, StmtFields
  <2>5. StmtType' BY <1>1, <2>2, <2>3, <2>4 DEF StmtType
  <2> QED BY <1>2, <2>1, <2>5, SameCursor
<1> QED BY <1>3, <1>4, Zenon DEF RowFromMemory

LEMMA RowFromWindowKeeps ==
  ASSUME IInv, RowFromWindow
  PROVE  IInv'
<1>1. /\ Types /\ StmtType /\ ResultType(res) /\ CallType /\ Pictured(res, srv)
      /\ srv' = srv /\ res.cursor /\ res.open
  BY DEF IInv, Types, Underway, RowFromWindow
<1>2. CASE /\ GotRow(CachedRow(res, res.fetch_number), call)
           /\ res' = [res EXCEPT !.fetch_number = @ + 1]
  <2>1. StmtType' /\ CallType' /\ call'.pc \in {"return", "row"} BY <1>1, <1>2, GotRowTypes
  <2>2. ResultType(res)' /\ Kept
    <3>1. res.fetch_number + 1 \in Int /\ res' = [res EXCEPT !.fetch_number = res.fetch_number + 1]
      BY <1>1, <1>2 DEF ResultType
    <3> QED BY <1>1, <3>1, FetchNumberSet
  <2> QED BY <2>1, <2>2, SameCursor
<1>3. CASE call' = [call EXCEPT !.pc = "return"] /\ NoRow(res)
  <2>1. CallType' /\ call'.pc = "return" BY <1>1, <1>3, GoesOn
  <2>2. StmtType' /\ ResultType(res)' /\ Pictured(res, srv)' /\ (res'.cursor => res'.open)
    BY <1>1, <1>3, NoRowPicture
  <2>3. SrvType' BY <1>1 DEF Types, SrvType
  <2> QED BY <2>1, <2>2, <2>3 DEF IInv, Types, Underway
<1> QED BY <1>2, <1>3, Zenon DEF RowFromWindow

\* QR_next_tuple goes on to a FETCH.
LEMMA OffsetSet ==
  ASSUME CallType, NEW offset \in Int, call' = [call EXCEPT !.pc = "fill", !.offset = offset]
  PROVE  CallType' /\ call'.pc = "fill"
<1>1. call' = [f \in CallFields |-> call'[f]] BY DEF CallType, CallFields
<1>2. /\ call'.pc = "fill" /\ call'.o = call.o /\ call'.k = call.k /\ call'.size = call.size
      /\ call'.prev = call.prev /\ call'.offset = offset
  BY DEF CallType, CallFields
<1>3. CallType' BY <1>1, <1>2 DEF CallType
<1> QED BY <1>2, <1>3

LEMMA WindowEmptyKeeps ==
  ASSUME IInv, WindowEmpty
  PROVE  IInv'
<1>1. /\ StmtType /\ ResultType(res) /\ SrvType /\ CallType /\ Pictured(res, srv) /\ Underway
      /\ UNCHANGED <<stmt, res, srv>> /\ res.cursor
  BY DEF IInv, Types, WindowEmpty
<1>2. CallType' /\ call'.pc = "fill"
  <2>1. CallType /\ call' = [call EXCEPT !.pc = "fill", !.offset = 0] /\ 0 \in Int
    BY DEF IInv, Types, WindowEmpty
  <2> QED BY <2>1, OffsetSet
<1> QED BY <1>1, <1>2 DEF IInv, Types, StmtType, ResultType, SrvType, Pictured, Underway

LEMMA ReturnKeeps ==
  ASSUME IInv, Return
  PROVE  IInv'
<1>1. StmtType /\ ResultType(res) /\ CallType /\ res' = res /\ srv' = srv /\ call' = Idle
  BY DEF IInv, Types, Return
<1>2. ResultType(res)' /\ Kept BY <1>1 DEF Kept
<1>3. call' = [f \in CallFields |-> call'[f]] /\ call'.pc = "idle" BY <1>1 DEF Idle, CallFields
<1>4. call'.o = "next" /\ call'.k = 0 /\ call'.size = 1 /\ call'.prev = -1 /\ call'.offset = 0
  BY <1>1 DEF Idle
<1>5. CallType' BY <1>3, <1>4 DEF CallType, Orientations
<1>6. PICK save, here : /\ save \in Int /\ here \in Int
                        /\ stmt' = stmt \/ stmt' = [stmt EXCEPT !.save = save, !.currTuple = here]
  <2>1. /\ call.size \in Int /\ stmt.rowset_start \in Int /\ stmt.save \in Int /\ -1 \in Int
    BY <1>1 DEF StmtType, CallType
  <2>2. \/ stmt' = [stmt EXCEPT !.save = call.size, !.currTuple = stmt.rowset_start]
        \/ stmt' = [stmt EXCEPT !.currTuple = -1]
        \/ stmt' = stmt
    <3>1. /\ call.pc \in {"return", "nodata", "error"}
          /\ stmt' = CASE call.pc = "return" -> [stmt EXCEPT !.save = call.size,
                                                     !.currTuple = stmt.rowset_start]
                       [] call.pc = "nodata" -> [stmt EXCEPT !.currTuple = -1]
                       [] call.pc = "error"  -> stmt
      BY DEF Return
    <3> QED BY <3>1
  <2>3. stmt' = [stmt EXCEPT !.currTuple = -1] => stmt' = [stmt EXCEPT !.save = stmt.save, !.currTuple = -1]
    BY <1>1 DEF StmtType, StmtFields
  <2> QED BY <2>1, <2>2, <2>3, Zenon
<1>7. StmtType'
  <2>1. CASE stmt' = stmt BY <1>1, <2>1 DEF StmtType
  <2>2. CASE stmt' = [stmt EXCEPT !.save = save, !.currTuple = here]
    <3>1. stmt' = [f \in StmtFields |-> stmt'[f]] BY <1>1, <2>2 DEF StmtType, StmtFields
    <3>2. /\ stmt'.rowset_start = stmt.rowset_start /\ stmt'.currTuple = here
          /\ stmt'.save = save /\ stmt'.fetch_max = stmt.fetch_max
      BY <1>1, <2>2 DEF StmtType, StmtFields
    <3> QED BY <1>1, <1>6, <3>1, <3>2 DEF StmtType
  <2> QED BY <1>6, <2>1, <2>2
<1> QED BY <1>2, <1>3, <1>5, <1>7, SameCursor

\* What a MOVE leaves of the result.
LEMMA MovedResult ==
  ASSUME ResultType(res), NEW total \in Int, NEW eof, NEW curs \in Int,
         res' = [res EXCEPT !.num_total_read = total, !.eof = eof, !.cursTuple = curs,
                            !.base = -1, !.move_offset = 0]
  PROVE  /\ ResultType(res)'
         /\ res'.open = res.open /\ res'.cursor = res.cursor
         /\ res'.num_total_read = total /\ res'.eof = eof /\ res'.cursTuple = curs
<1>1. res' = [f \in ResFields |-> res'[f]] BY DEF ResultType, ResFields
<1>2. \A f \in ResFields \ {"num_total_read", "eof", "cursTuple", "base", "move_offset"} :
        res'[f] = res[f]
  BY DEF ResultType, ResFields
<1>3. /\ res'.num_total_read = total /\ res'.cursTuple = curs
      /\ res'.base = -1 /\ res'.move_offset = 0
  BY DEF ResultType, ResFields
<1>4. res'.eof = eof BY DEF ResultType, ResFields
<1>5. /\ res'.cached = res.cached /\ res'.fetch_number = res.fetch_number
      /\ res'.reqsize = res.reqsize /\ res'.open = res.open /\ res'.cursor = res.cursor
  BY <1>2 DEF ResFields
<1>6. res'.cached \in Seq(Int) /\ res'.fetch_number \in Int /\ res'.reqsize \in Nat BY <1>5 DEF ResultType
<1>7. /\ res'.num_total_read \in Int /\ res'.cursTuple \in Int
      /\ res'.base \in Int /\ res'.move_offset \in Nat
  BY <1>3
<1>8. ResultType(res)' BY <1>1, <1>6, <1>7, Zenon DEF ResultType
<1> QED BY <1>3, <1>4, <1>5, <1>8

\* A refused command: the call ends or fails.
LEMMA RefusedKeeps ==
  ASSUME IInv, NEW to \in {"return", "error", "position"}, Refuse(to), StmtType', ResultType(res)',
         Pictured(res, srv)', res'.cursor => res'.open
  PROVE  IInv'
<1>1. SrvType' /\ CallType' /\ call'.pc = to BY RefuseTypes DEF IInv, Types
<1>2. Underway' BY <1>1 DEF Underway
<1> QED BY <1>1, <1>2 DEF IInv, Types

\* The distance that QR_next_tuple works out is the one that the cursor went.
LEMMA Distance ==
  ASSUME Types, Pictured(res, srv), res.cursor, res.open, NEW wide \in Nat, NEW back, NEW given,
         given = IF back THEN PassedBack(wide) ELSE Passed(wide)
  PROVE  /\ back => MovedBy(given, wide, back) = srv.pos - Backward(wide).pos
         /\ ~back => MovedBy(given, wide, back) = Forward(wide).pos - srv.pos
<1>1. MovedBy(given, wide, back) =
        IF given < wide /\ (given > 0 \/ (/\ ~(back /\ res.cursTuple < 0)
                                          /\ ~(~back /\ res.eof /\ res.cursTuple >= res.num_total_read)))
        THEN given + 1 ELSE given
  BY Zenon DEF MovedBy
<1>2. CASE back
  <2>1. given = PassedBack(wide) BY <1>2, Zenon
  <2>2. MovedBy(given, wide, back) =
          IF PassedBack(wide) < wide /\ (PassedBack(wide) > 0 \/ ~(res.cursTuple < 0))
          THEN PassedBack(wide) + 1 ELSE PassedBack(wide)
    BY <1>1, <1>2, <2>1, Zenon
  <2>3. ~(res.cursTuple < 0) <=> res.cursTuple >= 0 BY DEF Types, ResultType
  <2>4. MovedBy(given, wide, back) = GoneBack(wide) BY <2>2, <2>3, Zenon DEF GoneBack
  <2> QED BY <1>2, <2>4, MovesBack, Zenon
<1>3. CASE ~back
  <2>1. given = Passed(wide) BY <1>3, Zenon
  <2>2. MovedBy(given, wide, back) = GoneForward(wide) BY <1>1, <1>3, <2>1, Zenon DEF GoneForward
  <2> QED BY <1>3, <2>2, MovesForward, Zenon
<1> QED BY <1>2, <1>3, Zenon

LEMMA MoveCursorKeeps ==
  ASSUME IInv, MoveCursor
  PROVE  IInv'
<1> DEFINE back  == res.moving = -1
           wide  == IF back /\ FetchSize > res.reqsize
                    THEN Lesser(res.move_offset + FetchSize - res.reqsize, res.cursTuple + 1)
                    ELSE res.move_offset
           given == IF back THEN PassedBack(wide) ELSE Passed(wide)
           moved == MovedBy(given, wide, back)
           short == given < wide /\ ~back
           total == IF short /\ ~res.eof THEN res.cursTuple + moved ELSE res.num_total_read
           curs  == IF back THEN res.cursTuple - moved ELSE res.cursTuple + moved
<1>1. /\ Types /\ StmtType /\ ResultType(res) /\ SrvType /\ CallType /\ Pictured(res, srv)
      /\ res.cursor /\ res.open
  BY DEF IInv, Types, Underway, MoveCursor
<1>2. CASE Refuse("return") /\ NoRow(res)
  <2>1. srv'.n = srv.n /\ srv'.pos = srv.pos BY <1>1, <1>2, RefuseTypes
  <2>2. Pictured(res, srv') BY <1>1, <2>1 DEF Pictured
  <2>3. StmtType' /\ ResultType(res)' /\ Pictured(res, srv)' /\ (res'.cursor => res'.open)
    BY <1>1, <1>2, <2>2, NoRowPicture
  <2> QED BY <1>2, <2>3, RefusedKeeps
<1>3. CASE /\ srv.alive
           /\ srv' = IF back THEN Backward(wide) ELSE Forward(wide)
           /\ res' = [res EXCEPT
                !.num_total_read = IF short /\ ~res.eof THEN res.cursTuple + moved ELSE @,
                !.eof       = @ \/ short,
                !.cursTuple = IF back THEN @ - moved ELSE @ + moved,
                !.base = -1, !.move_offset = 0]
           /\ call' = [call EXCEPT !.pc = "fill", !.offset = OffsetAfter(moved, back)]
           /\ UNCHANGED stmt
  <2>1. /\ srv.n \in Nat /\ srv.pos \in 0..(srv.n + 1) /\ res.cursTuple = srv.pos - 1
        /\ res.num_total_read \in 0..srv.n /\ (res.eof => res.num_total_read = srv.n)
        /\ ~res.eof => srv.pos <= srv.n
    BY <1>1, <1>3 DEF SrvType, Pictured
  <2>2. /\ stmt.fetch_max \in Nat /\ res.reqsize \in Nat /\ res.move_offset \in Nat
        /\ res.num_total_read \in Int
    BY <1>1 DEF StmtType, ResultType
  <2>3. FetchSize \in Nat BY <2>2 DEF FetchSize
  <2>4. wide \in Nat BY <2>1, <2>2, <2>3 DEF Lesser
  <2>5. StmtType' BY <1>1, <1>3 DEF StmtType
  <2> HIDE DEF wide
  <2>6. PICK eof : eof = (res.eof \/ short) OBVIOUS
  <2>7. res' = [res EXCEPT !.num_total_read = total, !.eof = eof, !.cursTuple = curs,
                           !.base = -1, !.move_offset = 0]
    <3>1. res' = [res EXCEPT !.num_total_read = total, !.eof = res.eof \/ short,
                             !.cursTuple = curs, !.base = -1, !.move_offset = 0]
      BY <1>3, Zenon
    <3> HIDE DEF total, curs, short
    <3> QED BY <3>1, <2>6, Zenon
  <2>8. /\ Backward(wide) = [srv EXCEPT !.pos = Backward(wide).pos] /\ Backward(wide).pos \in 0..srv.pos
        /\ Forward(wide) = [srv EXCEPT !.pos = Forward(wide).pos]
        /\ Forward(wide).pos \in srv.pos..(srv.n + 1)
    BY <1>1, <2>4, GoesTo
  <2>9. /\ back => moved = srv.pos - Backward(wide).pos
        /\ ~back => moved = Forward(wide).pos - srv.pos
    BY <1>1, <2>4, Distance, Zenon
  <2>10. PICK pos \in Int :
           /\ srv' = [srv EXCEPT !.pos = pos] /\ pos \in 0..(srv.n + 1) /\ curs = pos - 1 /\ moved \in Int
           /\ (res.eof \/ short) => total = srv.n
           /\ ~(res.eof \/ short) => pos <= srv.n /\ total \in 0..srv.n
    <3>1. CASE back
      <4>1. srv' = Backward(wide) BY <1>3, <3>1, Zenon
      <4>2. moved = srv.pos - Backward(wide).pos BY <2>9, <3>1, Zenon
      <4>3. ~short /\ total = res.num_total_read BY <3>1, Zenon
      <4>4. curs = res.cursTuple - moved BY <3>1, Zenon
      <4> HIDE DEF back, moved, short, total, curs
      <4>5. Backward(wide).pos \in 0..(srv.n + 1) /\ curs = Backward(wide).pos - 1 /\ moved \in Int
        BY <2>1, <2>8, <4>2, <4>4
      <4>6. res.eof => total = srv.n BY <2>1, <4>3
      <4>7. ~res.eof => Backward(wide).pos <= srv.n /\ total \in 0..srv.n BY <2>1, <2>8, <4>3
      <4>8. Backward(wide).pos \in Int BY <2>1, <2>8
      <4> QED BY <2>8, <4>1, <4>3, <4>5, <4>6, <4>7, <4>8, Zenon
    <3>2. CASE ~back
      <4>1. srv' = Forward(wide) BY <1>3, <3>2, Zenon
      <4>2. moved = Forward(wide).pos - srv.pos BY <2>9, <3>2, Zenon
      <4>3. short <=> Passed(wide) < wide BY <3>2, Zenon
      <4>4. curs = res.cursTuple + moved BY <3>2, Zenon
      <4>5. total = IF short /\ ~res.eof THEN res.cursTuple + moved ELSE res.num_total_read OBVIOUS
      <4>7. srv.pos <= srv.n => /\ short => Forward(wide).pos = srv.n + 1
                                /\ ~short => Forward(wide).pos <= srv.n
        <5> SUFFICES ASSUME srv.pos <= srv.n
                     PROVE  /\ short => Forward(wide).pos = srv.n + 1
                            /\ ~short => Forward(wide).pos <= srv.n
          OBVIOUS
        <5>1. /\ Passed(wide) \in 0..wide
              /\ Passed(wide) < wide => Forward(wide).pos = srv.n + 1
              /\ Passed(wide) = wide => Forward(wide).pos <= srv.n
          BY <1>1, <2>4, RunsOver
        <5> HIDE DEF short
        <5> QED BY <2>4, <4>3, <5>1
      <4> HIDE DEF back, moved, short, total, curs
      <4>8. Forward(wide).pos \in 0..(srv.n + 1) /\ curs = Forward(wide).pos - 1 /\ moved \in Int
        BY <2>1, <2>8, <4>2, <4>4
      <4>9. res.eof => total = srv.n BY <2>1, <4>5
      <4>10. short /\ ~res.eof => total = srv.n BY <2>1, <2>8, <4>2, <4>5, <4>7
      <4>11. ~short /\ ~res.eof => Forward(wide).pos <= srv.n /\ total \in 0..srv.n BY <2>1, <4>5, <4>7
      <4>12. Forward(wide).pos \in Int BY <2>1, <2>8
      <4> QED BY <2>8, <4>1, <4>8, <4>9, <4>10, <4>11, <4>12, Zenon
    <3> QED BY <3>1, <3>2, Zenon
  <2>11. curs \in Int /\ total \in Int
    <3>1. total = srv.n \/ total = res.num_total_read BY <2>10, Zenon
    <3> HIDE DEF total, curs
    <3> QED BY <2>1, <2>2, <2>10, <3>1
  <2>12. /\ ResultType(res)' /\ res'.open = res.open /\ res'.cursor = res.cursor
         /\ res'.num_total_read = total /\ res'.eof = eof /\ res'.cursTuple = curs
    <3> HIDE DEF total, curs
    <3> QED BY <1>1, <2>7, <2>11, MovedResult
  <2>13. SrvType' /\ srv'.n = srv.n /\ srv'.pos = pos BY <1>1, <2>10 DEF SrvType, SrvFields
  <2>14. Pictured(res, srv)'
    <3>1. res'.eof <=> res.eof \/ short BY <2>6, <2>12, Zenon
    <3> HIDE DEF total, curs, short
    <3> QED BY <2>1, <2>10, <2>12, <2>13, <3>1 DEF Pictured
  <2>15. CallType' /\ call'.pc = "fill"
    <3>1. OffsetAfter(moved, back) \in Int
      <4>1. moved \in Int BY <2>10
      <4> HIDE DEF moved, back
      <4> QED BY <2>2, <4>1 DEF OffsetAfter
    <3>2. call' = [call EXCEPT !.pc = "fill", !.offset = OffsetAfter(moved, back)] BY <1>3, Zenon
    <3> HIDE DEF moved, back
    <3> QED BY <1>1, <3>1, <3>2, OffsetSet
  <2>16. Underway' BY <1>1, <2>12, <2>15 DEF Underway
  <2> QED BY <2>5, <2>12, <2>13, <2>14, <2>15, <2>16 DEF IInv, Types
<1> QED BY <1>2, <1>3, Zenon DEF MoveCursor

\* The window that is made ready for a FETCH is well typed; the cursor is not touched.
LEMMA ReadyTypes ==
  ASSUME ResultType(res), CallType, NEW r, r = Ready
  PROVE  /\ ResultType(r)
         /\ r.open = res.open /\ r.cursor = res.cursor /\ r.eof = res.eof
         /\ r.num_total_read = res.num_total_read /\ r.cursTuple = res.cursTuple
<1>1. CASE Anew
  <2>1. PICK no : r = [res EXCEPT !.dataFilled = no, !.moving = 0, !.move_offset = 0, !.cached = <<>>,
                                  !.fetch_number = call.offset + 1, !.base = call.offset]
    BY <1>1, Zenon DEF Ready
  <2>2. r = [f \in ResFields |-> r[f]] BY <2>1 DEF ResultType, ResFields
  <2>3. \A f \in ResFields \ {"dataFilled", "moving", "move_offset", "cached", "fetch_number", "base"} :
          r[f] = res[f]
    BY <2>1 DEF ResultType, ResFields
  <2>4. /\ r.cached = <<>> /\ r.move_offset = 0 /\ r.base = call.offset
        /\ r.fetch_number = call.offset + 1
    BY <2>1 DEF ResultType, ResFields
  <2>5. /\ r.open = res.open /\ r.cursor = res.cursor /\ r.eof = res.eof /\ r.reqsize = res.reqsize
        /\ r.num_total_read = res.num_total_read /\ r.cursTuple = res.cursTuple
    BY <2>3 DEF ResFields
  <2>6. /\ r.cached \in Seq(Int) /\ r.move_offset \in Nat /\ r.base \in Int /\ r.fetch_number \in Int
    BY <2>4 DEF CallType
  <2>7. r.num_total_read \in Int /\ r.cursTuple \in Int /\ r.reqsize \in Nat BY <2>5 DEF ResultType
  <2>8. ResultType(r) BY <2>2, <2>6, <2>7, Zenon DEF ResultType
  <2> QED BY <2>5, <2>8
<1>2. CASE ~Anew
  <2>1. r = [res EXCEPT !.fetch_number = res.fetch_number + 1] BY <1>2, Zenon DEF Ready
  <2>2. r = [f \in ResFields |-> r[f]] BY <2>1 DEF ResultType, ResFields
  <2>3. \A f \in ResFields \ {"fetch_number"} : r[f] = res[f] BY <2>1 DEF ResultType, ResFields
  <2>4. r.fetch_number = res.fetch_number + 1 BY <2>1 DEF ResultType, ResFields
  <2>5. /\ r.open = res.open /\ r.cursor = res.cursor /\ r.eof = res.eof /\ r.reqsize = res.reqsize
        /\ r.num_total_read = res.num_total_read /\ r.cursTuple = res.cursTuple
        /\ r.cached = res.cached /\ r.base = res.base /\ r.move_offset = res.move_offset
    BY <2>3 DEF ResFields
  <2>6. /\ r.cached \in Seq(Int) /\ r.move_offset \in Nat /\ r.base \in Int
        /\ r.num_total_read \in Int /\ r.cursTuple \in Int /\ r.reqsize \in Nat
    BY <2>5 DEF ResultType
  <2>7. r.fetch_number \in Int BY <2>4 DEF ResultType
  <2>8. ResultType(r) BY <2>2, <2>6, <2>7, Zenon DEF ResultType
  <2> QED BY <2>5, <2>8
<1> QED BY <1>1, <1>2

\* After a FETCH the driver knows again where the cursor stands, also when the answer
\* is short or empty; and the end, once recognised, is the end.
LEMMA FetchedPicture ==
  ASSUME SrvType, NEW r, ResultType(r), Pictured(r, srv), r.cursor, r.open,
         NEW size \in Nat, size > 0, NEW q, q = QR_from_PGresult(r, size)
  PROVE  ResultType(q) /\ Pictured(q, Forward(size)) /\ q.open /\ q.cursor
<1> DEFINE got   == Passed(size)
           first == IF got > 0 /\ r.cursTuple + got >= r.num_total_read
                    THEN r.cursTuple + got + 1 ELSE r.num_total_read
           read  == IF ~r.eof /\ r.cursTuple + got >= first THEN r.cursTuple + got + 1 ELSE first
           short == got < size
           curs  == IF short /\ r.cursTuple + got < read THEN read ELSE r.cursTuple + got
<1>1. /\ srv.n \in Nat /\ srv.pos \in 0..(srv.n + 1) /\ r.cursTuple = srv.pos - 1
      /\ r.num_total_read \in 0..srv.n
      /\ r.eof => r.num_total_read = srv.n
      /\ ~r.eof => srv.pos <= srv.n
  BY DEF SrvType, Pictured, ResultType
<1>2. PICK t : t = QR_read_tuples_from_pgres(r, got) OBVIOUS
<1>3. /\ t = [f \in ResFields |-> t[f]]
      /\ \A f \in ResFields \ {"cached", "dataFilled", "cursTuple", "num_total_read"} : t[f] = r[f]
  BY <1>2 DEF QR_read_tuples_from_pgres, ResultType, ResFields
<1>4. /\ t.cached = r.cached \o [i \in 1..got |-> srv.pos + i]
      /\ t.cursTuple = r.cursTuple + got
      /\ t.num_total_read = first
  BY <1>2 DEF QR_read_tuples_from_pgres, ResultType, ResFields
<1>5. /\ t.eof = r.eof /\ t.open = r.open /\ t.cursor = r.cursor /\ t.base = r.base
      /\ t.fetch_number = r.fetch_number /\ t.reqsize = r.reqsize /\ t.move_offset = r.move_offset
  BY <1>3 DEF ResFields
<1>6. PICK eof : eof = (r.eof \/ short) OBVIOUS
<1>7. q = [t EXCEPT !.num_total_read = read, !.eof = eof, !.cursTuple = curs]
  <2> DEFINE read2 == IF ~t.eof /\ t.cursTuple >= t.num_total_read THEN t.cursTuple + 1 ELSE t.num_total_read
             curs2 == IF short /\ t.cursTuple < read2 THEN read2 ELSE t.cursTuple
  <2>1. q = [t EXCEPT !.num_total_read = read2, !.eof = t.eof \/ short, !.cursTuple = curs2]
    BY <1>2, Zenon DEF QR_from_PGresult
  <2>2. read2 = read BY <1>4, <1>5, Zenon
  <2>3. curs2 = curs BY <1>4, <2>2, Zenon
  <2>4. eof = (t.eof \/ short) BY <1>5, <1>6, Zenon
  <2> HIDE DEF read2, curs2, short, read, curs
  <2> QED BY <2>1, <2>2, <2>3, <2>4, Zenon
<1> DEFINE pos == Forward(size).pos
<1>8. /\ pos \in Int
      /\ curs = pos - 1 /\ read \in Int /\ got \in Nat
      /\ (r.eof \/ short) => read = srv.n
      /\ ~(r.eof \/ short) => pos <= srv.n /\ read \in 0..srv.n
  <2>1. CASE srv.pos > srv.n
    <3>1. got = 0 /\ pos = srv.n + 1 BY <2>1, Behind
    <3>2. r.eof /\ r.num_total_read = srv.n /\ r.cursTuple = srv.n BY <1>1, <2>1
    <3> HIDE DEF got, pos
    <3>3. first = srv.n /\ read = srv.n /\ short BY <1>1, <3>1, <3>2
    <3>4. curs = srv.n BY <1>1, <3>1, <3>2, <3>3
    <3> HIDE DEF first, read, short, curs
    <3> QED BY <1>1, <3>1, <3>2, <3>3, <3>4
  <2>2. CASE srv.pos <= srv.n
    <3>1. /\ got \in 0..size
          /\ short => got = srv.n - srv.pos /\ pos = srv.n + 1
          /\ ~short => got = size /\ pos = srv.pos + size /\ pos <= srv.n
      <4>1. /\ Passed(size) \in 0..size
            /\ Passed(size) < size => /\ Passed(size) = srv.n - srv.pos
                                      /\ Forward(size).pos = srv.n + 1
            /\ Passed(size) = size => Forward(size).pos = srv.pos + size /\ Forward(size).pos <= srv.n
        BY <2>2, RunsOver
      <4> QED BY <4>1
    <3> HIDE DEF got, pos
    <3>2. CASE short
      <4>1. got = srv.n - srv.pos /\ pos = srv.n + 1 /\ got \in Nat /\ r.cursTuple + got = srv.n - 1
        BY <1>1, <2>2, <3>1, <3>2
      <4>2. first = srv.n \/ (~r.eof /\ got = 0 /\ first <= srv.n) BY <1>1, <4>1
      <4> HIDE DEF first
      <4>3. first \in Int BY <1>1, <4>1 DEF first
      <4>4. read = srv.n BY <1>1, <4>1, <4>2, <4>3
      <4> HIDE DEF read
      <4>5. curs = srv.n BY <1>1, <3>2, <4>1, <4>4
      <4> HIDE DEF short, curs
      <4> QED BY <1>1, <3>2, <4>1, <4>4, <4>5
    <3>3. CASE ~short
      <4>1. got = size /\ pos = srv.pos + size /\ pos <= srv.n /\ r.cursTuple + got = pos - 1
        BY <1>1, <3>1, <3>3
      <4>2. CASE r.eof
        <5>1. r.num_total_read = srv.n BY <1>1, <4>2
        <5>2. first = srv.n BY <1>1, <4>1, <5>1
        <5>3. read = srv.n BY <4>2, <5>2
        <5>4. curs = pos - 1 BY <3>3, <4>1
        <5> HIDE DEF first, read, short, curs
        <5> QED BY <1>1, <4>1, <4>2, <5>3, <5>4
      <4>3. CASE ~r.eof
        <5>1. r.num_total_read \in 0..srv.n BY <1>1, <4>3
        <5>2. first \in 0..srv.n BY <1>1, <4>1, <5>1
        <5> HIDE DEF first
        <5>3. read \in 0..srv.n BY <1>1, <4>1, <4>3, <5>2
        <5>4. curs = pos - 1 BY <3>3, <4>1
        <5> HIDE DEF read, short, curs
        <5> QED BY <1>1, <3>3, <4>1, <4>3, <5>3, <5>4
      <4> QED BY <4>2, <4>3
    <3> QED BY <3>2, <3>3
  <2> QED BY <1>1, <2>1, <2>2
<1>9. /\ q = [f \in ResFields |-> q[f]]
      /\ \A f \in ResFields \ {"num_total_read", "eof", "cursTuple"} : q[f] = t[f]
  <2> HIDE DEF read, curs
  <2> QED BY <1>3, <1>7 DEF ResFields
<1>10. q.num_total_read = read /\ q.cursTuple = curs /\ q.eof = eof
  <2> HIDE DEF read, curs
  <2> QED BY <1>3, <1>7 DEF ResFields
<1>11. /\ q.open = r.open /\ q.cursor = r.cursor /\ q.base = r.base /\ q.cached = t.cached
       /\ q.fetch_number = r.fetch_number /\ q.reqsize = r.reqsize /\ q.move_offset = r.move_offset
  BY <1>5, <1>9 DEF ResFields
<1>12. q.cached \in Seq(Int)
  <2>1. [i \in 1..got |-> srv.pos + i] \in Seq(Int)
    <3> HIDE DEF got
    <3> QED BY <1>1, <1>8
  <2>2. r.cached \in Seq(Int) BY DEF ResultType
  <2> QED BY <1>4, <1>11, <2>1, <2>2
<1>13. ResultType(q)
  <2>1. q.base \in Int /\ q.fetch_number \in Int /\ q.reqsize \in Nat /\ q.move_offset \in Nat
    BY <1>11 DEF ResultType
  <2>2. q.num_total_read \in Int /\ q.cursTuple \in Int
    <3> HIDE DEF read, curs, pos
    <3> QED BY <1>8, <1>10
  <2> QED BY <1>9, <1>12, <2>1, <2>2, Zenon DEF ResultType
<1>14. Forward(size).pos = pos /\ Forward(size).n = srv.n BY DEF Forward, SrvType, SrvFields
<1>15. q.eof <=> (r.eof \/ short) BY <1>6, <1>10, Zenon
<1>16. Pictured(q, Forward(size))
  <2> HIDE DEF read, curs, pos, short
  <2> QED BY <1>1, <1>8, <1>10, <1>14, <1>15 DEF Pictured
<1> QED BY <1>11, <1>13, <1>16

LEMMA RefillKeeps ==
  ASSUME IInv, Refill
  PROVE  IInv'
<1> DEFINE size == IF Anew THEN FetchSize ELSE res.reqsize + res.base - Len(res.cached)
           offs == IF Anew THEN call.offset ELSE res.fetch_number
           full == QR_from_PGresult(Ready, size)
<1>1. /\ Types /\ StmtType /\ ResultType(res) /\ SrvType /\ CallType /\ Pictured(res, srv)
      /\ res.cursor /\ res.open
  BY DEF IInv, Types, Underway, Refill
<1>2. PICK r : r = Ready OBVIOUS
<1>3. /\ ResultType(r) /\ r.open = res.open /\ r.cursor = res.cursor /\ r.eof = res.eof
      /\ r.num_total_read = res.num_total_read /\ r.cursTuple = res.cursTuple
  BY <1>1, <1>2, ReadyTypes
<1>4. Pictured(r, srv) BY <1>1, <1>3 DEF Pictured
<1>5. size \in Int
  <2>1. /\ stmt.fetch_max \in Int /\ res.reqsize \in Int /\ res.base \in Int
        /\ Len(res.cached) \in Int
    BY <1>1 DEF StmtType, ResultType
  <2> QED BY <2>1 DEF FetchSize
<1>6. CASE /\ size > 0 /\ srv.alive
           /\ srv' = Forward(size)
           /\ \/ res' = full /\ GotRow(CachedRow(full, offs), call)
              \/ NoRow(full) /\ call' = [call EXCEPT !.pc = "return"]
  <2>1. PICK q : q = QR_from_PGresult(r, size) OBVIOUS
  <2>2. q = full BY <1>2, <2>1, Zenon
  <2>3. size \in Nat /\ size > 0 BY <1>5, <1>6
  <2> HIDE DEF size, offs, full
  <2>4. ResultType(q) /\ Pictured(q, Forward(size)) /\ q.open /\ q.cursor
    BY <1>1, <1>3, <1>4, <2>1, <2>3, FetchedPicture
  <2>5. srv' = [srv EXCEPT !.pos = Forward(size).pos] /\ Forward(size).pos \in srv.pos..(srv.n + 1)
    BY <1>1, <1>6, <2>3, GoesTo
  <2>6. SrvType' BY <1>1, <2>5 DEF SrvType, SrvFields
  <2>7. CASE res' = full /\ GotRow(CachedRow(full, offs), call)
    <3>1. StmtType' /\ CallType' /\ call'.pc \in {"return", "row"} BY <1>1, <2>7, GotRowTypes
    <3>2. ResultType(res)' /\ Pictured(res, srv)' /\ res'.open BY <1>6, <2>2, <2>4, <2>7
    <3> QED BY <2>6, <3>1, <3>2 DEF IInv, Types, Underway
  <2>8. CASE NoRow(full) /\ call' = [call EXCEPT !.pc = "return"]
    <3>1. CallType' /\ call'.pc = "return" BY <1>1, <2>8, GoesOn
    <3>2. Pictured(q, srv') /\ NoRow(q) BY <1>6, <2>2, <2>4, <2>8
    <3>3. StmtType' /\ ResultType(res)' /\ Pictured(res, srv)' /\ (res'.cursor => res'.open)
      BY <1>1, <2>4, <3>2, NoRowPicture
    <3> QED BY <2>6, <3>1, <3>3 DEF IInv, Types, Underway
  <2> QED BY <1>6, <2>7, <2>8
<1>7. CASE NoRow(res) /\ srv' = srv /\ call' = [call EXCEPT !.pc = "return"]
  <2>1. CallType' /\ call'.pc = "return" BY <1>1, <1>7, GoesOn
  <2>2. Pictured(res, srv') BY <1>1, <1>7
  <2>3. StmtType' /\ ResultType(res)' /\ Pictured(res, srv)' /\ (res'.cursor => res'.open)
    BY <1>1, <1>7, <2>2, NoRowPicture
  <2>4. SrvType' BY <1>1, <1>7 DEF SrvType
  <2> QED BY <2>1, <2>3, <2>4 DEF IInv, Types, Underway
<1>8. CASE Refuse("error") /\ res' = Ready /\ stmt' = stmt
  <2>1. StmtType' BY <1>1, <1>8 DEF StmtType
  <2>3. srv'.n = srv.n /\ srv'.pos = srv.pos BY <1>1, <1>8, RefuseTypes
  <2>2. ResultType(res)' /\ Pictured(res, srv)' /\ res'.open
    BY <1>1, <1>2, <1>3, <1>4, <1>8, <2>3 DEF Pictured
  <2> QED BY <1>8, <2>1, <2>2, RefusedKeeps
<1> QED BY <1>6, <1>7, <1>8, Zenon DEF Refill

--------------------
(* The theorem.                                                            *)

LEMMA InitInv == Init => IInv
<1> SUFFICES ASSUME Init PROVE IInv OBVIOUS
<1>1. StmtType
  <2>1. stmt = [f \in StmtFields |-> stmt[f]] BY DEF Init, StmtFields
  <2>2. stmt.rowset_start = -1 /\ stmt.currTuple = -1 /\ stmt.save = -1 /\ stmt.fetch_max = 1 BY DEF Init
  <2> QED BY <2>1, <2>2 DEF StmtType
<1>2. ResultType(res) BY DEF Init, ResultType, NoResult, ResFields
<1>3. ~res.open /\ ~res.cursor BY DEF Init, NoResult
<1>4. SrvType BY DEF Init, SrvType, SrvFields
<1>5. CallType /\ call.pc = "idle"
  <2>1. call = [f \in CallFields |-> call[f]] /\ call.pc = "idle" BY DEF Init, Idle, CallFields
  <2>2. call.o = "next" /\ call.k = 0 /\ call.size = 1 /\ call.prev = -1 /\ call.offset = 0
    BY DEF Init, Idle
  <2> QED BY <2>1, <2>2 DEF CallType, Orientations
<1> QED BY <1>1, <1>2, <1>3, <1>4, <1>5 DEF IInv, Types, Pictured, Underway

LEMMA NextInv == IInv /\ [Next]_vars => IInv'
<1> SUFFICES ASSUME IInv, [Next]_vars PROVE IInv' OBVIOUS
<1>1. CASE Execute BY <1>1, ExecuteKeeps
<1>2. CASE Rollback BY <1>2, RollbackKeeps
<1>3. CASE PGAPI_MoreResults BY <1>3, MoreResultsKeeps
<1>4. CASE \E size \in 1..MaxSize : SQLFetch(size)
  <2>1. PICK size \in 1..MaxSize : Begin("next", 0, size) BY <1>4 DEF SQLFetch
  <2>2. size \in Nat /\ "next" \in Orientations /\ 0 \in Int BY SizeAssumption DEF Orientations
  <2> QED BY <2>1, <2>2, BeginKeeps
<1>5. CASE \E o \in Orientations, size \in 1..MaxSize : \E k \in Offsets(o) : SQLFetchScroll(o, k, size)
  <2>1. PICK o \in Orientations, size \in 1..MaxSize : \E k \in Offsets(o) : Begin(o, k, size)
    BY <1>5 DEF SQLFetchScroll
  <2>2. PICK k \in Offsets(o) : Begin(o, k, size) BY <2>1
  <2>3. k \in Int /\ size \in Nat BY SizeAssumption DEF Offsets
  <2> QED BY <2>2, <2>3, BeginKeeps
<1>6. CASE QR_move_cursor_to_last BY <1>6, MoveToLastKeeps
<1>7. CASE Position BY <1>7, PositionKeeps
<1>8. CASE move_cursor_position_if_needed BY <1>8, PlanMoveKeeps
<1>9. CASE RowFromMemory BY <1>9, RowFromMemoryKeeps
<1>10. CASE RowFromWindow BY <1>10, RowFromWindowKeeps
<1>11. CASE MoveCursor BY <1>11, MoveCursorKeeps
<1>12. CASE WindowEmpty BY <1>12, WindowEmptyKeeps
<1>13. CASE Refill BY <1>13, RefillKeeps
<1>14. CASE Return BY <1>14, ReturnKeeps
<1>15. CASE UNCHANGED vars
  BY <1>15 DEF vars, IInv, Types, StmtType, ResultType, SrvType, CallType, Pictured, Underway
<1> QED BY <1>1, <1>2, <1>3, <1>4, <1>5, <1>6, <1>7, <1>8, <1>9, <1>10, <1>11, <1>12, <1>13, <1>14,
     <1>15, Zenon
  DEF Next

\* cursTuple is the server's position as long as the cursor lives, and the end that
\* was recognised is the end, whatever was moved, fetched short or moved past an end
\* (QR_next_tuple, QR_from_PGresult, QR_move_cursor_to_last).
THEOREM CursorAlwaysKnown == Spec => []CursorKnown
<1>1. IInv => CursorKnown BY DEF IInv, Pictured, CursorKnown
<1> QED BY InitInv, NextInv, <1>1, PTL DEF Spec

--------------------
(* The window.                                                             *)

\* The application has none of the three habits.
NoHabits == Risky = {}

\* The row before the window, and the last row of the window.
Front == IF res.valid THEN stmt.rowset_start - res.base ELSE 0
End == Front + Len(res.cached)

\* The cursor was moved, and the window is still the old one.
Stale == call.pc = "fill" /\ res.moving # 0

Bounds ==
  /\ seen.n = srv.n /\ srv.n \in 0..MaxRows
  /\ call.size \in 1..MaxSize /\ call.k \in -(MaxRows + 1)..(MaxRows + 1)
  /\ stmt.save <= MaxSize /\ call.prev <= MaxSize
  /\ stmt.fetch_max > 0

\* The results there are: with a cursor, with a cursor that is gone, and without.
Kinds ==
  /\ call.pc # "idle" => res.open
  /\ res.cursor => stmt.fetchcursor
  /\ ~stmt.fetchcursor => Front = 0
  /\ (res.open /\ ~stmt.fetchcursor) => res.eof /\ Len(res.cached) = srv.n
  /\ (res.open /\ stmt.fetchcursor) => res.chain = 0
  /\ (res.open /\ ~res.cursor /\ ~res.eof) => ~srv.alive
  /\ call.pc \notin {"idle", "return", "error"} => (res.eof \/ res.cursor)
  /\ (call.pc = "position" /\ stmt.fetchcursor /\ ~res.cursor) => srv.alive

\* The window is a piece of the result.
Window ==
  ~Stale =>
    /\ Front >= 0
    /\ \A i \in 1..Len(res.cached) : res.cached[i] = Front + i
    /\ Len(res.cached) > 0 => res.dataFilled /\ End <= res.num_total_read

RestOf(save) == IF save > 0 THEN save ELSE 0

\* A forward-only cursor is closed when the application has all the rows.
Ended ==
  (res.open /\ stmt.fetchcursor /\ ~res.cursor /\ srv.alive) =>
    /\ res.eof /\ stmt.forward /\ stmt.rowset_start >= 0
    /\ call.pc \in {"idle", "position", "return", "nodata"}
    /\ call.pc = "idle" => stmt.rowset_start + RestOf(stmt.save) >= srv.n
    /\ call.pc = "position" => stmt.rowset_start + RestOf(call.prev) >= srv.n /\ call.o = "next"
    /\ call.pc = "return" => stmt.rowset_start + call.size >= srv.n
    /\ call.pc = "nodata" => stmt.rowset_start >= srv.n

\* The driver and the application agree where the application stands.
Standing ==
  /\ stmt.rowset_start >= -1
  /\ call.pc \in {"idle", "last", "position"} => seen.at = stmt.rowset_start + 1
  /\ (call.pc = "idle" /\ stmt.rowset_start >= 0) => seen.prev = RestOf(stmt.save)
  /\ (call.pc \in {"last", "position"} /\ stmt.rowset_start >= 0) => seen.prev = RestOf(call.prev)
  /\ call.pc \in {"last", "position"} => stmt.rowset_start <= FarEnough
  /\ call.pc \notin {"idle", "last", "position"} => stmt.save = -1

\* Where the call under way may go.
Aims == scroll!Targets(call.o, call.k, call.size)

Aimed ==
  /\ call.pc \in {"move", "row", "fill", "return", "error"} =>
       stmt.rowset_start >= 0 /\ stmt.rowset_start + 1 \in Aims
  /\ call.pc = "nodata" =>
       \/ 0 \in Aims /\ stmt.rowset_start = -1
       \/ stmt.rowset_start = srv.n /\ \E a \in Aims : a > srv.n

\* The rows so far are the rows of the rowset, one by one.
Delivered ==
  /\ call.rows \in Seq(Int) /\ Len(call.rows) <= call.size
  /\ call.pc \in {"idle", "last", "position", "move", "nodata"} => call.rows = <<>>
  /\ \A i \in 1..Len(call.rows) : call.rows[i] = stmt.rowset_start + i
  /\ call.pc \in {"row", "fill"} => Len(call.rows) < call.size
  /\ call.pc \in {"move", "row", "fill"} =>
       /\ stmt.currTuple = stmt.rowset_start - 1 + Len(call.rows)
       /\ res.reqsize = call.size /\ res.valid
  /\ (call.pc \in {"row", "fill", "return"} /\ Len(call.rows) > 0) =>
       res.valid /\ res.base >= 0 /\ res.base + Len(call.rows) <= Len(res.cached)
  /\ (call.pc = "return" /\ ~call.refused) =>
       Len(call.rows) = call.size \/ stmt.rowset_start + Len(call.rows) >= srv.n

Failing ==
  /\ call.refused => call.pc = "error" \/ (call.pc = "return" /\ call.rows = <<>>)
  /\ call.pc = "error" => call.refused

\* The next row is in the window, or right behind it.
Reading ==
  /\ res.base >= 0 /\ res.fetch_number = res.base + Len(call.rows)
  /\ res.fetch_number <= Len(res.cached) /\ res.moving = 0 /\ res.move_offset = 0

\* A move is planned, made, and followed by a FETCH.
Moves ==
  /\ call.pc \in {"last", "position", "move"} => res.moving = 0 /\ res.move_offset = 0
  /\ (call.pc = "move" /\ res.eof) => stmt.rowset_start <= srv.n
  /\ call.pc = "move" => res.cursor
  /\ (call.pc = "row" /\ ~res.cursor) => ~stmt.fetchcursor
  /\ (call.pc = "row" /\ res.cursor /\ res.move_offset = 0) => Reading
  /\ (call.pc = "row" /\ res.cursor /\ res.move_offset # 0) =>
       /\ call.rows = <<>>
       /\ \/ res.moving = 1 /\ res.move_offset = stmt.rowset_start - srv.pos
          \/ res.moving = -1 /\ res.move_offset = srv.pos - stmt.rowset_start
  /\ (call.pc = "fill" /\ res.moving = 0) =>
       /\ Reading /\ res.fetch_number = Len(res.cached) /\ call.offset = 0
       /\ res.eof => stmt.currTuple + 1 < srv.n
  /\ (call.pc = "fill" /\ res.moving # 0) =>
       /\ call.rows = <<>> /\ call.offset >= 0 /\ srv.pos = stmt.rowset_start - call.offset
       /\ call.offset < FetchSize \/ srv.pos = srv.n + 1

\* The cursor ran over the end.
Loose == res.eof /\ srv.pos = srv.n + 1

\* The cursor stands on the last row of the window, or ran over the end from there.
Joined == End = srv.pos \/ (Loose /\ End = srv.n)

\* The rowset that the call looks for lies behind the window.
Ahead == \/ call.o = "last" /\ srv.n - call.size > End
         \/ call.o = "absolute" /\ call.k < 0 /\ srv.n + call.k > End

\* After MOVE ALL the cursor has yet to go back to the rowset.
OnTheWay == \/ call.pc = "position" /\ Ahead
            \/ call.pc = "move" /\ res.base > Len(res.cached)
            \/ call.pc = "row" /\ res.move_offset # 0

Linked ==
  /\ (res.cursor /\ ~Stale) => Joined \/ (Loose /\ (~srv.alive \/ OnTheWay))
  /\ call.pc = "last" => Ahead
  /\ (call.pc = "position" /\ (call.o = "last" \/ (call.o = "absolute" /\ call.k < 0))) => res.eof

\* What the application was given is in the window.
Shown ==
  /\ seen.rows \in Seq(Int)
  /\ (call.pc = "idle" /\ seen.ok /\ Len(seen.rows) > 0) =>
       /\ res.valid /\ res.base >= 0 /\ res.base + Len(seen.rows) <= Len(res.cached)
       /\ \A i \in 1..Len(seen.rows) : seen.rows[i] = stmt.rowset_start + i

WInv == /\ Bounds /\ Kinds /\ Window /\ Ended /\ Standing /\ Aimed
        /\ Delivered /\ Failing /\ Moves /\ Linked /\ Shown

--------------------
(* The switch on the orientation.                                          *)

\* What is known when the rowset is looked for.
Looking ==
  /\ Types /\ Pictured(res, srv) /\ Bounds /\ Standing
  /\ call.pc = "position" /\ res.open /\ (res.eof \/ res.cursor)
  /\ (call.o = "last" \/ (call.o = "absolute" /\ call.k < 0)) => res.eof

\* The start of the rowset that was found, when Scroll's rule leads to row a.
Leads(target, a) ==
  IF target < 0 THEN IF target + call.size <= 0 THEN a = 0 ELSE a = 1
  ELSE a = target + 1

\* The call goes behind the end, or where Scroll's rule says.
Lands ==
  IF Target >= NumTuples THEN NumTuples = srv.n /\ \E a \in Aims : a > srv.n
  ELSE \E a \in Aims : Leads(Target, a)

LEMMA LookingFacts ==
  ASSUME Looking
  PROVE  /\ stmt.rowset_start \in -1..FarEnough /\ call.k \in -(MaxRows + 1)..(MaxRows + 1)
         /\ call.size \in 1..MaxSize /\ srv.n \in 0..MaxRows /\ seen.n = srv.n
         /\ seen.at = stmt.rowset_start + 1
         /\ NumTuples = srv.n \/ (~res.eof /\ NumTuples = INT_MAX)
         /\ res.eof => NumTuples = srv.n /\ res.num_total_read = srv.n
         /\ stmt.rowset_start >= 0 => seen.prev = RestOf(call.prev)
         /\ call.prev \in Int /\ call.prev <= MaxSize
         /\ MaxRows \in Nat /\ MaxSize \in Nat /\ INT_MAX \in Nat /\ INT_MAX > 2 * (MaxRows + MaxSize + 1)
         /\ FarEnough = MaxRows + MaxSize
<1>1. res.eof => NumTuples = srv.n /\ res.num_total_read = srv.n
  BY DEF Looking, NumTuples, Pictured, QR_get_num_total_tuples
<1>2. ~res.eof => NumTuples = INT_MAX BY DEF Looking, NumTuples
<1>3. stmt.rowset_start \in Int /\ call.prev \in Int BY DEF Looking, Types, StmtType, CallType
<1> QED BY <1>1, <1>2, <1>3, SizeAssumption, FitsAssumption DEF Looking, Bounds, Standing, FarEnough

LEMMA LeadsNext ==
  ASSUME Looking, call.o = "next"
  PROVE  Lands
<1>1. Target = NextStart BY DEF Target
<1>2. Aims = {IF seen.at = 0 THEN 1 ELSE seen.at + (IF seen.prev > 0 THEN seen.prev ELSE call.size)}
  BY DEF Aims, scroll!Targets
<1> QED BY <1>1, <1>2, LookingFacts DEF NextStart, Leads, Lands, RestOf

LEMMA LeadsPrior ==
  ASSUME Looking, call.o = "prior"
  PROVE  Lands
<1>1. Target = PriorStart BY DEF Target
<1>2. Aims = IF seen.at <= 1 THEN {0}
             ELSE IF seen.at <= call.size THEN {1}
             ELSE {seen.at - call.size} \cup (IF seen.at > seen.n /\ call.size > seen.n THEN {1} ELSE {})
  BY DEF Aims, scroll!Targets
<1> QED BY <1>1, <1>2, LookingFacts DEF PriorStart, Leads, Lands, Before, BOF

LEMMA LeadsFirst ==
  ASSUME Looking, call.o = "first"
  PROVE  Lands
<1>1. Target = 0 BY DEF Target
<1>2. Aims = {1} BY DEF Aims, scroll!Targets
<1> QED BY <1>1, <1>2, LookingFacts DEF Leads, Lands

LEMMA LeadsLast ==
  ASSUME Looking, call.o = "last"
  PROVE  Lands
<1>1. Target = LastStart /\ res.eof BY DEF Target, Looking
<1>2. Aims = {IF seen.n = 0 THEN 0 ELSE IF seen.n < call.size THEN 1 ELSE seen.n - call.size + 1}
  BY DEF Aims, scroll!Targets
<1> QED
  BY <1>1, <1>2, LookingFacts
  DEF LastStart, FromEnd, getNthValid, QR_get_num_total_tuples, Leads, Lands, Before, BOF

LEMMA LeadsAbsolute ==
  ASSUME Looking, call.o = "absolute"
  PROVE  Lands
<1>1. Target = AbsoluteStart /\ (call.k < 0 => res.eof) BY DEF Target, Looking
<1>2. Aims = {IF call.k >= 0 THEN call.k
              ELSE IF seen.n = 0 THEN 0 ELSE IF -call.k > seen.n THEN 1 ELSE seen.n + 1 + call.k}
  BY DEF Aims, scroll!Targets
<1> QED
  BY <1>1, <1>2, LookingFacts
  DEF AbsoluteStart, FromEnd, FromStart, getNthValid, QR_get_num_total_tuples, Leads, Lands, Before, BOF

LEMMA LeadsRelative ==
  ASSUME Looking, call.o = "relative"
  PROVE  Lands
<1>1. Target = RelativeStart BY DEF Target
<1>2. Aims = {IF seen.at = 0 /\ call.k <= 0 THEN (IF call.size = 1 THEN 0 ELSE 1)
              ELSE IF call.k < 0 /\ seen.at = 1 THEN 0
              ELSE IF seen.at + call.k < 1 THEN 1 ELSE seen.at + call.k}
  BY DEF Aims, scroll!Targets
<1>3. CASE call.k = 0 BY <1>1, <1>2, <1>3, LookingFacts DEF RelativeStart, Leads, Lands
<1>4. CASE call.k > 0
  BY <1>1, <1>2, <1>4, LookingFacts
  DEF RelativeStart, FromStart, getNthValid, QR_get_num_total_tuples, Leads, Lands
<1>5. CASE call.k < 0
  <2>1. RelativeStart = IF stmt.rowset_start >= -call.k THEN stmt.rowset_start + call.k
                        ELSE IF stmt.rowset_start = -1 THEN -1
                        ELSE IF stmt.rowset_start = 0 THEN Before ELSE 0
    BY <1>5, LookingFacts DEF RelativeStart, FromEnd, getNthValid
  <2> QED BY <1>1, <1>2, <1>5, <2>1, LookingFacts DEF Leads, Lands, Before, BOF
<1> QED BY <1>3, <1>4, <1>5, LookingFacts

LEMMA LeadsBookmark ==
  ASSUME Looking, call.o = "bookmark"
  PROVE  Lands
<1>1. Target = BookmarkStart BY DEF Target
<1>2. Aims = {IF call.k < 1 THEN 0 ELSE call.k} BY DEF Aims, scroll!Targets
<1> QED
  BY <1>1, <1>2, LookingFacts
  DEF BookmarkStart, FromStart, getNthValid, QR_get_num_total_tuples, Leads, Lands, Before, BOF

LEMMA Landing ==
  ASSUME Looking
  PROVE  Lands
<1>1. call.o \in Orientations BY DEF Looking, Types, CallType
<1> QED
  BY <1>1, LeadsNext, LeadsPrior, LeadsFirst, LeadsLast, LeadsAbsolute, LeadsRelative, LeadsBookmark DEF
    Orientations

--------------------
(* What the steps leave behind.                                            *)

\* SC_set_rowset_start does not move the window.
LEMMA RowsetSet ==
  ASSUME Types, NEW place \in Int, SC_set_rowset_start(place)
  PROVE  /\ stmt'.rowset_start = place /\ stmt'.currTuple = place - 1 /\ stmt'.save = -1
         /\ stmt'.fetchcursor = stmt.fetchcursor /\ stmt'.forward = stmt.forward
         /\ stmt'.fetch_max = stmt.fetch_max
         /\ res'.base = IF ~stmt.fetchcursor THEN place
                        ELSE IF res.valid THEN res.base + place - stmt.rowset_start
                        ELSE IF place < 0 THEN -1 ELSE place
         /\ res'.valid /\ res'.reqsize = call.size
         /\ res'.open = res.open /\ res'.cursor = res.cursor /\ res'.cached = res.cached
         /\ res'.dataFilled = res.dataFilled /\ res'.num_total_read = res.num_total_read
         /\ res'.eof = res.eof /\ res'.cursTuple = res.cursTuple
         /\ res'.fetch_number = res.fetch_number /\ res'.moving = res.moving
         /\ res'.move_offset = res.move_offset /\ res'.chain = res.chain
<1> DEFINE base == IF ~stmt.fetchcursor THEN place
                   ELSE IF res.valid THEN res.base + place - stmt.rowset_start
                   ELSE IF place < 0 THEN -1 ELSE place
<1>1. StmtType /\ ResultType(res) BY DEF Types
<1>2. PICK yes : yes = TRUE /\ res' = [res EXCEPT !.base = base, !.valid = yes, !.reqsize = call.size]
  BY Zenon DEF SC_set_rowset_start
<1>3. stmt' = [stmt EXCEPT !.rowset_start = place, !.currTuple = place - 1, !.save = -1]
  BY DEF SC_set_rowset_start
<1>4. /\ stmt'.rowset_start = place /\ stmt'.currTuple = place - 1 /\ stmt'.save = -1
      /\ stmt'.fetchcursor = stmt.fetchcursor /\ stmt'.forward = stmt.forward
      /\ stmt'.fetch_max = stmt.fetch_max
  BY <1>1, <1>3 DEF StmtType, StmtFields
<1> HIDE DEF base
<1>5. res'.base = base /\ res'.valid = yes /\ res'.reqsize = call.size
  BY <1>1, <1>2 DEF ResultType, ResFields
<1>6. /\ res'.open = res.open /\ res'.cursor = res.cursor /\ res'.cached = res.cached
      /\ res'.dataFilled = res.dataFilled /\ res'.num_total_read = res.num_total_read
      /\ res'.eof = res.eof /\ res'.cursTuple = res.cursTuple
      /\ res'.fetch_number = res.fetch_number /\ res'.moving = res.moving
      /\ res'.move_offset = res.move_offset /\ res'.chain = res.chain
  BY <1>1, <1>2 DEF ResultType, ResFields
<1>7. res'.valid BY <1>2, <1>5, Zenon
<1> QED BY <1>4, <1>5, <1>6, <1>7, Zenon DEF base

\* A call that goes on at another step.
LEMMA Onward ==
  ASSUME CallType, NEW to, call' = [call EXCEPT !.pc = to]
  PROVE  /\ call'.pc = to /\ call'.o = call.o /\ call'.k = call.k /\ call'.size = call.size
         /\ call'.rows = call.rows /\ call'.refused = call.refused /\ call'.prev = call.prev
         /\ call'.offset = call.offset
BY DEF CallType, CallFields

\* A refused command.
LEMMA RefuseLeaves ==
  ASSUME SrvType, CallType, NEW to, Refuse(to)
  PROVE  /\ srv'.n = srv.n /\ srv'.pos = srv.pos /\ ~srv'.alive
         /\ call'.pc = to /\ call'.refused = TRUE
         /\ call'.o = call.o /\ call'.k = call.k /\ call'.size = call.size
         /\ call'.rows = call.rows /\ call'.prev = call.prev /\ call'.offset = call.offset
<1>1. PICK no, yes : /\ no = FALSE /\ yes = TRUE
                     /\ srv' = [srv EXCEPT !.alive = no]
                     /\ call' = [call EXCEPT !.refused = yes, !.pc = to]
  BY Zenon DEF Refuse
<1>2. srv'.n = srv.n /\ srv'.pos = srv.pos /\ srv'.alive = no BY <1>1 DEF SrvType, SrvFields
<1>3. /\ call'.pc = to /\ call'.refused = yes
      /\ call'.o = call.o /\ call'.k = call.k /\ call'.size = call.size
      /\ call'.rows = call.rows /\ call'.prev = call.prev /\ call'.offset = call.offset
  BY <1>1 DEF CallType, CallFields
<1> QED BY <1>1, <1>2, <1>3, Zenon

\* GotRow: one row more.
LEMMA RowAdded ==
  ASSUME StmtType, CallType, Delivered, NEW row \in Int, GotRow(row, call)
  PROVE  /\ stmt'.rowset_start = stmt.rowset_start /\ stmt'.currTuple = stmt.currTuple + 1
         /\ stmt'.save = stmt.save /\ stmt'.fetchcursor = stmt.fetchcursor
         /\ stmt'.forward = stmt.forward /\ stmt'.fetch_max = stmt.fetch_max
         /\ call'.pc = IF Len(call.rows) + 1 = call.size THEN "return" ELSE "row"
         /\ call'.rows \in Seq(Int) /\ Len(call'.rows) = Len(call.rows) + 1
         /\ \A i \in 1..Len(call.rows) : call'.rows[i] = call.rows[i]
         /\ call'.rows[Len(call.rows) + 1] = row
         /\ call'.o = call.o /\ call'.k = call.k /\ call'.size = call.size
         /\ call'.refused = call.refused /\ call'.prev = call.prev /\ call'.offset = call.offset
<1>1. call.rows \in Seq(Int) BY DEF Delivered
<1>2. /\ stmt'.rowset_start = stmt.rowset_start /\ stmt'.currTuple = stmt.currTuple + 1
      /\ stmt'.save = stmt.save /\ stmt'.fetchcursor = stmt.fetchcursor
      /\ stmt'.forward = stmt.forward /\ stmt'.fetch_max = stmt.fetch_max
  BY DEF StmtType, StmtFields, GotRow
<1>3. PICK to, rows : /\ to = IF Len(call.rows) + 1 = call.size THEN "return" ELSE "row"
                      /\ rows = Append(call.rows, row)
                      /\ call' = [call EXCEPT !.rows = rows, !.pc = to]
  BY DEF GotRow
<1>4. /\ call'.pc = to /\ call'.rows = rows
      /\ call'.o = call.o /\ call'.k = call.k /\ call'.size = call.size
      /\ call'.refused = call.refused /\ call'.prev = call.prev /\ call'.offset = call.offset
  BY <1>3 DEF CallType, CallFields
<1>5. /\ rows \in Seq(Int) /\ Len(rows) = Len(call.rows) + 1
      /\ \A i \in 1..Len(call.rows) : rows[i] = call.rows[i]
      /\ rows[Len(call.rows) + 1] = row
  BY <1>1, <1>3
<1> QED BY <1>2, <1>3, <1>4, <1>5, Zenon

\* SC_fetch at the end of the rows: only a forward-only cursor is closed.
LEMMA RowsOver ==
  ASSUME StmtType, NEW r, ResultType(r), NoRow(r)
  PROVE  /\ stmt' = stmt
         /\ res'.open = r.open /\ res'.cached = r.cached /\ res'.dataFilled = r.dataFilled
         /\ res'.num_total_read = r.num_total_read /\ res'.eof = r.eof /\ res'.base = r.base
         /\ res'.valid = r.valid /\ res'.chain = r.chain
         /\ \/ res'.cursor = r.cursor /\ res'.cursTuple = r.cursTuple
            \/ ~res'.cursor /\ r.eof /\ r.cursor /\ stmt.forward
<1>1. stmt' = stmt BY DEF NoRow
<1>2. CASE res' = r BY <1>1, <1>2, Zenon
<1>3. CASE stmt.forward /\ r.eof /\ r.cursor /\ res' = [r EXCEPT !.cursor = FALSE, !.cursTuple = -1]
  <2>1. PICK no : no = FALSE /\ res' = [r EXCEPT !.cursor = no, !.cursTuple = -1] BY <1>3, Zenon
  <2>2. /\ res'.open = r.open /\ res'.cached = r.cached /\ res'.dataFilled = r.dataFilled
        /\ res'.num_total_read = r.num_total_read /\ res'.eof = r.eof /\ res'.base = r.base
        /\ res'.valid = r.valid /\ res'.chain = r.chain /\ res'.cursor = no
    BY <2>1 DEF ResultType, ResFields
  <2> QED BY <1>1, <1>3, <2>1, <2>2, Zenon
<1> QED BY <1>2, <1>3, Zenon DEF NoRow

--------------------
(* The actions.                                                            *)

LEMMA BeginLeaves ==
  ASSUME ResultType(res), NEW o, NEW k, NEW size, Begin(o, k, size)
  PROVE  /\ stmt' = stmt /\ srv' = srv /\ seen' = seen
         /\ call'.pc = IF MovesToLast(o, k) THEN "last" ELSE "position"
         /\ call'.o = o /\ call'.k = k /\ call'.size = size /\ call'.prev = stmt.save
         /\ call'.rows = <<>> /\ ~call'.refused /\ call'.offset = 0
         /\ res'.moving = 0 /\ res'.move_offset = 0
         /\ res'.open = res.open /\ res'.cursor = res.cursor /\ res'.cached = res.cached
         /\ res'.dataFilled = res.dataFilled /\ res'.num_total_read = res.num_total_read
         /\ res'.eof = res.eof /\ res'.base = res.base /\ res'.valid = res.valid
         /\ res'.chain = res.chain
<1>1. stmt' = stmt /\ srv' = srv /\ seen' = seen BY DEF Begin
<1>2. PICK to, save : /\ to = IF MovesToLast(o, k) THEN "last" ELSE "position"
                      /\ save = stmt.save
                      /\ call' = [Idle EXCEPT !.pc = to, !.o = o, !.k = k, !.size = size, !.prev = save]
  BY Zenon DEF Begin
<1>3. /\ call'.pc = to /\ call'.o = o /\ call'.k = k /\ call'.size = size /\ call'.prev = save
      /\ call'.rows = <<>> /\ call'.offset = 0
  BY <1>2 DEF Idle
<1>4. ~call'.refused BY <1>2 DEF Idle
<1>5. res' = [res EXCEPT !.moving = 0, !.move_offset = 0] BY DEF Begin
<1>6. /\ res'.moving = 0 /\ res'.move_offset = 0
      /\ res'.open = res.open /\ res'.cursor = res.cursor /\ res'.cached = res.cached
      /\ res'.dataFilled = res.dataFilled /\ res'.num_total_read = res.num_total_read
      /\ res'.eof = res.eof /\ res'.base = res.base /\ res'.valid = res.valid
      /\ res'.chain = res.chain
  BY <1>5 DEF ResultType, ResFields
<1> QED BY <1>1, <1>2, <1>3, <1>4, <1>6, Zenon

LEMMA BeginWindow ==
  ASSUME NoHabits, IInv, WInv, NEW o \in Orientations, NEW size \in 1..MaxSize, NEW k \in Offsets(o),
         Begin(o, k, size)
  PROVE  WInv'
<1>1. /\ Types /\ ResultType(res) /\ Pictured(res, srv) /\ Bounds /\ Kinds /\ Window /\ Ended /\ Standing
      /\ Linked /\ Shown
  BY DEF IInv, Types, WInv
<1>2. /\ call.pc = "idle" /\ res.open /\ stmt.rowset_start <= FarEnough
      /\ stmt.forward => o = "next"
      /\ (stmt.fetchcursor /\ ~res.cursor) => srv.alive
      /\ MovesToLast(o, k) => srv.n + (IF o = "last" THEN -size ELSE k) > End
  <2>1. /\ call.pc = "idle" /\ res.open /\ stmt.rowset_start <= FarEnough
        /\ (stmt.forward => o = "next") /\ Prudent(o, k, size)
    BY DEF Begin
  <2>2. WindowEnd = End
    <3>1. stmt.rowset_start \in Int /\ res.base \in Int /\ Len(res.cached) \in Int
      BY <1>1 DEF Types, StmtType, ResultType
    <3> QED BY <3>1 DEF WindowEnd, End, Front
  <2>3. MovesToLast(o, k) => srv.n + (IF o = "last" THEN -size ELSE k) > WindowEnd
    BY <2>1, Zenon DEF Prudent, NoHabits
  <2>4. stmt.fetchcursor /\ ~res.cursor => srv.alive BY <2>1, Zenon DEF Prudent, NoHabits
  <2> QED BY <2>1, <2>2, <2>3, <2>4, Zenon
<1>3. /\ stmt' = stmt /\ srv' = srv /\ seen' = seen
      /\ call'.pc = IF MovesToLast(o, k) THEN "last" ELSE "position"
      /\ call'.o = o /\ call'.k = k /\ call'.size = size /\ call'.prev = stmt.save
      /\ call'.rows = <<>> /\ ~call'.refused /\ call'.offset = 0
      /\ res'.moving = 0 /\ res'.move_offset = 0
      /\ res'.open = res.open /\ res'.cursor = res.cursor /\ res'.cached = res.cached
      /\ res'.dataFilled = res.dataFilled /\ res'.num_total_read = res.num_total_read
      /\ res'.eof = res.eof /\ res'.base = res.base /\ res'.valid = res.valid
      /\ res'.chain = res.chain
  BY <1>1, BeginLeaves
<1>4. Front' = Front /\ End' = End /\ ~Stale /\ ~Stale' BY <1>2, <1>3 DEF Front, End, Stale
<1>5. k \in -(MaxRows + 1)..(MaxRows + 1) BY SizeAssumption DEF Offsets
<1>6. Bounds' BY <1>1, <1>3, <1>5 DEF Bounds
<1>7. Kinds' BY <1>1, <1>2, <1>3, <1>4 DEF Kinds
<1>8. Window' BY <1>1, <1>3, <1>4 DEF Window
<1>9. Ended' BY <1>1, <1>2, <1>3 DEF Ended, MovesToLast
<1>10. Standing' BY <1>1, <1>2, <1>3 DEF Standing, FarEnough
<1>11. Aimed' /\ Failing' /\ Shown' BY <1>1, <1>3 DEF Aimed, Failing, Shown
<1>12. Delivered' BY <1>3, SizeAssumption DEF Delivered
<1>13. Moves' BY <1>3 DEF Moves
<1>14. Linked'
  <2>1. (res'.cursor /\ ~Stale') => Joined' \/ (Loose' /\ ~srv'.alive)
    BY <1>1, <1>2, <1>3, <1>4 DEF Linked, Joined, Loose, OnTheWay
  <2>2. call'.pc = "last" => Ahead' BY <1>2, <1>3, <1>4 DEF Ahead, MovesToLast
  <2>3. (call'.pc = "position" /\ (call'.o = "last" \/ (call'.o = "absolute" /\ call'.k < 0))) => res'.eof
    BY <1>1, <1>2, <1>3 DEF MovesToLast, Kinds
  <2> QED BY <2>1, <2>2, <2>3 DEF Linked
<1> QED BY <1>6, <1>7, <1>8, <1>9, <1>10, <1>11, <1>12, <1>13, <1>14 DEF WInv

\* A new result: its window starts with its first row.
LEMMA NewResult ==
  ASSUME NEW k \in Nat, NEW cursor \in BOOLEAN, NEW first \in Nat, NEW r,
         r = Answer(k, cursor, first), cursor => first > 0
  PROVE  /\ r.cached \in Seq(Int) /\ r.dataFilled /\ ~r.valid /\ r.base = 0 /\ r.chain = 0
         /\ Len(r.cached) = r.num_total_read
         /\ \A i \in 1..Len(r.cached) : r.cached[i] = i
         /\ ~cursor => Len(r.cached) = k
         /\ cursor => \/ Len(r.cached) = first /\ first <= k
                      \/ Len(r.cached) = k /\ k < first /\ r.eof
<1> DEFINE got   == IF cursor THEN Lesser(k, first) ELSE k
           short == cursor /\ got < first
<1>1. r.cached = [i \in 1..got |-> i] /\ r.num_total_read = got /\ r.base = 0 /\ r.chain = 0
  BY DEF Answer, NoResult
<1>2. r.dataFilled /\ ~r.valid /\ r.eof = (short \/ ~cursor) BY DEF Answer, NoResult
<1>3. got \in Nat /\ (~cursor => got = k) /\ (cursor => got = Lesser(k, first)) BY DEF Lesser
<1>4. r.eof <=> short \/ ~cursor BY <1>2, Zenon
<1>5. short <=> cursor /\ got < first OBVIOUS
<1> HIDE DEF got, short
<1>6. r.cached \in Seq(Int) /\ Len(r.cached) = got /\ \A i \in 1..got : r.cached[i] = i BY <1>1, <1>3
<1>7. cursor => \/ got = first /\ first <= k
                \/ got = k /\ k < first /\ r.eof
  <2> SUFFICES ASSUME cursor PROVE \/ got = first /\ first <= k
                                   \/ got = k /\ k < first /\ r.eof
    OBVIOUS
  <2>1. got = Lesser(k, first) BY <1>3
  <2>2. got < first => r.eof BY <1>4, <1>5, Zenon
  <2>3. (got = first /\ first <= k) \/ (got = k /\ k < first) BY <2>1 DEF Lesser
  <2>4. (got = k /\ k < first) => got < first BY Zenon
  <2> QED BY <2>2, <2>3, <2>4, Zenon
<1> QED BY <1>1, <1>2, <1>3, <1>6, <1>7

\* What holds of any new result, once the rest of the state is set.
Started(k) ==
  /\ k \in 0..MaxRows
  /\ srv'.n = k /\ seen'.n = k /\ seen'.at = 0 /\ seen'.rows = <<>>
  /\ stmt'.rowset_start = -1 /\ stmt'.save = stmt.save
  /\ call' = call /\ call.pc = "idle"
  /\ ~res'.valid
  /\ res'.cached \in Seq(Int)
  /\ Len(res'.cached) > 0 => res'.dataFilled /\ Len(res'.cached) <= res'.num_total_read
  /\ \A i \in 1..Len(res'.cached) : res'.cached[i] = i

LEMMA StartedWindow ==
  ASSUME WInv, NEW k, Started(k), stmt'.fetch_max > 0, Kinds', Linked',
         res'.open => (stmt'.fetchcursor => res'.cursor)
  PROVE  WInv'
<1>1. Front' = 0 /\ End' = 0 + Len(res'.cached) /\ ~Stale' BY DEF Front, End, Stale, Started
<1>2. Bounds' BY DEF WInv, Bounds, Started
<1>3. Window' BY <1>1 DEF Window, Started
<1>4. Ended' BY DEF Ended, Started
<1>5. Standing' BY DEF Standing, Started
<1>6. Aimed' /\ Failing' /\ Moves' BY DEF WInv, Aimed, Failing, Moves, Started
<1>7. Delivered' BY SizeAssumption DEF WInv, Bounds, Delivered, Started
<1>8. Shown' BY DEF Shown, Started
<1> QED BY <1>2, <1>3, <1>4, <1>5, <1>6, <1>7, <1>8 DEF WInv

LEMMA ExecuteWindow ==
  ASSUME IInv, WInv, Execute
  PROVE  WInv'
<1>1. PICK k \in 0..MaxRows, cursor, forward \in BOOLEAN, f \in FetchMax, chain \in {0, 1} :
        /\ IF cursor THEN chain = 0 ELSE f = CHOOSE g \in FetchMax : TRUE
        /\ stmt' = [Fresh(stmt) EXCEPT !.fetchcursor = cursor, !.forward = forward, !.fetch_max = f]
        /\ res' = [Answer(k, cursor, f) EXCEPT !.chain = chain]
        /\ srv' = [n |-> k, pos |-> IF cursor THEN Lesser(f, k + 1) ELSE 0, alive |-> TRUE]
        /\ seen' = [Nothing EXCEPT !.n = k]
  BY Zenon DEF Execute
<1>2. /\ StmtType /\ call' = call /\ call.pc = "idle"
      /\ k \in Nat /\ f \in Nat \ {0} /\ cursor \in BOOLEAN
  BY SizeAssumption, FetchAssumption DEF IInv, Types, Execute
<1>3. /\ stmt'.rowset_start = -1 /\ stmt'.save = stmt.save /\ stmt'.fetch_max = f
      /\ stmt'.fetchcursor = cursor
  BY <1>1, <1>2 DEF StmtType, StmtFields, Fresh
<1>4. PICK r : r = Answer(k, cursor, f) OBVIOUS
<1>5. cursor => f > 0 BY <1>2
<1>6. k \in Nat /\ f \in Nat BY <1>2
<1>7. /\ ResultType(r) /\ r.open /\ r.cursor = cursor /\ (~cursor => r.eof)
  BY <1>4, <1>5, <1>6, AnswerPictured
<1>8. /\ r.cached \in Seq(Int) /\ r.dataFilled /\ ~r.valid /\ r.base = 0 /\ r.chain = 0
      /\ Len(r.cached) = r.num_total_read
      /\ \A i \in 1..Len(r.cached) : r.cached[i] = i
      /\ ~cursor => Len(r.cached) = k
      /\ cursor => \/ Len(r.cached) = f /\ f <= k
                   \/ Len(r.cached) = k /\ k < f /\ r.eof
  BY <1>4, <1>5, <1>6, NewResult
<1>9. /\ res'.open = r.open /\ res'.cursor = r.cursor /\ res'.cached = r.cached
      /\ res'.dataFilled = r.dataFilled /\ res'.num_total_read = r.num_total_read
      /\ res'.eof = r.eof /\ res'.base = r.base /\ res'.valid = r.valid /\ res'.chain = chain
  BY <1>1, <1>4, <1>7 DEF ResultType, ResFields
<1>10. srv'.n = k /\ srv'.pos = IF cursor THEN Lesser(f, k + 1) ELSE 0 BY <1>1
<1>11. seen'.n = k /\ seen'.at = 0 /\ seen'.rows = <<>> BY <1>1 DEF Nothing
<1>12. Started(k) BY <1>2, <1>3, <1>8, <1>9, <1>10, <1>11 DEF Started
<1>13. Front' = 0 /\ End' = 0 + Len(res'.cached) /\ ~Stale' BY <1>12 DEF Front, End, Stale, Started
<1>14. Kinds'
  <2>1. cursor => res'.chain = 0 BY <1>1, <1>9
  <2>2. res'.cursor = cursor /\ res'.open /\ (~cursor => res'.eof) BY <1>7, <1>9
  <2>3. ~cursor => Len(res'.cached) = srv'.n BY <1>8, <1>9, <1>10
  <2> QED BY <1>2, <1>3, <1>13, <2>1, <2>2, <2>3 DEF Kinds
<1>15. Linked'
  <2>1. cursor => srv'.pos = Lesser(f, k + 1) BY <1>10
  <2>2. res'.cursor => Joined' BY <1>2, <1>7, <1>8, <1>9, <1>10, <1>13, <2>1 DEF Joined, Loose, Lesser
  <2> QED BY <1>2, <2>2 DEF Linked
<1>16. stmt'.fetch_max > 0 BY <1>2, <1>3
<1> QED BY <1>3, <1>7, <1>9, <1>12, <1>14, <1>15, <1>16, StartedWindow

LEMMA MoreResultsWindow ==
  ASSUME IInv, WInv, PGAPI_MoreResults
  PROVE  WInv'
<1>1. /\ StmtType /\ Kinds /\ Bounds /\ call' = call /\ call.pc = "idle" /\ stmt' = Fresh(stmt)
      /\ res.open
  BY DEF IInv, Types, WInv, PGAPI_MoreResults
<1>2. /\ stmt'.rowset_start = -1 /\ stmt'.save = stmt.save /\ stmt'.fetch_max = stmt.fetch_max
      /\ stmt'.fetchcursor = stmt.fetchcursor
  BY <1>1 DEF StmtType, StmtFields, Fresh
<1>3. stmt'.fetch_max > 0 BY <1>1, <1>2 DEF Bounds
<1>4. CASE res.chain = 1
  <2>1. ~stmt.fetchcursor BY <1>1, <1>4 DEF Kinds
  <2>2. PICK k \in 0..MaxRows : /\ res' = Answer(k, FALSE, 0)
                                /\ srv' = [n |-> k, pos |-> 0, alive |-> TRUE]
                                /\ seen' = [Nothing EXCEPT !.n = k]
    <3>1. res.chain # 0 BY <1>4
    <3> QED BY <3>1, Zenon DEF PGAPI_MoreResults
  <2>3. k \in Nat BY SizeAssumption
  <2>4. PICK b : b = FALSE /\ res' = Answer(k, b, 0) BY <2>2, Zenon
  <2>5. b \in BOOLEAN /\ ~b BY <2>4, Zenon
  <2>6. res'.open /\ res'.cursor = b /\ res'.eof BY <2>3, <2>4, <2>5, AnswerPictured
  <2>7. /\ res'.cached \in Seq(Int) /\ res'.dataFilled /\ ~res'.valid /\ res'.base = 0 /\ res'.chain = 0
        /\ Len(res'.cached) = res'.num_total_read /\ Len(res'.cached) = k
        /\ \A i \in 1..Len(res'.cached) : res'.cached[i] = i
    BY <2>3, <2>4, <2>5, NewResult
  <2>8. srv'.n = k /\ seen'.n = k /\ seen'.at = 0 /\ seen'.rows = <<>> BY <2>2 DEF Nothing
  <2>9. Started(k) BY <1>1, <1>2, <2>7, <2>8 DEF Started
  <2>10. ~res'.cursor BY <2>5, <2>6, Zenon
  <2>11. Kinds' /\ Linked' BY <1>1, <1>2, <2>1, <2>6, <2>7, <2>8, <2>10 DEF Kinds, Linked, Front
  <2> QED BY <1>2, <1>3, <2>1, <2>9, <2>11, StartedWindow
<1>5. CASE res.chain = 0
  <2>1. res' = NoResult /\ srv' = [n |-> 0, pos |-> 0, alive |-> FALSE] /\ seen' = Nothing
    BY <1>5 DEF PGAPI_MoreResults
  <2>2. /\ ~res'.open /\ ~res'.cursor /\ ~res'.valid /\ res'.cached = <<>> BY <2>1 DEF NoResult
  <2>3. srv'.n = 0 /\ seen'.n = 0 /\ seen'.at = 0 /\ seen'.rows = <<>> BY <2>1 DEF Nothing
  <2>4. Started(0) BY <1>1, <1>2, <2>2, <2>3, SizeAssumption DEF Started
  <2>5. Kinds' /\ Linked' BY <1>1, <1>2, <2>2 DEF Kinds, Linked, Front
  <2> QED BY <1>3, <2>2, <2>4, <2>5, StartedWindow
<1> QED BY <1>4, <1>5 DEF PGAPI_MoreResults

LEMMA RollbackWindow ==
  ASSUME IInv, WInv, Rollback
  PROVE  WInv'
<1>1. /\ ResultType(res) /\ SrvType /\ WInv /\ stmt' = stmt /\ call' = call /\ seen' = seen /\ call.pc = "idle"
      /\ res.cursor /\ res.open
  BY DEF IInv, Types, Rollback
<1>2. PICK no : /\ no = FALSE /\ res' = [res EXCEPT !.cursor = no, !.cursTuple = -1]
                /\ srv' = [srv EXCEPT !.alive = no]
  BY Zenon DEF Rollback
<1>3. /\ res'.cursor = no
      /\ res'.open = res.open /\ res'.cached = res.cached /\ res'.dataFilled = res.dataFilled
      /\ res'.num_total_read = res.num_total_read /\ res'.eof = res.eof
      /\ res'.base = res.base /\ res'.valid = res.valid /\ res'.chain = res.chain
  BY <1>1, <1>2 DEF ResultType, ResFields
<1>4. srv'.n = srv.n /\ srv'.alive = no BY <1>1, <1>2 DEF SrvType, SrvFields
<1>5. ~res'.cursor /\ ~srv'.alive BY <1>2, <1>3, <1>4, Zenon
<1>6. Front' = Front /\ End' = End /\ ~Stale /\ ~Stale' BY <1>1, <1>3 DEF Front, End, Stale
<1>7. Bounds' /\ Window' /\ Ended' /\ Standing' /\ Aimed' /\ Failing' /\ Moves'
  BY <1>1, <1>3, <1>4, <1>5, <1>6 DEF WInv, Bounds, Window, Ended, Standing, Aimed, Failing, Moves
<1>8. Kinds' BY <1>1, <1>3, <1>4, <1>5, <1>6 DEF WInv, Kinds
<1>9. Delivered' /\ Linked' /\ Shown' BY <1>1, <1>3, <1>5, <1>6 DEF WInv, Delivered, Linked, Shown
<1> QED BY <1>7, <1>8, <1>9 DEF WInv

LEMMA MoveToLastWindow ==
  ASSUME NoHabits, IInv, WInv, QR_move_cursor_to_last
  PROVE  WInv'
<1>1. /\ ResultType(res) /\ SrvType /\ CallType /\ Pictured(res, srv) /\ res.cursor /\ res.open
      /\ WInv /\ call.pc = "last" /\ stmt' = stmt /\ seen' = seen
  BY DEF IInv, Types, Underway, QR_move_cursor_to_last
<1>2. ~("refused_last" \in Risky) BY DEF NoHabits
<1>3. PICK moved, yes, to :
        /\ moved = Passed(srv.n) + 1 /\ yes = TRUE /\ to = "position"
        /\ srv' = Forward(srv.n + 1)
        /\ res' = [res EXCEPT !.cursTuple = @ + moved, !.eof = yes, !.num_total_read = res.cursTuple + moved]
        /\ call' = [call EXCEPT !.pc = to]
  BY <1>2, Zenon DEF QR_move_cursor_to_last
<1>4. /\ res'.eof = yes
      /\ res'.open = res.open /\ res'.cursor = res.cursor /\ res'.cached = res.cached
      /\ res'.dataFilled = res.dataFilled /\ res'.base = res.base /\ res'.valid = res.valid
      /\ res'.moving = res.moving /\ res'.move_offset = res.move_offset /\ res'.chain = res.chain
  BY <1>1, <1>3 DEF ResultType, ResFields
<1>5. res'.eof BY <1>3, <1>4, Zenon
<1>6. srv.n \in Nat /\ srv.pos \in 0..(srv.n + 1) /\ srv.n + 1 \in Nat BY <1>1 DEF SrvType
<1>7. srv' = [srv EXCEPT !.pos = srv.n + 1] BY <1>3, <1>6 DEF Forward, Lesser
<1>8. srv'.n = srv.n /\ srv'.alive = srv.alive /\ srv'.pos = srv.n + 1
  BY <1>1, <1>7 DEF SrvType, SrvFields
<1>9. res'.num_total_read = srv'.n /\ res.num_total_read <= srv.n
  <2>1. Pictured(res, srv)' BY MoveToLastKeeps DEF IInv
  <2> QED BY <1>1, <1>4, <1>5, <1>8, <2>1 DEF Pictured
<1>10. /\ call'.pc = "position" /\ call'.o = call.o /\ call'.k = call.k /\ call'.size = call.size
       /\ call'.rows = call.rows /\ call'.refused = call.refused /\ call'.prev = call.prev
  BY <1>1, <1>3, Onward
<1>11. Front' = Front /\ End' = End /\ ~Stale /\ ~Stale' BY <1>1, <1>4, <1>10 DEF Front, End, Stale
<1>12. Bounds' /\ Kinds' BY <1>1, <1>4, <1>5, <1>8, <1>10, <1>11 DEF WInv, Bounds, Kinds
<1>13. Window'
  <2>1. End \in Int
    <3>1. stmt.rowset_start \in Int /\ res.base \in Int /\ Len(res.cached) \in Int
      BY DEF IInv, Types, StmtType, ResultType
    <3> QED BY <3>1 DEF End, Front
  <2> QED BY <1>1, <1>4, <1>6, <1>8, <1>9, <1>11, <2>1 DEF WInv, Window, Pictured
<1>14. Ended' /\ Standing' /\ Aimed' /\ Failing' /\ Moves'
  BY <1>1, <1>4, <1>10 DEF WInv, Ended, Standing, Aimed, Failing, Moves, FarEnough
<1>15. Delivered' /\ Shown' BY <1>1, <1>4, <1>10 DEF WInv, Delivered, Shown
<1>16. Linked'
  <2>1. Ahead' BY <1>1, <1>8, <1>10, <1>11 DEF WInv, Linked, Ahead
  <2>2. Loose' /\ OnTheWay' BY <1>5, <1>8, <1>10, <2>1 DEF Loose, OnTheWay
  <2> QED BY <1>5, <1>10, <2>2 DEF Linked
<1> QED BY <1>12, <1>13, <1>14, <1>15, <1>16 DEF WInv

\* The rowset is found, or there is none.
Found(place, to) ==
  \/ /\ to = "nodata" /\ place = srv.n /\ Target >= NumTuples
     /\ \E a \in Aims : a > srv.n
  \/ to = "nodata" /\ place = -1 /\ Target < 0 /\ 0 \in Aims
  \/ /\ to = IF stmt.fetchcursor THEN "move" ELSE "row"
     /\ place = (IF Target < 0 THEN 0 ELSE Target)
     /\ place >= 0 /\ place + 1 \in Aims /\ Target < NumTuples

LEMMA PositionFinds ==
  ASSUME IInv, WInv, Position
  PROVE  \E place \in Int, to \in {"nodata", "move", "row"} :
           SC_set_rowset_start(place) /\ call' = [call EXCEPT !.pc = to] /\ Found(place, to)
<1>1. Types /\ Looking /\ Target \in Int /\ NumTuples \in Int
  BY TargetType DEF IInv, Types, WInv, Looking, Position, Kinds, Linked
<1>2. /\ Target >= NumTuples => NumTuples = srv.n /\ \E a \in Aims : a > srv.n
      /\ Target < NumTuples => \E a \in Aims : Leads(Target, a)
  BY <1>1, Landing DEF Lands
<1>3. call.size \in 1..MaxSize /\ srv.n \in Int /\ MaxSize \in Nat BY SizeAssumption DEF WInv, Bounds
<1>4. CASE Target >= NumTuples /\ NoRows(NumTuples) BY <1>1, <1>2, <1>4 DEF NoRows, Found
<1>5. CASE Target < 0 /\ Target + call.size <= 0 /\ NoRows(BOF)
  <2>1. 0 \in Aims \/ srv.n < 0 BY <1>1, <1>2, <1>3, <1>5 DEF Leads
  <2>2. srv.n >= 0 BY SizeAssumption DEF WInv, Bounds
  <2>3. 0 \in Aims BY <1>3, <2>1, <2>2
  <2> QED BY <1>5, <2>3 DEF NoRows, Found, BOF
<1>6. CASE /\ Target < NumTuples /\ (Target >= 0 \/ Target + call.size > 0)
           /\ SC_set_rowset_start(IF Target < 0 THEN 0 ELSE Target)
           /\ call' = [call EXCEPT !.pc = IF stmt.fetchcursor THEN "move" ELSE "row"]
  <2> DEFINE place == IF Target < 0 THEN 0 ELSE Target
             to == IF stmt.fetchcursor THEN "move" ELSE "row"
  <2>1. place + 1 \in Aims BY <1>1, <1>2, <1>3, <1>6 DEF Leads
  <2>2. place \in Int /\ place >= 0 BY <1>1
  <2>3. Target < NumTuples BY <1>6
  <2>4. to \in {"nodata", "move", "row"} OBVIOUS
  <2>5. SC_set_rowset_start(place) /\ call' = [call EXCEPT !.pc = to] BY <1>6, Zenon
  <2>6. Found(place, to) BY <2>1, <2>2, <2>3, Zenon DEF Found
  <2> HIDE DEF place, to
  <2> QED BY <2>2, <2>4, <2>5, <2>6, Zenon
<1> QED BY <1>4, <1>5, <1>6, Zenon DEF Position

LEMMA AimsStay ==
  ASSUME seen' = seen, call'.o = call.o, call'.k = call.k, call'.size = call.size
  PROVE  Aims' = Aims
BY DEF Aims, scroll!Targets

\* After MOVE ALL the rowset is found between the window and the end.
LEMMA AheadTarget ==
  ASSUME Looking, Ahead, End \in Int, End >= 0
  PROVE  Target > End /\ Target < srv.n /\ NumTuples = srv.n
<1>1. res.eof BY DEF Looking, Ahead
<1>2. CASE call.o = "last"
  <2>1. Target = LastStart BY <1>2 DEF Target
  <2> QED
    BY <1>1, <1>2, <2>1, LookingFacts DEF Ahead, LastStart, FromEnd, getNthValid, QR_get_num_total_tuples
<1>3. CASE call.o = "absolute"
  <2>1. Target = AbsoluteStart BY <1>3 DEF Target
  <2> QED
    BY <1>1, <1>3, <2>1, LookingFacts
    DEF Ahead, AbsoluteStart, FromEnd, getNthValid, QR_get_num_total_tuples
<1> QED BY <1>2, <1>3 DEF Ahead

LEMMA PositionWindow ==
  ASSUME NoHabits, IInv, WInv, Position
  PROVE  WInv'
<1>1. /\ Types /\ Looking /\ Target \in Int /\ NumTuples \in Int /\ WInv /\ CallType
      /\ srv' = srv /\ seen' = seen /\ call.pc = "position" /\ res.open
  BY TargetType DEF IInv, Types, WInv, Looking, Position, Kinds, Linked
<1>2. PICK place \in Int, to \in {"nodata", "move", "row"} :
        SC_set_rowset_start(place) /\ call' = [call EXCEPT !.pc = to] /\ Found(place, to)
  BY PositionFinds
<1>3. /\ stmt'.rowset_start = place /\ stmt'.currTuple = place - 1 /\ stmt'.save = -1
      /\ stmt'.fetchcursor = stmt.fetchcursor /\ stmt'.forward = stmt.forward
      /\ stmt'.fetch_max = stmt.fetch_max
      /\ res'.base = IF ~stmt.fetchcursor THEN place
                     ELSE IF res.valid THEN res.base + place - stmt.rowset_start
                     ELSE IF place < 0 THEN -1 ELSE place
      /\ res'.valid /\ res'.reqsize = call.size
      /\ res'.open = res.open /\ res'.cursor = res.cursor /\ res'.cached = res.cached
      /\ res'.dataFilled = res.dataFilled /\ res'.num_total_read = res.num_total_read
      /\ res'.eof = res.eof /\ res'.moving = res.moving
      /\ res'.move_offset = res.move_offset /\ res'.chain = res.chain
  BY <1>1, <1>2, RowsetSet
<1>4. /\ call'.pc = to /\ call'.o = call.o /\ call'.k = call.k /\ call'.size = call.size
      /\ call'.rows = call.rows /\ call'.refused = call.refused /\ call'.prev = call.prev
  BY <1>1, <1>2, Onward
<1>5. /\ srv.n \in 0..MaxRows /\ MaxRows \in Nat /\ MaxSize \in Nat \ {0} /\ call.size \in 1..MaxSize
      /\ stmt.rowset_start \in Int /\ res.base \in Int /\ Len(res.cached) \in Nat
      /\ call.rows = <<>> /\ ~call.refused /\ res.moving = 0 /\ res.move_offset = 0
  <2>1. srv.n \in 0..MaxRows /\ MaxRows \in Nat /\ MaxSize \in Nat \ {0} /\ call.size \in 1..MaxSize
    BY <1>1, SizeAssumption DEF WInv, Bounds
  <2>2. stmt.rowset_start \in Int /\ res.base \in Int /\ Len(res.cached) \in Nat
    BY <1>1 DEF Types, StmtType, ResultType
  <2>3. call.rows = <<>> /\ res.moving = 0 /\ res.move_offset = 0 BY <1>1 DEF WInv, Delivered, Moves
  <2>4. ~call.refused BY <1>1 DEF WInv, Failing
  <2> QED BY <2>1, <2>2, <2>3, <2>4
<1>6. place >= -1 BY <1>2, <1>5 DEF Found
<1>7. Front' = Front /\ End' = End /\ Front' = place - res'.base /\ End \in Int /\ End >= 0 /\ ~Stale /\ ~Stale'
  <2>1. Front' = Front /\ Front' = place - res'.base BY <1>1, <1>3, <1>5, <1>6 DEF WInv, Kinds, Front
  <2>2. End' = End BY <1>3, <2>1 DEF End
  <2>3. ~Stale /\ ~Stale' BY <1>1, <1>2, <1>4 DEF Stale
  <2>4. Front \in Int /\ Front >= 0 BY <1>1, <1>5, <2>3 DEF WInv, Window, Front
  <2>5. End \in Int /\ End >= 0 BY <1>5, <2>4 DEF End
  <2> QED BY <2>1, <2>2, <2>3, <2>5
<1>8. Aims' = Aims BY <1>1, <1>4, AimsStay
<1>9. res.eof => NumTuples = srv.n BY <1>1, LookingFacts
<1>10. (stmt.fetchcursor /\ ~res.cursor) =>
         to = "nodata" /\ place = srv.n /\ res.eof /\ stmt.forward /\ stmt.rowset_start >= 0
  <2> SUFFICES ASSUME stmt.fetchcursor, ~res.cursor
               PROVE  to = "nodata" /\ place = srv.n /\ res.eof /\ stmt.forward /\ stmt.rowset_start >= 0
    OBVIOUS
  <2>1. srv.alive BY <1>1 DEF WInv, Kinds
  <2>2. /\ res.eof /\ stmt.forward /\ stmt.rowset_start >= 0 /\ call.o = "next"
        /\ stmt.rowset_start + RestOf(call.prev) >= srv.n
    BY <1>1, <2>1 DEF WInv, Ended
  <2>3. Target = stmt.rowset_start + (IF call.prev > 0 THEN call.prev ELSE call.size)
    BY <1>5, <2>2 DEF Target, NextStart
  <2>4. Target >= NumTuples /\ Target >= 0
    <3>1. call.prev \in Int BY <1>1, LookingFacts
    <3> QED BY <1>5, <1>9, <2>2, <2>3, <3>1 DEF RestOf
  <2> QED BY <1>1, <1>2, <1>5, <2>2, <2>4 DEF Found
<1>11. Bounds' /\ Kinds' BY <1>1, <1>2, <1>3, <1>4, <1>5, <1>7 DEF WInv, Bounds, Kinds
<1>12. Window' BY <1>1, <1>3, <1>7 DEF WInv, Window
<1>13. Ended' BY <1>1, <1>3, <1>4, <1>5, <1>10 DEF Ended
<1>14. Standing' BY <1>2, <1>3, <1>4, <1>6 DEF Standing
<1>15. Aimed' BY <1>1, <1>2, <1>3, <1>4, <1>8 DEF Aimed, Found
<1>16. Delivered'
  <2>1. call'.rows = <<>> /\ Len(call'.rows) = 0 /\ call'.rows \in Seq(Int) BY <1>4, <1>5
  <2>2. stmt'.currTuple = stmt'.rowset_start - 1 + 0 BY <1>3
  <2>3. to \notin {"return", "fill"} BY <1>2
  <2> QED BY <1>3, <1>4, <1>5, <2>1, <2>2, <2>3 DEF Delivered
<1>17. Failing' /\ Shown' BY <1>1, <1>2, <1>4, <1>5 DEF WInv, Failing, Shown
<1>18. Moves'
  <2>1. (to = "move" /\ res.eof) => place <= srv.n BY <1>1, <1>2, <1>5, <1>9 DEF Found
  <2>2. to = "move" => stmt.fetchcursor BY <1>2 DEF Found
  <2>3. to = "row" => ~stmt.fetchcursor /\ ~res.cursor BY <1>1, <1>2 DEF Found, WInv, Kinds
  <2> QED BY <1>1, <1>2, <1>3, <1>4, <1>5, <1>10, <2>1, <2>2, <2>3 DEF Moves
<1>19. Linked'
  <2> SUFFICES ASSUME res.cursor PROVE Joined' \/ (Loose' /\ (~srv'.alive \/ OnTheWay'))
    BY <1>2, <1>3, <1>4 DEF Linked
  <2>1. Joined \/ (Loose /\ (~srv.alive \/ Ahead)) BY <1>1, <1>7 DEF WInv, Linked, OnTheWay
  <2>2. Joined' = Joined /\ Loose' = Loose BY <1>1, <1>3, <1>7 DEF Joined, Loose
  <2>3. CASE Ahead
    <3>1. Target > End /\ Target < srv.n /\ NumTuples = srv.n BY <1>1, <1>7, <2>3, AheadTarget
    <3>2. stmt.fetchcursor BY <1>1 DEF WInv, Kinds
    <3>3. to = "move" /\ place = Target BY <1>1, <1>2, <1>5, <1>7, <3>1, <3>2 DEF Found
    <3>4. res'.base > Len(res'.cached)
      <4>1. End = Front + Len(res.cached) /\ Front = place - res'.base /\ res'.base \in Int
        BY <1>3, <1>5, <1>7 DEF End
      <4>2. place > End BY <3>1, <3>3
      <4>3. Front \in Int BY <1>7, <4>1
      <4> QED BY <1>3, <1>5, <4>1, <4>2, <4>3
    <3>5. OnTheWay' BY <1>4, <3>3, <3>4 DEF OnTheWay
    <3> QED BY <2>1, <2>2, <3>5
  <2> QED BY <1>1, <2>1, <2>2, <2>3
<1> QED BY <1>11, <1>12, <1>13, <1>14, <1>15, <1>16, <1>17, <1>18, <1>19 DEF WInv

\* A step of a call that has found its rowset and is not over yet.
Continues ==
  /\ call.pc \in {"move", "row", "fill"} /\ call'.pc \in {"row", "fill", "return", "error"}
  /\ stmt'.rowset_start = stmt.rowset_start /\ stmt'.save = stmt.save
  /\ stmt'.fetch_max = stmt.fetch_max
  /\ call'.o = call.o /\ call'.k = call.k /\ call'.size = call.size /\ call'.prev = call.prev
  /\ srv'.n = srv.n /\ seen' = seen

LEMMA ContinuesWindow ==
  ASSUME WInv, Continues
  PROVE  Bounds' /\ Standing' /\ Aimed' /\ Shown'
<1>1. Aims' = Aims BY AimsStay DEF Continues
<1>2. Bounds' /\ Standing' /\ Shown' BY DEF WInv, Continues, Bounds, Standing, Shown
<1>3. Aimed' BY <1>1 DEF WInv, Continues, Aimed
<1> QED BY <1>2, <1>3

\* The numbers that the steps of a call work with.
LEMMA CallFacts ==
  ASSUME Types, WInv
  PROVE  /\ stmt.rowset_start \in Int /\ stmt.currTuple \in Int /\ res.base \in Int
         /\ res.fetch_number \in Int /\ res.reqsize \in Nat /\ res.move_offset \in Nat
         /\ res.num_total_read \in Int /\ res.cursTuple \in Int /\ call.offset \in Int
         /\ res.cached \in Seq(Int) /\ Len(res.cached) \in Nat
         /\ call.rows \in Seq(Int) /\ Len(call.rows) \in Nat
         /\ srv.n \in Nat /\ srv.pos \in 0..(srv.n + 1) /\ call.size \in Nat \ {0}
         /\ stmt.fetch_max \in Nat \ {0} /\ Front \in Int /\ End \in Int
         /\ End = Front + Len(res.cached)
         /\ call.pc \in {"move", "row", "fill"} => Front = stmt.rowset_start - res.base
<1>1. /\ stmt.rowset_start \in Int /\ stmt.currTuple \in Int /\ res.base \in Int
      /\ res.fetch_number \in Int /\ res.reqsize \in Nat /\ res.move_offset \in Nat
      /\ res.num_total_read \in Int /\ res.cursTuple \in Int /\ call.offset \in Int
      /\ res.cached \in Seq(Int) /\ Len(res.cached) \in Nat
  BY DEF Types, StmtType, ResultType, CallType
<1>2. call.rows \in Seq(Int) /\ Len(call.rows) \in Nat BY DEF WInv, Delivered
<1>3. /\ srv.n \in Nat /\ srv.pos \in 0..(srv.n + 1) /\ call.size \in Nat \ {0}
      /\ stmt.fetch_max \in Nat \ {0}
  BY SizeAssumption DEF Types, SrvType, StmtType, WInv, Bounds
<1>4. Front \in Int /\ End \in Int /\ End = Front + Len(res.cached) BY <1>1 DEF Front, End
<1>5. call.pc \in {"move", "row", "fill"} => Front = stmt.rowset_start - res.base
  BY DEF WInv, Delivered, Front
<1> QED BY <1>1, <1>2, <1>3, <1>4, <1>5

LEMMA PlanMoveWindow ==
  ASSUME IInv, WInv, move_cursor_position_if_needed
  PROVE  WInv'
<1>1. /\ Types /\ ResultType(res) /\ CallType /\ Pictured(res, srv) /\ WInv
      /\ call.pc = "move" /\ stmt' = stmt /\ srv' = srv /\ seen' = seen
      /\ res.cursor /\ res.open
      /\ call' = [call EXCEPT !.pc = "row"]
  BY DEF IInv, Types, WInv, Kinds, Moves, move_cursor_position_if_needed
<1>2. /\ call'.pc = "row" /\ call'.o = call.o /\ call'.k = call.k /\ call'.size = call.size
      /\ call'.rows = call.rows /\ call'.refused = call.refused /\ call'.prev = call.prev
  BY <1>1, Onward
<1>3. /\ call.rows = <<>> /\ ~call.refused /\ stmt.currTuple = stmt.rowset_start - 1 + 0 /\ res.valid
      /\ res.reqsize = call.size /\ res.moving = 0 /\ res.move_offset = 0
  <2>1. call.rows = <<>> /\ Len(<<>>) = 0 /\ ~call.refused BY <1>1 DEF WInv, Delivered, Failing
  <2> QED BY <1>1, <2>1 DEF WInv, Delivered, Moves
<1> DEFINE d == stmt.currTuple - res.cursTuple
           m == IF d > 0 THEN 1 ELSE IF d < 0 THEN -1 ELSE 0
           offset == IF d < 0 THEN -d ELSE d
           inside == res.base >= 0 /\ res.base <= Len(res.cached)
<1>4. /\ inside => res' = [res EXCEPT !.fetch_number = res.base]
      /\ ~inside => res' = [res EXCEPT !.moving = m, !.move_offset = offset]
  BY <1>1, Zenon DEF move_cursor_position_if_needed
<1>5. /\ res'.open = res.open /\ res'.cursor = res.cursor /\ res'.cached = res.cached
      /\ res'.dataFilled = res.dataFilled /\ res'.num_total_read = res.num_total_read
      /\ res'.eof = res.eof /\ res'.base = res.base /\ res'.valid = res.valid
      /\ res'.chain = res.chain /\ res'.reqsize = res.reqsize
      /\ inside => res'.fetch_number = res.base /\ res'.moving = res.moving
                   /\ res'.move_offset = res.move_offset
      /\ ~inside => res'.moving = m /\ res'.move_offset = offset
  <2>1. CASE inside
    <3>1. res' = [res EXCEPT !.fetch_number = res.base] BY <1>4, <2>1
    <3> HIDE DEF m, offset, inside
    <3> QED BY <1>1, <2>1, <3>1 DEF ResultType, ResFields
  <2>2. CASE ~inside
    <3>1. res' = [res EXCEPT !.moving = m, !.move_offset = offset] BY <1>4, <2>2
    <3> HIDE DEF m, offset, inside
    <3> QED BY <1>1, <2>2, <3>1 DEF ResultType, ResFields
  <2> QED BY <2>1, <2>2
<1>6. Front' = Front /\ End' = End /\ ~Stale /\ ~Stale' BY <1>1, <1>2, <1>5 DEF Front, End, Stale
<1>7. /\ stmt.rowset_start \in Int /\ res.base \in Int /\ Len(res.cached) \in Nat
      /\ srv.n \in Nat /\ srv.pos \in 0..(srv.n + 1) /\ call.size \in Nat \ {0}
      /\ End = Front + Len(res.cached) /\ Front = stmt.rowset_start - res.base
      /\ res.cursTuple = srv.pos - 1
  <2>1. res.cursTuple = srv.pos - 1 BY <1>1 DEF Pictured
  <2>2. Front = stmt.rowset_start - res.base BY <1>1, CallFacts
  <2> QED BY <1>1, <2>1, <2>2, CallFacts
<1>8. d = stmt.rowset_start - srv.pos BY <1>3, <1>7
<1>9. ~inside => d # 0
  <2>1. Joined \/ Loose BY <1>1, <1>6 DEF WInv, Linked
  <2>2. res.eof => stmt.rowset_start <= srv.n BY <1>1 DEF WInv, Moves
  <2>3. CASE Loose
    <3>1. srv.pos = srv.n + 1 /\ stmt.rowset_start <= srv.n BY <2>2, <2>3 DEF Loose
    <3> HIDE DEF d
    <3> QED BY <1>7, <1>8, <3>1
  <2>4. CASE End = srv.pos
    <3> HIDE DEF d
    <3>1. stmt.rowset_start - srv.pos = 0 => res.base = Len(res.cached)
      <4>1. stmt.rowset_start - res.base + Len(res.cached) = srv.pos
        <5>1. Front \in Int BY <1>1, CallFacts
        <5> QED BY <1>7, <2>4, <5>1
      <4>2. /\ stmt.rowset_start \in Int /\ srv.pos \in Int /\ res.base \in Int
            /\ Len(res.cached) \in Int
        BY <1>7
      <4> QED BY <4>1, <4>2
    <3>2. d = 0 => inside BY <1>7, <1>8, <3>1
    <3> QED BY <3>2
  <2> QED BY <2>1, <2>3, <2>4 DEF Joined
<1> HIDE DEF d
<1>10. ~inside => /\ offset \in Nat \ {0}
                  /\ \/ m = 1 /\ offset = stmt.rowset_start - srv.pos
                     \/ m = -1 /\ offset = srv.pos - stmt.rowset_start
  <2> DEFINE e == stmt.rowset_start - srv.pos
  <2>1. /\ m = IF e > 0 THEN 1 ELSE IF e < 0 THEN -1 ELSE 0
        /\ offset = IF e < 0 THEN -e ELSE e
    BY <1>8
  <2>2. ~inside => e # 0 BY <1>8, <1>9
  <2>3. e \in Int BY <1>7
  <2>4. e # 0 => /\ offset \in Nat \ {0}
                 /\ (m = 1 /\ offset = e) \/ (m = -1 /\ offset = -e)
    <3> HIDE DEF m, offset, e
    <3> QED BY <2>1, <2>3
  <2>5. -e = srv.pos - stmt.rowset_start BY <1>7
  <2> HIDE DEF m, offset, inside
  <2> QED BY <2>2, <2>4, <2>5
<1> HIDE DEF m, offset
<1>11. Bounds' /\ Standing' /\ Aimed' /\ Shown'
  <2>1. Continues BY <1>1, <1>2 DEF Continues
  <2> QED BY <2>1, ContinuesWindow
<1>12. Kinds' /\ Window' /\ Ended' BY <1>1, <1>2, <1>5, <1>6 DEF WInv, Kinds, Window, Ended
<1>13. Delivered'
  <2>1. call'.rows = <<>> /\ Len(call'.rows) = 0 /\ call'.rows \in Seq(Int) BY <1>2, <1>3
  <2> QED BY <1>1, <1>2, <1>3, <1>5, <1>7, <2>1 DEF Delivered
<1>14. Failing' BY <1>2, <1>3 DEF Failing
<1>15. Moves'
  <2>1. inside => Reading' /\ res'.move_offset = 0
    <3>1. Len(call'.rows) = 0 BY <1>2, <1>3
    <3> QED BY <1>2, <1>3, <1>5, <1>7, <3>1 DEF Reading
  <2>2. ~inside => /\ call'.rows = <<>> /\ res'.move_offset # 0
                   /\ \/ res'.moving = 1 /\ res'.move_offset = stmt'.rowset_start - srv'.pos
                      \/ res'.moving = -1 /\ res'.move_offset = srv'.pos - stmt'.rowset_start
    BY <1>1, <1>2, <1>3, <1>5, <1>10
  <2> HIDE DEF inside
  <2> QED BY <1>1, <1>2, <1>5, <2>1, <2>2 DEF Moves
<1>16. Linked'
  <2>1. Joined' = Joined /\ Loose' = Loose BY <1>1, <1>5, <1>6 DEF Joined, Loose
  <2>2. Joined \/ (Loose /\ (~srv.alive \/ res.base > Len(res.cached)))
    BY <1>1, <1>6 DEF WInv, Linked, OnTheWay
  <2>3. res.base > Len(res.cached) => ~inside BY <1>7
  <2>4. ~inside => OnTheWay' BY <1>2, <1>5, <1>10 DEF OnTheWay
  <2> HIDE DEF inside
  <2> QED BY <1>1, <1>2, <2>1, <2>2, <2>3, <2>4 DEF Linked
<1> QED BY <1>11, <1>12, <1>13, <1>14, <1>15, <1>16 DEF WInv

\* The row after those delivered so far is delivered.
LEMMA RowDelivered ==
  ASSUME Types, WInv, call.pc \in {"row", "fill"}, NEW row, row = stmt.rowset_start + Len(call.rows) + 1,
         GotRow(row, call), res'.valid, res'.reqsize = res.reqsize, res'.base >= 0,
         res'.base + (Len(call.rows) + 1) <= Len(res'.cached)
  PROVE  Delivered' /\ Failing'
<1>1. /\ stmt.rowset_start \in Int /\ call.rows \in Seq(Int) /\ Len(call.rows) \in Nat
      /\ call.size \in Nat \ {0} /\ stmt.currTuple \in Int
  BY CallFacts
<1>2. StmtType /\ CallType /\ Delivered /\ row \in Int BY <1>1 DEF Types, WInv
<1>3. /\ stmt'.rowset_start = stmt.rowset_start /\ stmt'.currTuple = stmt.currTuple + 1
      /\ call'.pc = IF Len(call.rows) + 1 = call.size THEN "return" ELSE "row"
      /\ call'.rows \in Seq(Int) /\ Len(call'.rows) = Len(call.rows) + 1
      /\ \A i \in 1..Len(call.rows) : call'.rows[i] = call.rows[i]
      /\ call'.rows[Len(call.rows) + 1] = row
      /\ call'.size = call.size /\ call'.refused = call.refused
  BY <1>2, RowAdded
<1>4. /\ Len(call.rows) < call.size
      /\ \A i \in 1..Len(call.rows) : call.rows[i] = stmt.rowset_start + i
      /\ stmt.currTuple = stmt.rowset_start - 1 + Len(call.rows) /\ res.reqsize = call.size
  BY <1>2 DEF Delivered
<1>5. \A i \in 1..Len(call'.rows) : call'.rows[i] = stmt'.rowset_start + i
  <2> SUFFICES ASSUME NEW i \in 1..Len(call'.rows) PROVE call'.rows[i] = stmt'.rowset_start + i OBVIOUS
  <2>1. CASE i \in 1..Len(call.rows) BY <1>3, <1>4, <2>1
  <2>2. CASE i = Len(call.rows) + 1
    <3>1. call'.rows[i] = row BY <1>3, <2>2
    <3>2. stmt'.rowset_start = stmt.rowset_start BY <1>3
    <3>3. stmt.rowset_start \in Int /\ Len(call.rows) \in Nat BY <1>1
    <3> QED BY <2>2, <3>1, <3>2, <3>3
  <2> QED BY <1>1, <1>3, <2>1, <2>2
<1>6. Len(call'.rows) <= call'.size /\ (call'.pc = "row" => Len(call'.rows) < call'.size)
  <2>1. /\ Len(call.rows) \in Nat /\ call.size \in Nat /\ Len(call.rows) < call.size
        /\ Len(call'.rows) = Len(call.rows) + 1 /\ call'.size = call.size
        /\ call'.pc = "row" => Len(call.rows) + 1 # call.size
    BY <1>1, <1>3, <1>4
  <2> QED BY <2>1
<1>7. stmt'.currTuple = stmt'.rowset_start - 1 + Len(call'.rows)
  <2>1. /\ Len(call.rows) \in Nat /\ stmt.rowset_start \in Int
        /\ Len(call'.rows) = Len(call.rows) + 1 /\ stmt'.rowset_start = stmt.rowset_start
        /\ stmt'.currTuple = stmt.currTuple + 1
        /\ stmt.currTuple = stmt.rowset_start - 1 + Len(call.rows)
    BY <1>1, <1>3, <1>4
  <2> QED BY <2>1
<1>8. call'.pc = "return" => Len(call'.rows) = call'.size BY <1>3
<1>9. call'.pc \in {"row", "return"} BY <1>3
<1>10. res'.reqsize = call'.size /\ res'.base + Len(call'.rows) <= Len(res'.cached) BY <1>3, <1>4
<1>11. Delivered' BY <1>3, <1>5, <1>6, <1>7, <1>8, <1>9, <1>10 DEF Delivered
<1>12. Failing' BY <1>3, <1>9 DEF WInv, Failing
<1> QED BY <1>11, <1>12

LEMMA WindowEmptyWindow ==
  ASSUME IInv, WInv, WindowEmpty
  PROVE  WInv'
<1>1. /\ Types /\ CallType /\ WInv /\ Pictured(res, srv) /\ call.pc = "row" /\ res.cursor /\ res.open
      /\ res.move_offset = 0 /\ res.fetch_number >= Len(res.cached)
      /\ ~(res.eof /\ stmt.currTuple + 1 >= res.num_total_read)
      /\ stmt' = stmt /\ res' = res /\ srv' = srv /\ seen' = seen
      /\ call' = [call EXCEPT !.pc = "fill", !.offset = 0]
  BY DEF IInv, Types, Underway, WindowEmpty, QR_get_num_total_tuples
<1>2. /\ call'.pc = "fill" /\ call'.offset = 0 /\ call'.o = call.o /\ call'.k = call.k
      /\ call'.size = call.size /\ call'.rows = call.rows /\ call'.refused = call.refused
      /\ call'.prev = call.prev
  BY <1>1 DEF CallType, CallFields
<1>3. Reading BY <1>1 DEF WInv, Moves
<1>4. res.fetch_number = Len(res.cached) BY <1>1, <1>3, CallFacts DEF Reading
<1>5. Front' = Front /\ End' = End /\ ~Stale /\ ~Stale' BY <1>1, <1>3 DEF Front, End, Stale, Reading
<1>6. Bounds' /\ Standing' /\ Aimed' /\ Shown'
  <2>1. Continues BY <1>1, <1>2 DEF Continues
  <2> QED BY <2>1, ContinuesWindow
<1>7. Kinds' /\ Window' /\ Ended' BY <1>1, <1>2, <1>5 DEF WInv, Kinds, Window, Ended
<1>8. Delivered' /\ Failing' BY <1>1, <1>2 DEF WInv, Delivered, Failing
<1>9. Moves'
  <2>1. res.eof => stmt.currTuple + 1 < srv.n
    <3>1. res.eof => res.num_total_read = srv.n BY <1>1 DEF Pictured
    <3>2. stmt.currTuple \in Int /\ srv.n \in Int BY <1>1 DEF Types, StmtType, SrvType
    <3>3. res.eof => ~(stmt.currTuple + 1 >= res.num_total_read) BY <1>1
    <3> QED BY <3>1, <3>2, <3>3
  <2> QED BY <1>1, <1>2, <1>3, <1>4, <2>1 DEF Moves, Reading
<1>10. Linked'
  <2>1. Joined' = Joined /\ Loose' = Loose BY <1>1, <1>5 DEF Joined, Loose
  <2> QED BY <1>1, <1>2, <1>5, <2>1 DEF WInv, Linked, OnTheWay
<1> QED BY <1>6, <1>7, <1>8, <1>9, <1>10 DEF WInv

LEMMA RowFromMemoryWindow ==
  ASSUME IInv, WInv, RowFromMemory
  PROVE  WInv'
<1>1. /\ Types /\ StmtType /\ CallType /\ WInv /\ Pictured(res, srv) /\ call.pc = "row" /\ ~res.cursor
      /\ res.open /\ res' = res /\ srv' = srv /\ seen' = seen
  BY DEF IInv, Types, WInv, Kinds, RowFromMemory
<1>2. /\ ~stmt.fetchcursor /\ res.eof /\ Len(res.cached) = srv.n /\ Front = 0 /\ res.num_total_read = srv.n
      /\ res.valid /\ stmt.rowset_start >= 0
  BY <1>1 DEF WInv, Kinds, Moves, Delivered, Aimed, Pictured
<1>3. /\ stmt.rowset_start \in Int /\ res.base \in Int /\ Len(call.rows) \in Nat /\ srv.n \in Nat
      /\ Front = stmt.rowset_start - res.base /\ stmt.currTuple = stmt.rowset_start - 1 + Len(call.rows)
  BY <1>1, CallFacts DEF WInv, Delivered
<1>4. res.base = stmt.rowset_start BY <1>2, <1>3
<1>5. CASE /\ stmt.currTuple >= QR_get_num_total_tuples - 1
           /\ call' = [call EXCEPT !.pc = "return"]
           /\ stmt' = [stmt EXCEPT !.currTuple = QR_get_num_total_tuples]
  <2>1. /\ call'.pc = "return" /\ call'.o = call.o /\ call'.k = call.k /\ call'.size = call.size
        /\ call'.rows = call.rows /\ call'.refused = call.refused /\ call'.prev = call.prev
    BY <1>1, <1>5, Onward
  <2>2. /\ stmt'.rowset_start = stmt.rowset_start /\ stmt'.save = stmt.save
        /\ stmt'.fetchcursor = stmt.fetchcursor /\ stmt'.fetch_max = stmt.fetch_max
    BY <1>1, <1>5 DEF StmtType, StmtFields
  <2>3. stmt.rowset_start + Len(call.rows) >= srv.n BY <1>2, <1>3, <1>5 DEF QR_get_num_total_tuples
  <2>4. Front' = Front /\ End' = End /\ ~Stale /\ ~Stale' BY <1>1, <2>1, <2>2 DEF Front, End, Stale
  <2>5. Bounds' /\ Standing' /\ Aimed' /\ Shown'
    <3>1. Continues BY <1>1, <2>1, <2>2 DEF Continues
    <3> QED BY <3>1, ContinuesWindow
  <2>6. Kinds' /\ Window' /\ Ended' /\ Moves' /\ Linked'
    BY <1>1, <1>2, <2>1, <2>2, <2>4 DEF WInv, Kinds, Window, Ended, Moves, Linked
  <2>7. Delivered' /\ Failing' BY <1>1, <2>1, <2>2, <2>3 DEF WInv, Delivered, Failing
  <2> QED BY <2>5, <2>6, <2>7 DEF WInv
<1>6. CASE /\ ~(stmt.currTuple >= QR_get_num_total_tuples - 1)
           /\ GotRow(CachedRow(res, GIdx2CacheIdx(stmt.currTuple + 1)), call)
  <2>1. stmt.rowset_start + Len(call.rows) < srv.n BY <1>2, <1>3, <1>6 DEF QR_get_num_total_tuples
  <2>2. GIdx2CacheIdx(stmt.currTuple + 1) = stmt.rowset_start + Len(call.rows)
    BY <1>2, <1>3 DEF GIdx2CacheIdx
  <2>3. ~Stale /\ Len(res.cached) > 0 BY <1>1, <1>2, <1>3, <2>1 DEF Stale
  <2>4. res.dataFilled /\ \A i \in 1..Len(res.cached) : res.cached[i] = Front + i
    BY <1>1, <2>3 DEF WInv, Window
  <2>5. CachedRow(res, GIdx2CacheIdx(stmt.currTuple + 1)) = stmt.rowset_start + Len(call.rows) + 1
    <3> DEFINE c == stmt.rowset_start + Len(call.rows)
    <3>1. c \in Nat /\ c >= 0 /\ c < Len(res.cached) /\ Front = 0 BY <1>2, <1>3, <2>1
    <3> HIDE DEF c
    <3>2. CachedRow(res, c) = res.cached[c + 1] BY <2>4, <3>1, Zenon DEF CachedRow
    <3>3. res.cached[c + 1] = 0 + (c + 1) BY <1>2, <1>3, <2>4, <3>1
    <3>4. CachedRow(res, c) = c + 1 BY <3>1, <3>2, <3>3
    <3> QED BY <2>2, <3>4 DEF c
  <2>6. PICK row : row = stmt.rowset_start + Len(call.rows) + 1 /\ GotRow(row, call) BY <1>6, <2>5
  <2>7. Delivered' /\ Failing' BY <1>1, <1>2, <1>3, <1>4, <2>1, <2>6, RowDelivered
  <2>8. /\ stmt'.rowset_start = stmt.rowset_start /\ stmt'.save = stmt.save
        /\ stmt'.fetchcursor = stmt.fetchcursor /\ stmt'.fetch_max = stmt.fetch_max
        /\ call'.pc \in {"row", "return"}
        /\ call'.o = call.o /\ call'.k = call.k /\ call'.size = call.size /\ call'.prev = call.prev
    <3>1. row \in Int /\ Delivered BY <1>1, <1>3, <2>6 DEF WInv
    <3> QED BY <1>1, <2>6, <3>1, RowAdded
  <2>9. Front' = Front /\ End' = End /\ ~Stale' BY <1>1, <2>8 DEF Front, End, Stale
  <2>10. Bounds' /\ Standing' /\ Aimed' /\ Shown'
    <3>1. Continues BY <1>1, <2>8 DEF Continues
    <3> QED BY <3>1, ContinuesWindow
  <2>11. Kinds' /\ Window' /\ Ended' /\ Moves' /\ Linked'
    BY <1>1, <1>2, <2>3, <2>8, <2>9 DEF WInv, Kinds, Window, Ended, Moves, Linked
  <2> QED BY <2>7, <2>10, <2>11 DEF WInv
<1> QED BY <1>5, <1>6, Zenon DEF RowFromMemory

\* The window of a result r, and the cursor behind it.
Fits(r, v) ==
  LET front == stmt.rowset_start - r.base
      end   == front + Len(r.cached)
  IN /\ front >= 0
     /\ \A i \in 1..Len(r.cached) : r.cached[i] = front + i
     /\ Len(r.cached) > 0 => r.dataFilled /\ end <= r.num_total_read
     /\ end = v.pos \/ (r.eof /\ v.pos = v.n + 1 /\ (end = v.n \/ ~v.alive))

\* The call is over: it has run out of rows, or the server has refused a MOVE.
LEMMA CallEnds ==
  ASSUME Types, WInv, call.pc \in {"row", "fill"}, stmt.fetchcursor,
         NEW r, ResultType(r), NoRow(r), r.open, r.valid, r.cursor, r.chain = res.chain,
         Fits(r, srv'), srv'.n = srv.n, seen' = seen,
         call'.pc = "return", call'.o = call.o, call'.k = call.k, call'.size = call.size,
         call'.rows = call.rows, call'.prev = call.prev,
         Len(call.rows) > 0 => r.base >= 0 /\ r.base + Len(call.rows) <= Len(r.cached),
         \/ ~call'.refused /\ r.eof /\ stmt.rowset_start + Len(call.rows) >= srv.n
         \/ call'.refused /\ call.rows = <<>> /\ ~srv'.alive
  PROVE  WInv'
<1>1. /\ stmt' = stmt
      /\ res'.open = r.open /\ res'.cached = r.cached /\ res'.dataFilled = r.dataFilled
      /\ res'.num_total_read = r.num_total_read /\ res'.eof = r.eof /\ res'.base = r.base
      /\ res'.valid = r.valid /\ res'.chain = r.chain
      /\ \/ res'.cursor = r.cursor
         \/ ~res'.cursor /\ r.eof /\ r.cursor /\ stmt.forward
  BY RowsOver DEF Types
<1>2. stmt.rowset_start \in Int /\ Len(call.rows) \in Nat /\ call.size \in Nat /\ srv.n \in Nat
  BY CallFacts
<1>3. Bounds' /\ Standing' /\ Aimed' /\ Shown'
  <2>1. Continues BY <1>1 DEF Continues
  <2> QED BY <2>1, ContinuesWindow
<1>4. /\ Front' = stmt.rowset_start - r.base /\ End' = stmt.rowset_start - r.base + Len(r.cached)
      /\ ~Stale'
  BY <1>1 DEF Front, End, Stale
<1>5. Kinds' BY <1>1 DEF WInv, Kinds
<1>6. Window' BY <1>1, <1>4 DEF Window, Fits
<1>7. Ended'
  <2>1. Len(call.rows) <= call.size /\ stmt.rowset_start >= 0 BY DEF WInv, Delivered, Aimed
  <2>2. ~call'.refused => stmt.rowset_start + call.size >= srv.n BY <1>2, <2>1
  <2> QED BY <1>1, <2>1, <2>2 DEF Ended
<1>8. Delivered' BY <1>1 DEF WInv, Delivered
<1>9. Failing' /\ Moves' BY DEF WInv, Failing, Moves
<1>10. Linked' BY <1>1, <1>4 DEF Linked, Joined, Loose, Fits
<1> QED BY <1>3, <1>5, <1>6, <1>7, <1>8, <1>9, <1>10 DEF WInv

LEMMA RowFromWindowWindow ==
  ASSUME IInv, WInv, RowFromWindow
  PROVE  WInv'
<1>1. /\ Types /\ StmtType /\ ResultType(res) /\ CallType /\ WInv /\ Pictured(res, srv)
      /\ call.pc = "row" /\ res.cursor /\ res.open /\ stmt.fetchcursor /\ res.move_offset = 0
      /\ res.valid /\ srv' = srv /\ seen' = seen /\ Reading
  BY DEF IInv, Types, Underway, WInv, Kinds, Delivered, Moves, RowFromWindow
<1>2. /\ stmt.rowset_start \in Int /\ res.base \in Int /\ Len(call.rows) \in Nat /\ srv.n \in Nat
      /\ Len(res.cached) \in Nat /\ res.fetch_number \in Int
      /\ Front = stmt.rowset_start - res.base
      /\ stmt.currTuple = stmt.rowset_start - 1 + Len(call.rows)
      /\ res.base >= 0 /\ res.fetch_number = res.base + Len(call.rows)
  BY <1>1, CallFacts DEF WInv, Delivered, Reading
<1>3. ~Stale BY <1>1 DEF Stale
<1>4. CASE /\ res.fetch_number < Len(res.cached)
           /\ GotRow(CachedRow(res, res.fetch_number), call)
           /\ res' = [res EXCEPT !.fetch_number = @ + 1]
  <2>1. res.dataFilled /\ \A i \in 1..Len(res.cached) : res.cached[i] = Front + i
    BY <1>2, <1>3, <1>4 DEF WInv, Window
  <2>2. CachedRow(res, res.fetch_number) = stmt.rowset_start + Len(call.rows) + 1
    <3>1. res.fetch_number >= 0 /\ res.fetch_number < Len(res.cached) BY <1>2, <1>4
    <3>2. CachedRow(res, res.fetch_number) = res.cached[res.fetch_number + 1]
      BY <2>1, <3>1, Zenon DEF CachedRow
    <3>3. res.fetch_number + 1 \in 1..Len(res.cached) BY <1>2, <3>1
    <3>4. res.cached[res.fetch_number + 1] = Front + (res.fetch_number + 1) BY <2>1, <3>3
    <3>5. Front + (res.fetch_number + 1) = stmt.rowset_start + Len(call.rows) + 1
      <4>1. stmt.rowset_start \in Int /\ res.base \in Int /\ Len(call.rows) \in Int BY <1>2
      <4>2. Front = stmt.rowset_start - res.base /\ res.fetch_number = res.base + Len(call.rows) BY <1>2
      <4> QED BY <4>1, <4>2
    <3> QED BY <3>2, <3>4, <3>5
  <2>3. PICK row : row = stmt.rowset_start + Len(call.rows) + 1 /\ GotRow(row, call) BY <1>4, <2>2
  <2>4. /\ res'.fetch_number = res.fetch_number + 1
        /\ res'.open = res.open /\ res'.cursor = res.cursor /\ res'.cached = res.cached
        /\ res'.dataFilled = res.dataFilled /\ res'.num_total_read = res.num_total_read
        /\ res'.eof = res.eof /\ res'.base = res.base /\ res'.valid = res.valid
        /\ res'.chain = res.chain /\ res'.reqsize = res.reqsize
        /\ res'.moving = res.moving /\ res'.move_offset = res.move_offset
    BY <1>1, <1>4 DEF ResultType, ResFields
  <2>5. res.base + (Len(call.rows) + 1) <= Len(res.cached) BY <1>2, <1>4
  <2>6. Delivered' /\ Failing' BY <1>1, <1>2, <2>3, <2>4, <2>5, RowDelivered
  <2>7. /\ stmt'.rowset_start = stmt.rowset_start /\ stmt'.save = stmt.save
        /\ stmt'.fetchcursor = stmt.fetchcursor /\ stmt'.fetch_max = stmt.fetch_max
        /\ call'.pc \in {"row", "return"} /\ Len(call'.rows) = Len(call.rows) + 1
        /\ call'.o = call.o /\ call'.k = call.k /\ call'.size = call.size /\ call'.prev = call.prev
    <3>1. row \in Int /\ Delivered BY <1>1, <1>2, <2>3 DEF WInv
    <3> QED BY <1>1, <2>3, <3>1, RowAdded
  <2>8. Front' = Front /\ End' = End /\ ~Stale' BY <2>4, <2>7 DEF Front, End, Stale
  <2>9. Bounds' /\ Standing' /\ Aimed' /\ Shown'
    <3>1. Continues BY <1>1, <2>7 DEF Continues
    <3> QED BY <3>1, ContinuesWindow
  <2>10. Kinds' /\ Window' /\ Ended' BY <1>1, <1>3, <2>4, <2>7, <2>8 DEF WInv, Kinds, Window, Ended
  <2>11. Reading'
    <3>1. res'.fetch_number = res'.base + Len(call'.rows) BY <1>2, <2>4, <2>7
    <3>2. res'.fetch_number <= Len(res'.cached) BY <1>2, <1>4, <2>4
    <3>3. res'.moving = 0 /\ res'.move_offset = 0 /\ res'.base >= 0 BY <1>1, <1>2, <2>4 DEF Reading
    <3> QED BY <3>1, <3>2, <3>3 DEF Reading
  <2>12. Moves' BY <1>1, <2>4, <2>7, <2>11 DEF Moves
  <2>13. Linked'
    <3>1. Joined' = Joined /\ Loose' = Loose BY <1>1, <2>4, <2>8 DEF Joined, Loose
    <3>2. Joined \/ (Loose /\ ~srv.alive) BY <1>1, <1>3 DEF WInv, Linked, OnTheWay
    <3> QED BY <1>1, <2>7, <3>1, <3>2 DEF Linked
  <2> QED BY <2>6, <2>9, <2>10, <2>12, <2>13 DEF WInv
<1>5. CASE /\ res.eof /\ stmt.currTuple + 1 >= QR_get_num_total_tuples
           /\ call' = [call EXCEPT !.pc = "return"]
           /\ NoRow(res)
  <2>1. /\ call'.pc = "return" /\ call'.o = call.o /\ call'.k = call.k /\ call'.size = call.size
        /\ call'.rows = call.rows /\ call'.refused = call.refused /\ call'.prev = call.prev
    BY <1>1, <1>5, Onward
  <2>2. ~call'.refused BY <1>1, <2>1 DEF WInv, Failing
  <2>3. stmt.rowset_start + Len(call.rows) >= srv.n
    <3>1. res.num_total_read = srv.n BY <1>1, <1>5 DEF Pictured
    <3> QED BY <1>2, <1>5, <3>1 DEF QR_get_num_total_tuples
  <2>4. Fits(res, srv')
    <3>1. Joined \/ (Loose /\ ~srv.alive) BY <1>1, <1>3 DEF WInv, Linked, OnTheWay
    <3> QED BY <1>1, <1>2, <1>3, <3>1 DEF Fits, WInv, Window, Joined, Loose, End
  <2>5. Len(call.rows) > 0 => res.base + Len(call.rows) <= Len(res.cached) BY <1>1 DEF WInv, Delivered
  <2> QED BY <1>1, <1>2, <1>5, <2>1, <2>2, <2>3, <2>4, <2>5, CallEnds
<1> QED BY <1>4, <1>5, Zenon DEF RowFromWindow

LEMMA MoveCursorWindow ==
  ASSUME IInv, WInv, MoveCursor
  PROVE  WInv'
<1> DEFINE back  == res.moving = -1
           wide  == IF back /\ FetchSize > res.reqsize
                    THEN Lesser(res.move_offset + FetchSize - res.reqsize, res.cursTuple + 1)
                    ELSE res.move_offset
           given == IF back THEN PassedBack(wide) ELSE Passed(wide)
           moved == MovedBy(given, wide, back)
           short == given < wide /\ ~back
<1>1. /\ Types /\ StmtType /\ ResultType(res) /\ SrvType /\ CallType /\ Pictured(res, srv) /\ WInv
      /\ call.pc = "row" /\ res.cursor /\ res.open /\ res.move_offset # 0
      /\ stmt.fetchcursor /\ res.valid /\ seen' = seen
  BY DEF IInv, Types, Underway, WInv, Kinds, Delivered, MoveCursor
<1>2. /\ call.rows = <<>> /\ Len(call.rows) = 0 /\ ~call.refused /\ stmt.rowset_start >= 0
      /\ res.reqsize = call.size
      /\ \/ res.moving = 1 /\ res.move_offset = stmt.rowset_start - srv.pos
         \/ res.moving = -1 /\ res.move_offset = srv.pos - stmt.rowset_start
  <2>1. call.rows = <<>> BY <1>1 DEF WInv, Moves
  <2>2. Len(<<>>) = 0 OBVIOUS
  <2> QED BY <1>1, <2>1, <2>2 DEF WInv, Moves, Failing, Aimed, Delivered
<1>3. /\ stmt.rowset_start \in Int /\ res.base \in Int /\ Len(res.cached) \in Nat
      /\ srv.n \in Nat /\ srv.pos \in 0..(srv.n + 1) /\ res.move_offset \in Nat
      /\ call.size \in Nat \ {0} /\ stmt.fetch_max \in Nat \ {0}
      /\ Front = stmt.rowset_start - res.base /\ End = Front + Len(res.cached)
      /\ res.cursTuple = srv.pos - 1
  <2>1. res.cursTuple = srv.pos - 1 BY <1>1 DEF Pictured
  <2>2. Front = stmt.rowset_start - res.base BY <1>1, CallFacts
  <2> QED BY <1>1, <2>1, <2>2, CallFacts
<1>4. ~Stale BY <1>1 DEF Stale
<1>5. CASE Refuse("return") /\ NoRow(res)
  <2>1. /\ srv'.n = srv.n /\ srv'.pos = srv.pos /\ ~srv'.alive
        /\ call'.pc = "return" /\ call'.refused
        /\ call'.o = call.o /\ call'.k = call.k /\ call'.size = call.size
        /\ call'.rows = call.rows /\ call'.prev = call.prev
    BY <1>1, <1>5, RefuseLeaves
  <2>2. Fits(res, srv')
    <3>1. Joined \/ Loose BY <1>1, <1>4 DEF WInv, Linked
    <3> QED BY <1>1, <1>3, <1>4, <2>1, <3>1 DEF Fits, WInv, Window, Joined, Loose
  <2> QED BY <1>1, <1>2, <1>5, <2>1, <2>2, CallEnds
<1>6. CASE /\ srv' = IF back THEN Backward(wide) ELSE Forward(wide)
           /\ res' = [res EXCEPT
                !.num_total_read = IF short /\ ~res.eof THEN res.cursTuple + moved ELSE @,
                !.eof       = @ \/ short,
                !.cursTuple = IF back THEN @ - moved ELSE @ + moved,
                !.base = -1, !.move_offset = 0]
           /\ call' = [call EXCEPT !.pc = "fill", !.offset = OffsetAfter(moved, back)]
           /\ UNCHANGED stmt
  <2>1. FetchSize \in Nat \ {0} /\ FetchSize >= call.size BY <1>2, <1>3 DEF FetchSize
  <2>2. /\ wide \in Nat /\ wide >= res.move_offset
        /\ back => wide <= srv.pos /\ wide - res.move_offset < FetchSize
        /\ ~back => wide = res.move_offset
    <3>1. /\ FetchSize \in Nat \ {0} /\ res.reqsize \in Nat \ {0} /\ res.move_offset \in Nat
          /\ res.cursTuple + 1 = srv.pos /\ srv.pos \in Nat
          /\ back => res.move_offset <= srv.pos
      <4>1. res.reqsize \in Nat \ {0} /\ srv.pos \in Nat /\ srv.pos - 1 + 1 = srv.pos BY <1>2, <1>3
      <4>2. res.cursTuple + 1 = srv.pos BY <1>3, <4>1
      <4>3. back => res.move_offset = srv.pos - stmt.rowset_start BY <1>2
      <4>4. stmt.rowset_start \in Nat BY <1>2, <1>3
      <4>5. back => res.move_offset <= srv.pos
        <5> HIDE DEF back
        <5> QED BY <4>1, <4>3, <4>4
      <4> QED BY <1>3, <2>1, <4>1, <4>2, <4>5
    <3>2. CASE back /\ FetchSize > res.reqsize
      <4>1. wide = Lesser(res.move_offset + FetchSize - res.reqsize, res.cursTuple + 1) BY <3>2, Zenon
      <4> HIDE DEF wide
      <4> QED BY <3>1, <3>2, <4>1 DEF Lesser
    <3>3. CASE ~(back /\ FetchSize > res.reqsize)
      <4>1. wide = res.move_offset BY <3>3, Zenon
      <4> HIDE DEF wide
      <4> QED BY <3>1, <4>1
    <3> QED BY <3>2, <3>3
  <2> HIDE DEF wide
  <2>3. /\ back => moved = srv.pos - Backward(wide).pos
        /\ ~back => moved = Forward(wide).pos - srv.pos
    BY <1>1, <2>2, Distance, Zenon
  <2>4. /\ Backward(wide).pos = IF wide > srv.pos THEN 0 ELSE srv.pos - wide
        /\ Forward(wide).pos = Lesser(srv.n + 1, srv.pos + wide)
        /\ Backward(wide).n = srv.n /\ Forward(wide).n = srv.n
    BY <1>1 DEF SrvType, SrvFields, Backward, Forward
  <2>5. PICK offset : offset = OffsetAfter(moved, back) /\ call' = [call EXCEPT !.pc = "fill", !.offset = offset]
    BY <1>6, Zenon
  <2>6. /\ offset \in Nat /\ srv'.n = srv.n /\ srv'.pos = stmt.rowset_start - offset
        /\ offset < FetchSize \/ srv'.pos = srv.n + 1
    <3>1. CASE back
      <4>1. srv' = Backward(wide) /\ offset = moved - res.move_offset
        BY <1>6, <2>5, <3>1, Zenon DEF OffsetAfter
      <4>2. moved = srv.pos - Backward(wide).pos /\ wide <= srv.pos /\ wide - res.move_offset < FetchSize
        BY <2>2, <2>3, <3>1, Zenon
      <4>3. res.move_offset = srv.pos - stmt.rowset_start BY <1>2, <3>1
      <4> HIDE DEF back, moved, short, given
      <4>4. Backward(wide).pos = srv.pos - wide /\ moved = wide BY <1>3, <2>2, <2>4, <4>2
      <4>5. offset = wide - res.move_offset BY <4>1, <4>4
      <4>6. srv'.pos = srv.pos - wide /\ srv'.n = srv.n BY <2>4, <4>1, <4>4
      <4>7. wide \in Nat /\ wide >= res.move_offset /\ srv.pos \in Int BY <1>3, <2>2
      <4>8. wide - res.move_offset < FetchSize BY <4>2
      <4>9. stmt.rowset_start = srv.pos - res.move_offset BY <1>3, <4>3
      <4>10. srv.pos - wide = srv.pos - res.move_offset - (wide - res.move_offset) BY <1>3, <4>7
      <4> QED
        <5>1. res.move_offset \in Nat /\ FetchSize \in Nat BY <1>3, <2>1
        <5>2. offset \in Nat /\ offset < FetchSize BY <4>5, <4>7, <4>8, <5>1
        <5>3. srv'.pos = stmt.rowset_start - offset BY <4>5, <4>6, <4>7, <4>9, <5>1
        <5> QED BY <4>6, <5>2, <5>3
    <3>2. CASE ~back
      <4>1. srv' = Forward(wide) /\ offset = res.move_offset - moved
        BY <1>6, <2>5, <3>2, Zenon DEF OffsetAfter
      <4>2. moved = Forward(wide).pos - srv.pos /\ wide = res.move_offset BY <2>2, <2>3, <3>2, Zenon
      <4>3. res.move_offset = stmt.rowset_start - srv.pos BY <1>2, <3>2
      <4> HIDE DEF back, moved, short, given
      <4>4. srv'.pos = Lesser(srv.n + 1, srv.pos + wide) /\ srv'.n = srv.n BY <2>4, <4>1
      <4>5. offset = wide - (srv'.pos - srv.pos) BY <2>4, <4>1, <4>2, <4>4
      <4>6. wide \in Nat /\ wide = stmt.rowset_start - srv.pos BY <2>2, <4>2, <4>3
      <4>7. srv.n \in Nat /\ srv.pos \in 0..(srv.n + 1) /\ stmt.rowset_start \in Int BY <1>3
      <4>8. CASE srv.pos + wide <= srv.n + 1
        <5>1. srv'.pos = srv.pos + wide BY <4>4, <4>6, <4>7, <4>8 DEF Lesser
        <5>2. offset = 0 BY <4>5, <4>6, <4>7, <5>1
        <5> QED BY <2>1, <4>4, <4>6, <4>7, <5>1, <5>2
      <4>9. CASE ~(srv.pos + wide <= srv.n + 1)
        <5>1. srv'.pos = srv.n + 1 BY <4>4, <4>6, <4>7, <4>9 DEF Lesser
        <5>2. offset = wide - (srv.n + 1 - srv.pos) BY <4>5, <4>6, <4>7, <5>1
        <5> QED BY <4>4, <4>6, <4>7, <4>9, <5>1, <5>2
      <4> QED BY <4>8, <4>9
    <3> QED BY <3>1, <3>2
  <2>7. PICK total, eof, curs :
          res' = [res EXCEPT !.num_total_read = total, !.eof = eof, !.cursTuple = curs,
                             !.base = -1, !.move_offset = 0]
    BY <1>6, Zenon
  <2>8. /\ res'.open = res.open /\ res'.cursor = res.cursor /\ res'.chain = res.chain
        /\ res'.valid = res.valid /\ res'.reqsize = res.reqsize /\ res'.moving = res.moving
    BY <1>1, <2>7 DEF ResultType, ResFields
  <2>9. /\ call'.pc = "fill" /\ call'.offset = offset /\ call'.o = call.o /\ call'.k = call.k
        /\ call'.size = call.size /\ call'.rows = call.rows /\ call'.refused = call.refused
        /\ call'.prev = call.prev
    BY <1>1, <2>5 DEF CallType, CallFields
  <2>10. stmt' = stmt /\ Stale' /\ res'.moving # 0 BY <1>2, <1>6, <2>8, <2>9 DEF Stale
  <2>11. Bounds' /\ Standing' /\ Aimed' /\ Shown'
    <3>1. Continues BY <1>1, <2>6, <2>9, <2>10 DEF Continues
    <3> QED BY <3>1, ContinuesWindow
  <2>12. Kinds' /\ Window' /\ Ended' /\ Linked'
    BY <1>1, <2>8, <2>9, <2>10 DEF WInv, Kinds, Window, Ended, Linked
  <2>13. Delivered' /\ Failing' BY <1>1, <1>2, <2>8, <2>9, <2>10 DEF WInv, Delivered, Failing
  <2>14. Moves'
    <3>1. FetchSize' = FetchSize BY <2>8, <2>10 DEF FetchSize
    <3> QED BY <1>1, <1>2, <2>6, <2>8, <2>9, <2>10, <3>1 DEF Moves
  <2> QED BY <2>11, <2>12, <2>13, <2>14 DEF WInv
<1> QED BY <1>5, <1>6, Zenon DEF MoveCursor

\* The window is ready for a FETCH of size rows, and the cursor stands behind it.
Prepared(r, size) ==
  LET front == stmt.rowset_start - r.base
      end   == front + Len(r.cached)
  IN /\ size \in Nat \ {0} /\ r.base >= 0 /\ front >= 0
     /\ r.moving = 0 /\ r.move_offset = 0
     /\ r.fetch_number = r.base + Len(call.rows) + 1
     /\ \A i \in 1..Len(r.cached) : r.cached[i] = front + i
     /\ Len(r.cached) > 0 => r.dataFilled /\ end <= r.num_total_read
     /\ end = srv.pos \/ (Loose /\ (~srv.alive \/ end = srv.n))
     /\ srv.alive => end = srv.pos
     /\ Len(call.rows) > 0 => r.base + Len(call.rows) <= Len(r.cached)
     /\ r.base + Len(call.rows) < Len(r.cached) + size \/ srv.pos = srv.n + 1

\* What Ready changes.
LEMMA ReadyLeaves ==
  ASSUME ResultType(res), NEW r, r = Ready
  PROVE  /\ r.valid = res.valid /\ r.chain = res.chain /\ r.reqsize = res.reqsize
         /\ Anew => /\ r.cached = <<>> /\ r.moving = 0 /\ r.move_offset = 0
                    /\ r.fetch_number = call.offset + 1 /\ r.base = call.offset
         /\ ~Anew => /\ r.cached = res.cached /\ r.moving = res.moving /\ r.move_offset = res.move_offset
                     /\ r.fetch_number = res.fetch_number + 1 /\ r.base = res.base
                     /\ r.dataFilled = res.dataFilled
<1>1. CASE Anew
  <2>1. PICK no : r = [res EXCEPT !.dataFilled = no, !.moving = 0, !.move_offset = 0, !.cached = <<>>,
                                  !.fetch_number = call.offset + 1, !.base = call.offset]
    BY <1>1, Zenon DEF Ready
  <2> QED BY <1>1, <2>1 DEF ResultType, ResFields
<1>2. CASE ~Anew
  <2>1. r = [res EXCEPT !.fetch_number = res.fetch_number + 1] BY <1>2, Zenon DEF Ready
  <2> QED BY <1>2, <2>1 DEF ResultType, ResFields
<1> QED BY <1>1, <1>2

LEMMA ReadyWindow ==
  ASSUME Types, WInv, Pictured(res, srv), call.pc = "fill", res.cursor, res.open, NEW r, r = Ready,
         NEW size, size = IF Anew THEN FetchSize ELSE res.reqsize + res.base - Len(res.cached)
  PROVE  /\ Prepared(r, size)
         /\ (IF Anew THEN call.offset ELSE res.fetch_number) = r.base + Len(call.rows)
<1>1. ResultType(res) /\ CallType BY DEF Types
<1>2. /\ r.valid = res.valid /\ r.chain = res.chain /\ r.reqsize = res.reqsize
      /\ Anew => /\ r.cached = <<>> /\ r.moving = 0 /\ r.move_offset = 0
                 /\ r.fetch_number = call.offset + 1 /\ r.base = call.offset
      /\ ~Anew => /\ r.cached = res.cached /\ r.moving = res.moving /\ r.move_offset = res.move_offset
                  /\ r.fetch_number = res.fetch_number + 1 /\ r.base = res.base
                  /\ r.dataFilled = res.dataFilled
  BY <1>1, ReadyLeaves
<1>3. r.num_total_read = res.num_total_read BY <1>1, ReadyTypes
<1>4. /\ stmt.rowset_start \in Nat /\ res.base \in Int /\ Len(res.cached) \in Nat
      /\ res.fetch_number \in Int /\ call.offset \in Int /\ Len(call.rows) \in Nat
      /\ srv.n \in Nat /\ srv.pos \in Nat /\ call.size \in Nat \ {0}
      /\ Front = stmt.rowset_start - res.base /\ End = Front + Len(res.cached)
      /\ res.reqsize = call.size /\ Len(call.rows) < call.size
      /\ stmt.currTuple = stmt.rowset_start - 1 + Len(call.rows)
  <2>1. stmt.rowset_start \in Nat BY CallFacts DEF WInv, Aimed
  <2>2. /\ res.reqsize = call.size /\ Len(call.rows) < call.size
        /\ stmt.currTuple = stmt.rowset_start - 1 + Len(call.rows)
    BY DEF WInv, Delivered
  <2>3. srv.pos \in Nat /\ Front = stmt.rowset_start - res.base BY CallFacts
  <2> QED BY <2>1, <2>2, <2>3, CallFacts
<1>5. FetchSize \in Nat \ {0}
  <2>1. stmt.fetch_max \in Nat \ {0} /\ res.reqsize \in Nat BY CallFacts
  <2> QED BY <2>1 DEF FetchSize
<1>6. Len(<<>>) = 0 OBVIOUS
<1>7. CASE res.moving # 0
  <2>1. Anew BY <1>7 DEF Anew
  <2>2. /\ call.rows = <<>> /\ call.offset >= 0 /\ srv.pos = stmt.rowset_start - call.offset
        /\ call.offset < FetchSize \/ srv.pos = srv.n + 1
    BY <1>7 DEF WInv, Moves
  <2>3. size = FetchSize /\ r.cached = <<>> /\ r.base = call.offset /\ Len(call.rows) = 0
    BY <1>2, <1>6, <2>1, <2>2
  <2>4. r.fetch_number = call.offset + 1 /\ r.moving = 0 /\ r.move_offset = 0 /\ Len(r.cached) = 0
    BY <1>2, <1>6, <2>1
  <2>5. stmt.rowset_start - call.offset + 0 = srv.pos /\ call.offset + 0 = call.offset BY <1>4, <2>2
  <2>6. size \in Nat \ {0} /\ r.base >= 0 /\ r.fetch_number = r.base + Len(call.rows) + 1
    <3>1. call.offset \in Int /\ call.offset + 0 + 1 = call.offset + 1 BY <1>4
    <3> QED BY <1>5, <2>2, <2>3, <2>4, <3>1
  <2>7. stmt.rowset_start - r.base + Len(r.cached) = srv.pos /\ stmt.rowset_start - r.base >= 0
    BY <1>4, <2>2, <2>3, <2>4
  <2>8. r.base + Len(call.rows) < Len(r.cached) + size \/ srv.pos = srv.n + 1
    <3>1. r.base + Len(call.rows) = call.offset /\ Len(r.cached) + size = size
      <4>1. call.offset + 0 = call.offset /\ 0 + size = size BY <1>4, <2>6
      <4> QED BY <2>3, <2>4, <4>1
    <3>2. call.offset < size \/ srv.pos = srv.n + 1 BY <2>2, <2>3
    <3> QED BY <3>1, <3>2
  <2>9. Prepared(r, size) BY <2>3, <2>4, <2>6, <2>7, <2>8 DEF Prepared
  <2> QED BY <2>1, <2>3, <2>5, <2>9
<1>8. CASE res.moving = 0
  <2>1. /\ res.base >= 0 /\ res.fetch_number = res.base + Len(call.rows)
        /\ res.fetch_number = Len(res.cached) /\ res.move_offset = 0 /\ call.offset = 0
        /\ res.eof => stmt.currTuple + 1 < srv.n
    BY <1>8 DEF WInv, Moves, Reading
  <2>2. ~Stale BY <1>8 DEF Stale
  <2>3. Joined \/ (Loose /\ ~srv.alive) BY <2>2 DEF WInv, Linked, OnTheWay
  <2>4. End = stmt.rowset_start + Len(call.rows)
    <3>1. /\ stmt.rowset_start \in Int /\ res.base \in Int /\ Len(call.rows) \in Int
          /\ Front = stmt.rowset_start - res.base /\ End = Front + Len(res.cached)
      BY <1>4
    <3>2. Len(res.cached) = res.base + Len(call.rows) BY <2>1
    <3> QED BY <3>1, <3>2
  <2>5. Loose => End # srv.n
    <3>1. res.eof => End < srv.n
      <4>1. stmt.currTuple + 1 = stmt.rowset_start + Len(call.rows)
        <5>1. /\ stmt.rowset_start \in Nat /\ Len(call.rows) \in Nat
              /\ stmt.currTuple = stmt.rowset_start - 1 + Len(call.rows)
          BY <1>4
        <5> QED BY <5>1
      <4> QED BY <2>1, <2>4, <4>1
    <3> QED BY <1>4, <2>4, <3>1 DEF Loose
  <2>6. End = srv.pos \/ (Loose /\ ~srv.alive) BY <2>3, <2>5 DEF Joined
  <2>7. CASE Anew
    <3>1. res.base = Len(res.cached) /\ Len(call.rows) = 0
      <4>1. res.base >= Len(res.cached) /\ res.base + Len(call.rows) = Len(res.cached)
        BY <1>8, <2>1, <2>7 DEF Anew
      <4>2. res.base \in Int /\ Len(res.cached) \in Int /\ Len(call.rows) \in Nat BY <1>4
      <4> QED BY <4>1, <4>2
    <3>2. size = FetchSize /\ r.base = 0 /\ r.fetch_number = 1 /\ Len(r.cached) = 0
          /\ r.moving = 0 /\ r.move_offset = 0
      BY <1>2, <1>6, <2>1, <2>7
    <3>3. End = stmt.rowset_start - 0 + 0 BY <1>4, <2>4, <3>1
    <3>4. Prepared(r, size) BY <1>4, <1>5, <2>6, <3>1, <3>2, <3>3 DEF Prepared
    <3> QED BY <2>1, <2>7, <3>1, <3>2, <3>4
  <2>8. CASE ~Anew
    <3>1. size = call.size + res.base - Len(res.cached) /\ size = call.size - Len(call.rows)
      <4>1. /\ Len(call.rows) \in Nat /\ Len(res.cached) \in Nat /\ call.size \in Nat /\ res.base \in Int
            /\ res.base + Len(call.rows) = Len(res.cached)
            /\ size = call.size + res.base - Len(res.cached)
        BY <1>4, <2>1, <2>8
      <4> QED BY <4>1
    <3>2. size \in Nat \ {0}
      <4>1. Len(call.rows) \in Nat /\ call.size \in Nat /\ Len(call.rows) < call.size BY <1>4
      <4> QED BY <3>1, <4>1
    <3>3. /\ Front >= 0
          /\ \A i \in 1..Len(res.cached) : res.cached[i] = Front + i
          /\ Len(res.cached) > 0 => res.dataFilled /\ End <= res.num_total_read
      BY <2>2 DEF WInv, Window
    <3>4. /\ r.cached = res.cached /\ r.base = res.base /\ r.moving = 0 /\ r.move_offset = 0
          /\ r.dataFilled = res.dataFilled /\ r.fetch_number = res.base + Len(call.rows) + 1
      BY <1>2, <1>8, <2>1, <2>8
    <3>5. /\ res.base + Len(call.rows) <= Len(res.cached)
          /\ res.base + Len(call.rows) < Len(res.cached) + size
      <4>1. Len(res.cached) \in Nat /\ res.base + Len(call.rows) = Len(res.cached) BY <1>4, <2>1
      <4> QED BY <3>2, <4>1
    <3>6. stmt.rowset_start - res.base + Len(res.cached) = End BY <1>4
    <3>7. /\ stmt.rowset_start - r.base = Front /\ stmt.rowset_start - r.base + Len(r.cached) = End
          /\ r.fetch_number = r.base + Len(call.rows) + 1 /\ r.base >= 0
          /\ r.base + Len(call.rows) <= Len(r.cached)
          /\ r.base + Len(call.rows) < Len(r.cached) + size
      BY <1>4, <2>1, <3>4, <3>5, <3>6
    <3>8. /\ \A i \in 1..Len(r.cached) : r.cached[i] = Front + i
          /\ Len(r.cached) > 0 => r.dataFilled /\ End <= r.num_total_read
      BY <1>3, <3>3, <3>4
    <3>9. Prepared(r, size) BY <2>6, <3>2, <3>3, <3>4, <3>7, <3>8 DEF Prepared
    <3> QED BY <2>1, <2>8, <3>4, <3>9
  <2> QED BY <2>7, <2>8
<1> QED BY <1>7, <1>8

\* The rows that a FETCH of size rows brings.
NewRows(size) == [i \in 1..Passed(size) |-> srv.pos + i]

\* The window of q is that of r with those rows behind it.
Widened(q, r, size) == q.cached = r.cached \o NewRows(size)

\* What the answer to the FETCH adds to the window.
LEMMA AnswerAdds ==
  ASSUME SrvType, NEW r, ResultType(r), r.cursTuple = srv.pos - 1,
         NEW size \in Nat \ {0}, NEW q, q = QR_from_PGresult(r, size)
  PROVE  /\ Widened(q, r, size) /\ q.dataFilled
         /\ q.open = r.open /\ q.cursor = r.cursor /\ q.base = r.base /\ q.valid = r.valid
         /\ q.chain = r.chain /\ q.reqsize = r.reqsize /\ q.fetch_number = r.fetch_number
         /\ q.moving = r.moving /\ q.move_offset = r.move_offset
         /\ Passed(size) < size => q.eof
         /\ r.eof => q.eof
         /\ q.num_total_read \in Int /\ q.num_total_read >= r.num_total_read
         /\ Passed(size) > 0 => q.num_total_read >= srv.pos + Passed(size)
<1> DEFINE got == Passed(size)
           first == IF got > 0 /\ r.cursTuple + got >= r.num_total_read
                    THEN r.cursTuple + got + 1 ELSE r.num_total_read
<1>1. PICK t, yes : /\ yes = TRUE
                    /\ t = [r EXCEPT !.cached = r.cached \o [i \in 1..got |-> srv.pos + i],
                                     !.dataFilled = yes, !.cursTuple = r.cursTuple + got,
                                     !.num_total_read = first]
                    /\ t = QR_read_tuples_from_pgres(r, got)
  BY Zenon DEF QR_read_tuples_from_pgres
<1>2. /\ t.open = r.open /\ t.cursor = r.cursor /\ t.base = r.base /\ t.valid = r.valid
      /\ t.chain = r.chain /\ t.reqsize = r.reqsize /\ t.fetch_number = r.fetch_number
      /\ t.moving = r.moving /\ t.move_offset = r.move_offset /\ t.eof = r.eof
      /\ t.cached = r.cached \o [i \in 1..got |-> srv.pos + i] /\ t.dataFilled = yes
      /\ t.cursTuple = r.cursTuple + got /\ t.num_total_read = first
      /\ t = [f \in ResFields |-> t[f]]
  <2> DEFINE new == r.cached \o [i \in 1..got |-> srv.pos + i]
             curs == r.cursTuple + got
  <2>1. t = [r EXCEPT !.cached = new, !.dataFilled = yes, !.cursTuple = curs, !.num_total_read = first]
    BY <1>1, Zenon
  <2> HIDE DEF first, got, new, curs
  <2>2. /\ t.open = r.open /\ t.cursor = r.cursor /\ t.base = r.base /\ t.valid = r.valid
        /\ t.chain = r.chain /\ t.reqsize = r.reqsize /\ t.fetch_number = r.fetch_number
        /\ t.moving = r.moving /\ t.move_offset = r.move_offset /\ t.eof = r.eof
    BY <2>1 DEF ResultType, ResFields
  <2>3. /\ t.cached = new /\ t.dataFilled = yes /\ t.cursTuple = curs /\ t.num_total_read = first
        /\ t = [f \in ResFields |-> t[f]]
    BY <2>1 DEF ResultType, ResFields
  <2> QED BY <2>2, <2>3, Zenon DEF new, curs
<1> DEFINE read == IF ~t.eof /\ t.cursTuple >= t.num_total_read THEN t.cursTuple + 1 ELSE t.num_total_read
           curs == IF got < size /\ t.cursTuple < read THEN read ELSE t.cursTuple
<1>3. PICK end : end = (t.eof \/ got < size) /\ q = [t EXCEPT !.num_total_read = read, !.eof = end, !.cursTuple = curs]
  BY <1>1, Zenon DEF QR_from_PGresult
<1>4. /\ q.open = t.open /\ q.cursor = t.cursor /\ q.base = t.base /\ q.valid = t.valid
      /\ q.chain = t.chain /\ q.reqsize = t.reqsize /\ q.fetch_number = t.fetch_number
      /\ q.moving = t.moving /\ q.move_offset = t.move_offset /\ q.eof = end
      /\ q.cached = t.cached /\ q.dataFilled = t.dataFilled /\ q.num_total_read = read
  <2> HIDE DEF first, got, read, curs
  <2> QED BY <1>2, <1>3 DEF ResFields
<1>5. q.dataFilled /\ (got < size => q.eof) /\ (r.eof => q.eof) BY <1>1, <1>2, <1>3, <1>4, Zenon
<1>6. /\ got \in Nat /\ srv.pos \in Nat /\ r.num_total_read \in Int
      /\ r.cursTuple + got + 1 = srv.pos + got
  <2>1. srv.n \in Nat /\ srv.pos \in 0..(srv.n + 1) BY DEF SrvType
  <2>2. got \in Nat BY <2>1 DEF Passed, Lesser
  <2>3. r.num_total_read \in Int BY DEF ResultType
  <2> QED BY <2>1, <2>2, <2>3
<1>7. /\ first \in Int /\ first >= r.num_total_read
      /\ got > 0 => first >= srv.pos + got
  <2>1. r.cursTuple \in Int BY DEF ResultType
  <2> HIDE DEF got
  <2> QED BY <1>6, <2>1
<1>8. read >= first
  <2>1. t.cursTuple \in Int /\ t.num_total_read = first /\ first \in Int
    <3>1. r.cursTuple \in Int BY DEF ResultType
    <3> HIDE DEF got, first
    <3> QED BY <1>2, <1>6, <1>7, <3>1
  <2> HIDE DEF got, first
  <2> QED BY <2>1
<1> HIDE DEF read, first
<1>9. read \in Int
  <2>1. t.cursTuple \in Int /\ t.num_total_read \in Int
    <3>1. r.cursTuple \in Int BY DEF ResultType
    <3> HIDE DEF got
    <3> QED BY <1>2, <1>6, <1>7, <3>1
  <2> QED BY <2>1 DEF read
<1>10. q.num_total_read \in Int /\ q.num_total_read >= r.num_total_read /\ (got > 0 => q.num_total_read >= srv.pos + got)
  <2> HIDE DEF got
  <2> QED BY <1>4, <1>6, <1>7, <1>8, <1>9
<1>11. Widened(q, r, size) BY <1>2, <1>4, Zenon DEF NewRows, Widened
<1> QED BY <1>2, <1>4, <1>5, <1>10, <1>11, Zenon

LEMMA RowsAppended ==
  ASSUME NEW s \in Seq(Int), NEW t \in Seq(Int)
  PROVE  /\ Len(s \o t) = Len(s) + Len(t)
         /\ \A i \in 1..Len(s \o t) : (s \o t)[i] = IF i <= Len(s) THEN s[i] ELSE t[i - Len(s)]
OBVIOUS

\* After the FETCH the window fits again; when the rowset's next row is not in it, the
\* result has no such row.
LEMMA FetchedWindow ==
  ASSUME Types, WInv, Pictured(res, srv), call.pc = "fill", srv.alive,
         NEW r, ResultType(r), r.cursTuple = srv.pos - 1, r.eof = res.eof, res.eof \/ srv.pos <= srv.n,
         NEW size, Prepared(r, size), NEW q, q = QR_from_PGresult(r, size)
  PROVE  /\ Fits(q, Forward(size)) /\ Len(r.cached) <= Len(q.cached) /\ Len(q.cached) \in Nat
         /\ Forward(size).n = srv.n
         /\ r.base + Len(call.rows) >= Len(q.cached) =>
              q.eof /\ stmt.rowset_start + Len(call.rows) >= srv.n
<1> DEFINE front == stmt.rowset_start - r.base
           got == Passed(size)
<1>1. /\ size \in Nat \ {0} /\ r.base >= 0 /\ front >= 0
      /\ \A i \in 1..Len(r.cached) : r.cached[i] = front + i
      /\ Len(r.cached) > 0 => r.dataFilled /\ front + Len(r.cached) <= r.num_total_read
      /\ front + Len(r.cached) = srv.pos
      /\ r.base + Len(call.rows) < Len(r.cached) + size \/ srv.pos = srv.n + 1
  BY DEF Prepared
<1>2. /\ q.cached = r.cached \o NewRows(size) /\ q.dataFilled
      /\ q.base = r.base
      /\ got < size => q.eof
  <2>1. SrvType BY DEF Types
  <2>2. size \in Nat \ {0} BY <1>1
  <2>3. q.cached = r.cached \o NewRows(size)
    <3>1. Widened(q, r, size) BY <2>1, <2>2, AnswerAdds
    <3> QED BY <3>1, Zenon DEF Widened
  <2>4. q.base = r.base BY <2>1, <2>2, AnswerAdds
  <2>5. q.dataFilled BY <2>1, <2>2, AnswerAdds
  <2>6. Passed(size) < size => q.eof BY <2>1, <2>2, AnswerAdds
  <2> QED BY <2>3, <2>4, <2>5, <2>6, Zenon
<1>3. q.num_total_read \in Int /\ q.num_total_read >= r.num_total_read /\ (got > 0 => q.num_total_read >= srv.pos + got)
  BY <1>1, AnswerAdds DEF Types
<1>4. /\ srv.n \in Nat /\ srv.pos \in 0..(srv.n + 1) /\ stmt.rowset_start \in Int /\ r.base \in Int
      /\ Len(call.rows) \in Nat /\ r.cached \in Seq(Int) /\ Len(r.cached) \in Nat
      /\ r.num_total_read \in Int /\ got \in Nat
  <2>1. stmt.rowset_start \in Int /\ Len(call.rows) \in Nat BY CallFacts
  <2>2. srv.n \in Nat /\ srv.pos \in 0..(srv.n + 1) BY DEF Types, SrvType
  <2>3. /\ r.base \in Int /\ r.cached \in Seq(Int) /\ Len(r.cached) \in Nat
        /\ r.num_total_read \in Int
    BY DEF ResultType
  <2>4. got \in Nat BY <1>1, <2>2 DEF Passed, Lesser
  <2> QED BY <2>1, <2>2, <2>3, <2>4
<1>5. /\ srv.pos <= srv.n => /\ got \in 0..size
                             /\ got < size => got = srv.n - srv.pos /\ Forward(size).pos = srv.n + 1
                             /\ got = size => Forward(size).pos = srv.pos + size
      /\ srv.pos > srv.n => got = 0 /\ Forward(size).pos = srv.n + 1
  <2>1. SrvType BY DEF Types
  <2>2. size \in Nat BY <1>1
  <2>3. ASSUME srv.pos <= srv.n
        PROVE  /\ got \in 0..size
               /\ got < size => got = srv.n - srv.pos /\ Forward(size).pos = srv.n + 1
               /\ got = size => Forward(size).pos = srv.pos + size
    BY <2>1, <2>2, <2>3, RunsOver, Zenon
  <2>4. ASSUME srv.pos > srv.n
        PROVE  got = 0 /\ Forward(size).pos = srv.n + 1
    BY <2>1, <2>2, <2>4, Behind, Zenon
  <2> QED BY <2>3, <2>4, Zenon
<1>6. Forward(size).n = srv.n BY DEF Types, SrvType, SrvFields, Forward
<1> HIDE DEF got
<1>7. /\ Len(q.cached) = Len(r.cached) + got /\ Len(q.cached) \in Nat
      /\ \A i \in 1..Len(q.cached) :
           q.cached[i] = IF i <= Len(r.cached) THEN r.cached[i] ELSE srv.pos + (i - Len(r.cached))
  <2> DEFINE new == NewRows(size)
  <2>1. new \in Seq(Int) /\ Len(new) = got /\ \A i \in 1..got : new[i] = srv.pos + i
    BY <1>4 DEF NewRows, got
  <2>2. q.cached = r.cached \o new BY <1>2
  <2> HIDE DEF new
  <2>3. /\ Len(q.cached) = Len(r.cached) + got
        /\ \A i \in 1..Len(q.cached) :
             q.cached[i] = IF i <= Len(r.cached) THEN r.cached[i] ELSE new[i - Len(r.cached)]
    <3>1. r.cached \in Seq(Int) /\ new \in Seq(Int) BY <1>4, <2>1
    <3>2. /\ Len(r.cached \o new) = Len(r.cached) + Len(new)
          /\ \A i \in 1..Len(r.cached \o new) :
               (r.cached \o new)[i] = IF i <= Len(r.cached) THEN r.cached[i] ELSE new[i - Len(r.cached)]
      BY <3>1, RowsAppended, Zenon
    <3> QED BY <2>1, <2>2, <3>2, Zenon
  <2>4. ASSUME NEW i \in 1..Len(q.cached), ~(i <= Len(r.cached))
        PROVE  new[i - Len(r.cached)] = srv.pos + (i - Len(r.cached))
    <3>1. i - Len(r.cached) \in 1..got
      <4>1. i \in 1..(Len(r.cached) + got) /\ Len(r.cached) \in Nat /\ got \in Nat BY <1>4, <2>3
      <4> QED BY <2>4, <4>1
    <3> QED BY <2>1, <3>1
  <2>5. Len(q.cached) \in Nat BY <1>4, <2>3
  <2> QED BY <2>3, <2>4, <2>5, Zenon
<1>8. \A i \in 1..Len(q.cached) : q.cached[i] = front + i
  <2> SUFFICES ASSUME NEW i \in 1..Len(q.cached) PROVE q.cached[i] = front + i OBVIOUS
  <2> HIDE DEF front
  <2>1. front \in Int BY <1>4 DEF front
  <2>2. CASE i <= Len(r.cached)
    <3>1. i \in 1..Len(r.cached) BY <1>4, <2>2
    <3> QED BY <1>1, <1>7, <2>2, <3>1
  <2>3. CASE ~(i <= Len(r.cached))
    <3>1. q.cached[i] = srv.pos + (i - Len(r.cached)) BY <1>7, <2>3
    <3> QED BY <1>1, <1>4, <2>1, <3>1
  <2> QED BY <2>2, <2>3
<1> DEFINE end == front + Len(q.cached)
<1>9. end = srv.pos + got
  <2>1. front \in Int BY <1>4
  <2> HIDE DEF front
  <2> QED BY <1>1, <1>4, <1>7, <2>1
<1>10. Len(q.cached) > 0 => end <= q.num_total_read
  <2>1. CASE got > 0 BY <1>3, <1>9, <2>1
  <2>2. CASE got = 0
    <3>1. Len(q.cached) > 0 => srv.pos <= r.num_total_read
      <4> HIDE DEF front
      <4> QED BY <1>1, <1>4, <1>7, <2>2
    <3>2. end = srv.pos BY <1>4, <1>9, <2>2
    <3> HIDE DEF end
    <3> QED BY <1>3, <1>4, <3>1, <3>2
  <2> QED BY <1>4, <2>1, <2>2
<1>11. (end = Forward(size).pos) \/ (q.eof /\ Forward(size).pos = srv.n + 1 /\ end = srv.n)
  <2> HIDE DEF end
  <2>1. CASE srv.pos > srv.n BY <1>4, <1>5, <1>9, <2>1
  <2>2. CASE srv.pos <= srv.n
    <3>1. got \in 0..size /\ size \in Nat /\ srv.n \in Nat /\ srv.pos \in Nat BY <1>1, <1>4, <1>5, <2>2
    <3>2. CASE got < size
      <4>1. got = srv.n - srv.pos /\ Forward(size).pos = srv.n + 1 /\ end = srv.pos + got
        BY <1>5, <1>9, <2>2, <3>2
      <4>2. end = srv.n BY <3>1, <4>1
      <4> QED BY <1>2, <3>2, <4>1, <4>2
    <3>3. CASE got = size BY <1>5, <1>9, <2>2, <3>3
    <3> QED BY <3>1, <3>2, <3>3
  <2> QED BY <1>4, <2>1, <2>2
<1>12. Fits(q, Forward(size)) BY <1>1, <1>2, <1>6, <1>8, <1>10, <1>11 DEF Fits
<1>13. ASSUME r.base + Len(call.rows) >= Len(q.cached)
       PROVE  q.eof /\ stmt.rowset_start + Len(call.rows) >= srv.n
  <2>1. got < size
    <3>1. CASE srv.pos > srv.n BY <1>1, <1>4, <1>5, <3>1
    <3>2. CASE srv.pos <= srv.n
      <4>1. r.base + Len(call.rows) < Len(r.cached) + size BY <1>1, <1>4, <3>2
      <4> QED BY <1>1, <1>4, <1>5, <1>7, <1>13, <3>2, <4>1
    <3> QED BY <1>4, <3>1, <3>2
  <2>2. srv.pos + got >= srv.n BY <1>4, <1>5, <2>1
  <2>3. stmt.rowset_start + Len(call.rows) >= end BY <1>4, <1>7, <1>13
  <2> HIDE DEF end
  <2> QED BY <1>2, <1>4, <1>9, <2>1, <2>2, <2>3
<1> QED BY <1>4, <1>6, <1>7, <1>12, <1>13

LEMMA RefillWindow ==
  ASSUME IInv, WInv, Refill
  PROVE  WInv'
<1> DEFINE size == IF Anew THEN FetchSize ELSE res.reqsize + res.base - Len(res.cached)
           offs == IF Anew THEN call.offset ELSE res.fetch_number
           full == QR_from_PGresult(Ready, size)
<1>1. /\ Types /\ StmtType /\ ResultType(res) /\ SrvType /\ CallType /\ Pictured(res, srv) /\ WInv
      /\ call.pc = "fill" /\ res.cursor /\ res.open /\ stmt.fetchcursor /\ res.valid /\ seen' = seen
  BY DEF IInv, Types, Underway, WInv, Kinds, Delivered, Refill
<1>2. PICK r : r = Ready OBVIOUS
<1>3. /\ ResultType(r) /\ r.open = res.open /\ r.cursor = res.cursor /\ r.eof = res.eof
      /\ r.num_total_read = res.num_total_read /\ r.cursTuple = res.cursTuple
      /\ r.valid = res.valid /\ r.chain = res.chain /\ r.reqsize = res.reqsize
  BY <1>1, <1>2, ReadyTypes, ReadyLeaves
<1>4. Prepared(r, size) /\ offs = r.base + Len(call.rows) BY <1>1, <1>2, ReadyWindow
<1>5. /\ size \in Nat \ {0} /\ r.base >= 0 /\ r.moving = 0 /\ r.move_offset = 0
      /\ r.fetch_number = r.base + Len(call.rows) + 1
      /\ Len(call.rows) > 0 => r.base + Len(call.rows) <= Len(r.cached)
  <2> HIDE DEF size, offs
  <2> QED BY <1>4 DEF Prepared
<1>6. /\ stmt.rowset_start \in Int /\ Len(call.rows) \in Nat /\ r.base \in Int
      /\ Len(r.cached) \in Nat /\ ~call.refused /\ stmt.rowset_start >= 0
  <2>1. stmt.rowset_start \in Int /\ Len(call.rows) \in Nat BY <1>1, CallFacts
  <2>2. r.base \in Int /\ Len(r.cached) \in Nat BY <1>3 DEF ResultType
  <2> QED BY <1>1, <2>1, <2>2 DEF WInv, Failing, Aimed
<1>7. CASE /\ srv.alive /\ srv' = Forward(size)
           /\ \/ offs < Len(full.cached) /\ res' = full /\ GotRow(CachedRow(full, offs), call)
              \/ /\ offs >= Len(full.cached) /\ NoRow(full)
                 /\ call' = [call EXCEPT !.pc = "return"]
  <2>1. PICK q : q = QR_from_PGresult(r, size) /\ q = full BY <1>2, Zenon
  <2>2. /\ srv.alive /\ srv' = Forward(size)
        /\ \/ offs < Len(q.cached) /\ res' = q /\ GotRow(CachedRow(q, offs), call)
           \/ offs >= Len(q.cached) /\ NoRow(q) /\ call' = [call EXCEPT !.pc = "return"]
    <3> HIDE DEF size, offs, full
    <3> QED BY <1>7, <2>1
  <2> HIDE DEF size, offs, full
  <2>3. r.cursTuple = srv.pos - 1 /\ (res.eof \/ srv.pos <= srv.n) /\ Pictured(r, srv)
    BY <1>1, <1>3 DEF Pictured
  <2>4. ResultType(q)
    <3>1. size \in Nat /\ size > 0 /\ r.cursor /\ r.open BY <1>1, <1>3, <1>5
    <3> QED BY <1>1, <1>3, <2>1, <2>3, <3>1, FetchedPicture, Zenon
  <2>5. /\ Fits(q, srv') /\ Len(r.cached) <= Len(q.cached) /\ Len(q.cached) \in Nat
        /\ srv'.n = srv.n
        /\ offs >= Len(q.cached) => q.eof /\ stmt.rowset_start + Len(call.rows) >= srv.n
    <3>1. /\ Fits(q, Forward(size)) /\ Len(r.cached) <= Len(q.cached) /\ Len(q.cached) \in Nat
          /\ Forward(size).n = srv.n
          /\ r.base + Len(call.rows) >= Len(q.cached) =>
               q.eof /\ stmt.rowset_start + Len(call.rows) >= srv.n
      BY <1>1, <1>3, <1>4, <2>1, <2>2, <2>3, FetchedWindow, Zenon
    <3> QED BY <1>4, <2>2, <3>1, Zenon
  <2>6. /\ q.dataFilled
        /\ q.open = r.open /\ q.cursor = r.cursor /\ q.base = r.base /\ q.valid = r.valid
        /\ q.chain = r.chain /\ q.reqsize = r.reqsize /\ q.fetch_number = r.fetch_number
        /\ q.moving = r.moving /\ q.move_offset = r.move_offset
    <3>1. /\ SrvType /\ ResultType(r) /\ size \in Nat \ {0} /\ r.cursTuple = srv.pos - 1
          /\ q = QR_from_PGresult(r, size)
      BY <1>1, <1>3, <1>5, <2>1, <2>3
    <3>2. q.dataFilled BY <3>1, AnswerAdds
    <3>3. q.open = r.open /\ q.cursor = r.cursor /\ q.valid = r.valid BY <3>1, AnswerAdds
    <3>4. q.base = r.base /\ q.chain = r.chain /\ q.reqsize = r.reqsize BY <3>1, AnswerAdds
    <3>5. q.fetch_number = r.fetch_number /\ q.moving = r.moving /\ q.move_offset = r.move_offset
      BY <3>1, AnswerAdds
    <3> QED BY <3>2, <3>3, <3>4, <3>5, Zenon
  <2>7. srv'.pos = Forward(size).pos /\ srv'.alive = srv.alive
    BY <1>1, <2>2 DEF Forward, SrvType, SrvFields
  <2>8. CASE offs >= Len(q.cached) /\ NoRow(q) /\ call' = [call EXCEPT !.pc = "return"]
    <3>1. /\ call'.pc = "return" /\ call'.o = call.o /\ call'.k = call.k /\ call'.size = call.size
          /\ call'.rows = call.rows /\ call'.refused = call.refused /\ call'.prev = call.prev
      BY <1>1, <2>8, Onward
    <3>2. Len(call.rows) > 0 => q.base >= 0 /\ q.base + Len(call.rows) <= Len(q.cached)
      BY <1>5, <1>6, <2>5, <2>6
    <3>3. q.eof /\ stmt.rowset_start + Len(call.rows) >= srv.n BY <2>5, <2>8
    <3> QED BY <1>1, <1>3, <1>6, <2>4, <2>5, <2>6, <2>8, <3>1, <3>2, <3>3, CallEnds
  <2>9. CASE offs < Len(q.cached) /\ res' = q /\ GotRow(CachedRow(q, offs), call)
    <3>1. /\ stmt.rowset_start - q.base >= 0
          /\ \A i \in 1..Len(q.cached) : q.cached[i] = stmt.rowset_start - q.base + i
          /\ Len(q.cached) > 0 => stmt.rowset_start - q.base + Len(q.cached) <= q.num_total_read
      BY <2>5 DEF Fits
    <3>2. CachedRow(q, offs) = stmt.rowset_start + Len(call.rows) + 1
      <4>1. offs \in Nat /\ offs >= 0 /\ offs < Len(q.cached) BY <1>4, <1>5, <1>6, <2>9
      <4>2. CachedRow(q, offs) = q.cached[offs + 1] BY <2>6, <4>1, Zenon DEF CachedRow
      <4>3. offs + 1 \in 1..Len(q.cached) BY <2>5, <4>1
      <4>4. q.cached[offs + 1] = stmt.rowset_start - q.base + (offs + 1) BY <3>1, <4>3
      <4>5. stmt.rowset_start - q.base + (offs + 1) = stmt.rowset_start + Len(call.rows) + 1
        BY <1>4, <1>6, <2>6
      <4> QED BY <4>2, <4>4, <4>5
    <3>3. PICK row : row = stmt.rowset_start + Len(call.rows) + 1 /\ GotRow(row, call) BY <2>9, <3>2
    <3>4. q.base + (Len(call.rows) + 1) <= Len(q.cached) BY <1>4, <1>6, <2>5, <2>6, <2>9
    <3>5. Delivered' /\ Failing' BY <1>1, <1>3, <1>5, <2>6, <2>9, <3>3, <3>4, RowDelivered
    <3>6. /\ stmt'.rowset_start = stmt.rowset_start /\ stmt'.save = stmt.save
          /\ stmt'.fetchcursor = stmt.fetchcursor /\ stmt'.fetch_max = stmt.fetch_max
          /\ call'.pc \in {"row", "return"} /\ Len(call'.rows) = Len(call.rows) + 1
          /\ call'.o = call.o /\ call'.k = call.k /\ call'.size = call.size /\ call'.prev = call.prev
      <4>1. row \in Int /\ Delivered BY <1>1, <1>6, <3>3 DEF WInv
      <4> QED BY <1>1, <3>3, <4>1, RowAdded
    <3>7. /\ Front' = stmt.rowset_start - q.base
          /\ End' = stmt.rowset_start - q.base + Len(q.cached) /\ ~Stale'
      BY <1>1, <1>3, <2>6, <2>9, <3>6 DEF Front, End, Stale
    <3>8. Bounds' /\ Standing' /\ Aimed' /\ Shown'
      <4>1. Continues BY <1>1, <2>5, <3>6 DEF Continues
      <4> QED BY <4>1, ContinuesWindow, <1>1
    <3>9. Kinds' /\ Ended' BY <1>1, <1>3, <2>6, <2>9, <3>6 DEF WInv, Kinds, Ended
    <3>10. Window' BY <2>6, <2>9, <3>1, <3>7 DEF Window
    <3>11. Reading'
      <4>1. q.fetch_number = q.base + (Len(call.rows) + 1) /\ q.base >= 0 BY <1>5, <1>6, <2>6
      <4> QED BY <1>5, <2>6, <2>9, <3>4, <3>6, <4>1 DEF Reading
    <3>12. Moves' BY <1>1, <1>3, <1>5, <2>6, <2>9, <3>6, <3>11 DEF Moves
    <3>13. Linked' BY <2>2, <2>5, <2>7, <2>9, <3>6, <3>7 DEF Linked, Joined, Loose, Fits
    <3> QED BY <3>5, <3>8, <3>9, <3>10, <3>12, <3>13 DEF WInv
  <2> QED BY <2>2, <2>8, <2>9, Zenon
<1>8. CASE size <= 0
  <2> HIDE DEF size
  <2> QED BY <1>5, <1>8
<1>9. CASE Refuse("error") /\ res' = Ready /\ stmt' = stmt
  <2>1. /\ srv'.n = srv.n /\ srv'.pos = srv.pos /\ ~srv'.alive
        /\ call'.pc = "error" /\ call'.refused
        /\ call'.o = call.o /\ call'.k = call.k /\ call'.size = call.size
        /\ call'.rows = call.rows /\ call'.prev = call.prev
    BY <1>1, <1>9, RefuseLeaves
  <2>2. res' = r BY <1>2, <1>9
  <2>3. /\ Front' = stmt.rowset_start - r.base
        /\ End' = stmt.rowset_start - r.base + Len(r.cached) /\ ~Stale'
    BY <1>1, <1>3, <1>9, <2>1, <2>2 DEF Front, End, Stale
  <2>4. Bounds' /\ Standing' /\ Aimed' /\ Shown'
    <3>1. Continues BY <1>1, <1>9, <2>1 DEF Continues
    <3> QED BY <1>1, <3>1, ContinuesWindow
  <2>5. Kinds' /\ Ended' BY <1>1, <1>3, <1>9, <2>1, <2>2 DEF WInv, Kinds, Ended
  <2>6. /\ stmt.rowset_start - r.base >= 0
        /\ \A i \in 1..Len(r.cached) : r.cached[i] = stmt.rowset_start - r.base + i
        /\ Len(r.cached) > 0 => r.dataFilled
                                /\ stmt.rowset_start - r.base + Len(r.cached) <= r.num_total_read
        /\ stmt.rowset_start - r.base + Len(r.cached) = srv.pos
           \/ (Loose /\ (~srv.alive \/ stmt.rowset_start - r.base + Len(r.cached) = srv.n))
    <3> HIDE DEF size
    <3> QED BY <1>4 DEF Prepared
  <2>7. Window' BY <2>2, <2>3, <2>6 DEF Window
  <2>8. Delivered' /\ Failing' BY <1>1, <1>9, <2>1 DEF WInv, Delivered, Failing
  <2>9. Moves' BY <2>1 DEF Moves
  <2>10. Linked' BY <1>3, <2>1, <2>2, <2>3, <2>6 DEF Linked, Joined, Loose
  <2> QED BY <2>4, <2>5, <2>7, <2>8, <2>9, <2>10 DEF WInv
<1> QED BY <1>7, <1>8, <1>9, Zenon DEF Refill

LEMMA ReturnWindow ==
  ASSUME IInv, WInv, Return
  PROVE  WInv'
<1>1. /\ StmtType /\ CallType /\ WInv /\ call.pc \in {"return", "nodata", "error"}
      /\ res' = res /\ srv' = srv
  BY DEF IInv, Types, Return
<1>2. call.size \in 1..MaxSize /\ MaxSize \in Nat \ {0} /\ MaxRows \in Nat /\ srv.n \in Nat
      /\ stmt.rowset_start \in Int /\ stmt.rowset_start >= -1 /\ stmt.save = -1
  BY <1>1, SizeAssumption DEF WInv, Bounds, Standing, StmtType
<1>3. call'.pc = "idle" /\ call'.size = 1 /\ call'.k = 0 /\ call'.prev = -1 /\ call'.rows = <<>>
  BY DEF Return, Idle
<1>4. ~call'.refused BY Zenon, <1>3 DEF Return, Idle
<1>5. /\ stmt'.rowset_start = stmt.rowset_start /\ stmt'.fetchcursor = stmt.fetchcursor
      /\ stmt'.forward = stmt.forward /\ stmt'.fetch_max = stmt.fetch_max
      /\ stmt'.save = IF call.pc = "return" THEN call.size ELSE -1
  <2>1. stmt' = CASE call.pc = "return" -> [stmt EXCEPT !.save = call.size,
                                                        !.currTuple = stmt.rowset_start]
                  [] call.pc = "nodata" -> [stmt EXCEPT !.currTuple = -1]
                  [] call.pc = "error"  -> stmt
    BY DEF Return
  <2>2. CASE call.pc = "return" BY <1>1, <2>1, <2>2 DEF StmtType, StmtFields
  <2>3. CASE call.pc = "nodata" BY <1>1, <1>2, <2>1, <2>3 DEF StmtType, StmtFields
  <2>4. CASE call.pc = "error" BY <1>1, <1>2, <2>1, <2>4 DEF StmtType, StmtFields
  <2> QED BY <1>1, <2>2, <2>3, <2>4
<1>6. /\ seen'.n = srv.n /\ seen'.at = stmt.rowset_start + 1
      /\ seen'.prev = IF call.pc = "return" THEN call.size ELSE 0
      /\ seen'.rows = IF call.pc = "return" THEN call.rows ELSE <<>>
  BY DEF Return
<1>7. Front' = Front /\ End' = End /\ ~Stale /\ ~Stale' BY <1>1, <1>3, <1>5 DEF Front, End, Stale
<1>8. Bounds' /\ Kinds' BY <1>1, <1>2, <1>3, <1>5, <1>6, <1>7 DEF WInv, Bounds, Kinds
<1>9. Window' /\ Aimed' /\ Moves' BY <1>1, <1>3, <1>7 DEF WInv, Window, Aimed, Moves
<1>10. Ended'
  <2> SUFFICES ASSUME (res.open /\ stmt.fetchcursor /\ ~res.cursor /\ srv.alive)'
               PROVE  /\ res'.eof /\ stmt'.forward /\ stmt'.rowset_start >= 0
                      /\ stmt'.rowset_start + RestOf(stmt'.save) >= srv'.n
    BY <1>3 DEF Ended
  <2>1. /\ res.eof /\ stmt.forward /\ stmt.rowset_start >= 0
        /\ call.pc \in {"return", "nodata"}
        /\ call.pc = "return" => stmt.rowset_start + call.size >= srv.n
        /\ call.pc = "nodata" => stmt.rowset_start >= srv.n
    BY <1>1, <1>5 DEF WInv, Ended
  <2>2. stmt'.rowset_start + RestOf(stmt'.save) >= srv'.n BY <1>1, <1>2, <1>5, <2>1 DEF RestOf
  <2> QED BY <1>1, <1>5, <2>1, <2>2
<1>11. Standing'
  <2>1. seen'.prev = RestOf(stmt'.save) BY <1>2, <1>5, <1>6 DEF RestOf
  <2> QED BY <1>2, <1>3, <1>5, <1>6, <2>1 DEF Standing
<1>12. Delivered'
  <2>1. <<>> \in Seq(Int) /\ Len(<<>>) = 0 OBVIOUS
  <2> QED BY <1>3, <2>1 DEF Delivered
<1>13. Failing' BY <1>3, <1>4 DEF Failing
<1>14. Linked'
  <2>1. Joined' = Joined /\ Loose' = Loose BY <1>1, <1>7 DEF Joined, Loose
  <2>2. ~OnTheWay BY <1>1 DEF OnTheWay
  <2> QED BY <1>1, <1>3, <1>7, <2>1, <2>2 DEF WInv, Linked
<1>15. Shown'
  <2>1. call.rows \in Seq(Int) /\ <<>> \in Seq(Int) /\ Len(<<>>) = 0 BY <1>1 DEF WInv, Delivered
  <2>2. seen'.rows \in Seq(Int) BY <1>6, <2>1
  <2>3. (call.pc = "return" /\ Len(call.rows) > 0) =>
          /\ res.valid /\ res.base >= 0 /\ res.base + Len(call.rows) <= Len(res.cached)
          /\ \A i \in 1..Len(call.rows) : call.rows[i] = stmt.rowset_start + i
    BY <1>1 DEF WInv, Delivered
  <2>4. Len(seen'.rows) > 0 => call.pc = "return" /\ seen'.rows = call.rows BY <1>6, <2>1
  <2> QED BY <1>1, <1>5, <2>2, <2>3, <2>4 DEF Shown
<1> QED BY <1>8, <1>9, <1>10, <1>11, <1>12, <1>13, <1>14, <1>15 DEF WInv

LEMMA InitWindow == Init => WInv
<1> SUFFICES ASSUME Init PROVE WInv OBVIOUS
<1>1. /\ stmt.rowset_start = -1 /\ stmt.save = -1 /\ stmt.fetch_max = 1 /\ srv.n = 0
      /\ res = NoResult /\ call = Idle /\ seen = Nothing
  BY DEF Init
<1>2. call.pc = "idle" /\ call.size = 1 /\ call.k = 0 /\ call.prev = -1 /\ call.rows = <<>>
  BY <1>1 DEF Idle
<1>3. ~call.refused BY <1>1 DEF Idle
<1>4. ~res.open /\ ~res.cursor /\ ~res.valid /\ res.cached = <<>> /\ Len(res.cached) = 0
  BY <1>1 DEF NoResult
<1>5. seen.n = 0 /\ seen.at = 0 /\ seen.rows = <<>> BY <1>1 DEF Nothing
<1>6. Front = 0 /\ End = 0 + 0 BY <1>4 DEF Front, End
<1>7. Bounds /\ Kinds BY <1>1, <1>2, <1>4, <1>5, <1>6, SizeAssumption DEF Bounds, Kinds
<1>8. Window /\ Ended /\ Aimed /\ Moves /\ Linked
  BY <1>2, <1>4, <1>6 DEF Window, Ended, Aimed, Moves, Linked
<1>9. Standing BY <1>1, <1>2, <1>5 DEF Standing
<1>10. Delivered
  <2>1. <<>> \in Seq(Int) /\ Len(<<>>) = 0 OBVIOUS
  <2> QED BY <1>2, <2>1 DEF Delivered
<1>11. Failing /\ Shown BY <1>2, <1>3, <1>5 DEF Failing, Shown
<1> QED BY <1>7, <1>8, <1>9, <1>10, <1>11 DEF WInv

LEMMA StutterWindow ==
  ASSUME WInv, UNCHANGED vars
  PROVE  WInv'
<1>1. stmt' = stmt /\ res' = res /\ srv' = srv /\ call' = call /\ seen' = seen BY DEF vars
<1>2. Front' = Front /\ End' = End /\ Stale' = Stale /\ Aims' = Aims
  BY <1>1, AimsStay DEF Front, End, Stale
<1>3. Bounds' /\ Kinds' /\ Window' /\ Ended' /\ Standing' /\ Aimed'
  BY <1>1, <1>2 DEF WInv, Bounds, Kinds, Window, Ended, Standing, Aimed, FarEnough
<1>4. Delivered' /\ Failing' /\ Shown' BY <1>1 DEF WInv, Delivered, Failing, Shown
<1>5. Moves' BY <1>1 DEF WInv, Moves, Reading, FetchSize
<1>6. Linked' BY <1>1, <1>2 DEF WInv, Linked, Joined, Loose, OnTheWay, Ahead
<1> QED BY <1>3, <1>4, <1>5, <1>6 DEF WInv

LEMMA NextWindow ==
  ASSUME NoHabits, IInv, WInv, [Next]_vars
  PROVE  WInv'
<1>1. CASE Execute BY <1>1, ExecuteWindow
<1>2. CASE Rollback BY <1>2, RollbackWindow
<1>3. CASE PGAPI_MoreResults BY <1>3, MoreResultsWindow
<1>4. ASSUME NEW size \in 1..MaxSize, SQLFetch(size)
      PROVE  WInv'
  <2>1. "next" \in Orientations /\ 0 \in Offsets("next") BY DEF Orientations, Offsets
  <2> QED BY <1>4, <2>1, BeginWindow DEF SQLFetch
<1>5. ASSUME NEW o \in Orientations, NEW size \in 1..MaxSize, NEW k \in Offsets(o),
             SQLFetchScroll(o, k, size)
      PROVE  WInv'
  BY <1>5, BeginWindow DEF SQLFetchScroll
<1>6. CASE QR_move_cursor_to_last BY <1>6, MoveToLastWindow
<1>7. CASE Position BY <1>7, PositionWindow
<1>8. CASE move_cursor_position_if_needed BY <1>8, PlanMoveWindow
<1>9. CASE RowFromMemory BY <1>9, RowFromMemoryWindow
<1>10. CASE RowFromWindow BY <1>10, RowFromWindowWindow
<1>11. CASE MoveCursor BY <1>11, MoveCursorWindow
<1>12. CASE WindowEmpty BY <1>12, WindowEmptyWindow
<1>13. CASE Refill BY <1>13, RefillWindow
<1>14. CASE Return BY <1>14, ReturnWindow
<1>15. CASE UNCHANGED vars BY <1>15, StutterWindow
<1> QED BY <1>1, <1>2, <1>3, <1>4, <1>5, <1>6, <1>7, <1>8, <1>9, <1>10, <1>11, <1>12, <1>13, <1>14,
     <1>15, Zenon DEF Next

LEMMA ShownCached ==
  ASSUME IInv, WInv
  PROVE  RowsetCached
<1> SUFFICES ASSUME call.pc = "idle", seen.ok, NEW i \in 1..Len(seen.rows)
             PROVE  GetDataRow(stmt.rowset_start + i - 1) = seen.rows[i]
  BY DEF RowsetCached
<1>1. Types /\ ~Stale BY DEF IInv, Stale
<1>2. /\ stmt.rowset_start \in Int /\ res.base \in Int /\ res.num_total_read \in Int
      /\ Len(res.cached) \in Nat /\ End = Front + Len(res.cached)
  BY <1>1, CallFacts
<1>3. Len(seen.rows) \in Nat /\ Len(seen.rows) > 0 /\ i \in Nat
  <2>1. seen.rows \in Seq(Int) BY DEF WInv, Shown
  <2> QED BY <2>1
<1>4. /\ res.valid /\ res.base >= 0 /\ res.base + Len(seen.rows) <= Len(res.cached)
      /\ seen.rows[i] = stmt.rowset_start + i
  BY <1>3 DEF WInv, Shown
<1>5. Front = stmt.rowset_start - res.base BY <1>4 DEF Front
<1>6. Len(res.cached) > 0 BY <1>2, <1>3, <1>4
<1>7. /\ Front >= 0 /\ res.dataFilled /\ End <= res.num_total_read
      /\ \A j \in 1..Len(res.cached) : res.cached[j] = Front + j
  BY <1>1, <1>6 DEF WInv, Window
<1> DEFINE g == stmt.rowset_start + i - 1
           c == res.base + i - 1
<1>8. c >= 0 /\ c < Len(res.cached) /\ c + 1 \in 1..Len(res.cached) /\ c + 1 = res.base + i
  <2>1. /\ res.base \in Int /\ res.base >= 0 /\ Len(res.cached) \in Nat
        /\ i \in Nat /\ i > 0 /\ i <= Len(seen.rows) /\ Len(seen.rows) \in Nat
        /\ res.base + Len(seen.rows) <= Len(res.cached)
    BY <1>2, <1>3, <1>4
  <2> QED BY <2>1
<1>9. g >= 0 /\ ~(g >= res.num_total_read) /\ g - Front = c /\ Front + (res.base + i) = stmt.rowset_start + i
  <2>1. res.base + i <= Len(res.cached) BY <1>2, <1>3, <1>4
  <2>2. /\ stmt.rowset_start \in Int /\ res.base \in Nat /\ i \in Nat \ {0}
        /\ res.num_total_read \in Int /\ Len(res.cached) \in Nat
        /\ stmt.rowset_start - res.base >= 0
        /\ stmt.rowset_start - res.base + Len(res.cached) <= res.num_total_read
    BY <1>2, <1>3, <1>4, <1>5, <1>7
  <2>3. g >= 0 /\ ~(g >= res.num_total_read) BY <2>1, <2>2
  <2>4. g - (stmt.rowset_start - res.base) = c BY <2>2
  <2>5. stmt.rowset_start - res.base + (res.base + i) = stmt.rowset_start + i BY <2>2
  <2> QED BY <1>5, <2>3, <2>4, <2>5
<1>10. GIdx2CacheIdx(g) = g - Front BY Zenon DEF GIdx2CacheIdx, Front
<1> HIDE DEF g, c
<1>11. GetDataRow(g) = CachedRow(res, c)
  <2>1. ~(g < 0)
    <3>1. g \in Int BY <1>2, <1>3 DEF g
    <3> QED BY <1>9, <3>1
  <2> QED BY <1>9, <1>10, <2>1, Zenon DEF GetDataRow, QR_get_num_total_tuples
<1>12. CachedRow(res, c) = res.cached[c + 1] BY <1>7, <1>8, Zenon DEF CachedRow
<1>13. res.cached[c + 1] = Front + (res.base + i) BY <1>7, <1>8
<1>14. GetDataRow(g) = seen.rows[i] BY <1>4, <1>9, <1>11, <1>12, <1>13
<1> QED BY <1>14 DEF g

\* What a call delivered.
LEMMA CallDelivers ==
  ASSUME IInv, WInv, call.pc = "return", ~call.refused, NEW given,
         given = IF stmt.rowset_start + 1 > srv.n THEN 0
                 ELSE scroll!Least(call.size, srv.n + 1 - (stmt.rowset_start + 1))
  PROVE  call.rows = [i \in 1..given |-> stmt.rowset_start + 1 + i - 1]
<1>1. /\ stmt.rowset_start \in Int /\ res.base \in Int /\ Len(res.cached) \in Nat
      /\ srv.n \in Nat /\ call.size \in Nat \ {0} /\ End = Front + Len(res.cached)
      /\ call.rows \in Seq(Int) /\ Len(call.rows) \in Nat /\ res.num_total_read \in Int
  BY CallFacts DEF IInv
<1>2. /\ Len(call.rows) = call.size \/ stmt.rowset_start + Len(call.rows) >= srv.n
      /\ Len(call.rows) <= call.size
      /\ \A i \in 1..Len(call.rows) : call.rows[i] = stmt.rowset_start + i
      /\ stmt.rowset_start >= 0
  BY DEF WInv, Delivered, Aimed
<1>3. Len(call.rows) > 0 => stmt.rowset_start + Len(call.rows) <= srv.n
  <2> SUFFICES ASSUME Len(call.rows) > 0 PROVE stmt.rowset_start + Len(call.rows) <= srv.n OBVIOUS
  <2>1. res.valid /\ res.base + Len(call.rows) <= Len(res.cached) /\ res.base >= 0 BY DEF WInv, Delivered
  <2>2. Front = stmt.rowset_start - res.base BY <2>1 DEF Front
  <2>3. Len(res.cached) > 0 /\ ~Stale BY <1>1, <2>1 DEF Stale
  <2>4. End <= res.num_total_read BY <2>3 DEF WInv, Window
  <2>5. res.num_total_read <= srv.n
    <3>1. res.open BY DEF WInv, Kinds
    <3> QED BY <1>1, <3>1 DEF IInv, Pictured
  <2>6. /\ stmt.rowset_start - res.base + Len(res.cached) <= res.num_total_read
        /\ stmt.rowset_start \in Int /\ res.base \in Int /\ Len(res.cached) \in Nat
        /\ Len(call.rows) \in Nat /\ srv.n \in Nat /\ res.num_total_read \in Int
    BY <1>1, <2>2, <2>4
  <2>7. res.base + Len(call.rows) <= Len(res.cached) BY <2>1
  <2> QED BY <2>5, <2>6, <2>7
<1>4. Len(call.rows) = given
  <2>1. CASE stmt.rowset_start + 1 > srv.n BY <1>1, <1>2, <1>3, <2>1
  <2>2. CASE ~(stmt.rowset_start + 1 > srv.n)
    <3>1. given = IF call.size < srv.n - stmt.rowset_start THEN call.size ELSE srv.n - stmt.rowset_start
      BY <1>1, <2>2 DEF scroll!Least
    <3>2. stmt.rowset_start + Len(call.rows) <= srv.n BY <1>1, <1>3, <2>2
    <3>3. /\ Len(call.rows) \in Nat /\ call.size \in Nat /\ srv.n \in Nat /\ stmt.rowset_start \in Int
          /\ Len(call.rows) <= call.size
          /\ Len(call.rows) = call.size \/ stmt.rowset_start + Len(call.rows) >= srv.n
      BY <1>1, <1>2
    <3> QED BY <3>1, <3>2, <3>3
  <2> QED BY <2>1, <2>2
<1>5. call.rows = [i \in 1..Len(call.rows) |-> call.rows[i]] BY <1>1
<1>6. \A i \in 1..given : call.rows[i] = stmt.rowset_start + 1 + i - 1
  <2> SUFFICES ASSUME NEW i \in 1..given PROVE call.rows[i] = stmt.rowset_start + 1 + i - 1 OBVIOUS
  <2>1. i \in 1..Len(call.rows) /\ i \in Int BY <1>1, <1>4
  <2> QED BY <1>1, <1>2, <2>1
<1> QED BY <1>4, <1>5, <1>6

--------------------
(* The calls are those of Scroll.                                          *)

LEMMA OpensScroll ==
  ASSUME WInv, Execute \/ PGAPI_MoreResults
  PROVE  scroll!Open
<1>1. call.pc = "idle" /\ call' = call BY DEF Execute, PGAPI_MoreResults
<1>2. asked = scroll!None /\ asked' = asked BY <1>1 DEF asked, scroll!None
<1>3. PICK k \in 0..MaxRows : seen' = [Nothing EXCEPT !.n = k]
  <2>1. 0 \in 0..MaxRows /\ Nothing = [Nothing EXCEPT !.n = 0] BY SizeAssumption DEF Nothing
  <2>2. CASE Execute BY <2>2, Zenon DEF Execute
  <2>3. CASE PGAPI_MoreResults BY <2>1, <2>3, Zenon DEF PGAPI_MoreResults
  <2> QED BY <2>2, <2>3
<1>4. seen'.n = k /\ seen'.at = 0 /\ seen'.prev = 0 /\ seen'.rows = <<>> BY <1>3 DEF Nothing
<1>5. seen'.ok = TRUE BY <1>3, Zenon DEF Nothing
<1>6. call'.refused = call.refused BY <1>1, Zenon
<1> QED BY <1>2, <1>4, <1>5, <1>6, Zenon DEF scroll!Open

LEMMA AsksScroll ==
  ASSUME NEW o \in Orientations, NEW size \in 1..MaxSize, NEW k \in Offsets(o), Begin(o, k, size)
  PROVE  scroll!Next
<1>1. call.pc = "idle" /\ seen' = seen BY DEF Begin
<1>2. asked = scroll!None BY <1>1 DEF asked, scroll!None
<1>3. call'.o = o /\ call'.k = k /\ call'.size = size /\ call'.pc # "idle" BY DEF Begin, Idle
<1>4. asked' = [o |-> o, k |-> k, size |-> size] BY <1>3 DEF asked
<1>5. k \in -(MaxRows + 1)..(MaxRows + 1) /\ o \in scroll!Orientations
  BY SizeAssumption DEF Offsets, Orientations, scroll!Orientations
<1>6. call'.refused = FALSE
  <2>1. PICK to, save, no :
          /\ no = FALSE
          /\ call' = [[pc |-> "idle", o |-> "next", k |-> 0, size |-> 1, rows |-> <<>>,
                       refused |-> no, prev |-> -1, offset |-> 0]
                        EXCEPT !.pc = to, !.o = o, !.k = k, !.size = size, !.prev = save]
    BY Zenon DEF Begin, Idle
  <2>2. call'.refused = no BY <2>1
  <2> QED BY <2>1, <2>2, Zenon
<1>7. scroll!Ask(o, k, size) BY <1>1, <1>2, <1>4, <1>6, Zenon DEF scroll!Ask
<1> QED BY <1>5, <1>7, Zenon DEF scroll!Next

LEMMA ReturnsScroll ==
  ASSUME IInv, WInv, Return
  PROVE  scroll!Fetch \/ scroll!Fail \/ scroll!Lose
<1>1. /\ call.pc \in {"return", "nodata", "error"} /\ call'.pc = "idle"
      /\ asked = [o |-> call.o, k |-> call.k, size |-> call.size] /\ asked' = scroll!None
  BY DEF Return, Idle, asked, scroll!None
<1>2. asked # scroll!None
  <2>1. call.o \in Orientations BY DEF IInv, Types, CallType
  <2>2. asked.o # "none" BY <1>1, <2>1 DEF Orientations
  <2> QED BY <2>2 DEF scroll!None
<1>3. /\ seen'.n = srv.n /\ seen'.at = stmt.rowset_start + 1
      /\ seen'.prev = IF call.pc = "return" THEN call.size ELSE 0
      /\ seen'.rows = IF call.pc = "return" THEN call.rows ELSE <<>>
  BY DEF Return
<1>4. seen'.ok = (call.pc # "error") /\ call'.refused = FALSE BY Zenon DEF Return, Idle
<1>5. seen.n = srv.n /\ srv.n \in Nat /\ stmt.rowset_start \in Int /\ stmt.rowset_start >= -1
  BY SizeAssumption DEF IInv, Types, StmtType, WInv, Bounds, Standing
<1>6. asked.o = call.o /\ asked.k = call.k /\ asked.size = call.size BY <1>1
<1>7. CASE call.refused
  <2>1. seen'.rows = <<>> BY <1>1, <1>3, <1>7 DEF WInv, Failing
  <2>2. seen'.ok = FALSE \/ seen'.ok = TRUE BY <1>4, Zenon
  <2>3. seen'.at \in Nat /\ seen'.prev \in {0, asked.size} /\ seen'.n = seen.n BY <1>3, <1>5, <1>6
  <2>4. scroll!Unserved BY <1>1, <1>2, <1>4, <1>7, <2>1, <2>3, Zenon DEF scroll!Unserved
  <2> QED BY <2>2, <2>4, Zenon DEF scroll!Fail, scroll!Lose
<1>8. CASE ~call.refused
  <2>1. seen'.ok = TRUE
    <3>1. call.pc # "error" BY <1>8 DEF WInv, Failing
    <3> QED BY <1>4, <3>1, Zenon
  <2>2. Aims = scroll!Targets(asked.o, asked.k, asked.size) BY <1>6 DEF Aims
  <2>3. PICK a \in Aims :
          LET given == IF a = 0 \/ a > seen.n THEN 0 ELSE scroll!Least(asked.size, seen.n + 1 - a)
          IN /\ seen'.at \in (IF a > seen.n THEN {a, seen.n + 1} ELSE {a})
             /\ seen'.rows = [i \in 1..given |-> a + i - 1]
             /\ seen'.prev \in (IF given = 0 THEN {0, asked.size} ELSE {asked.size})
    <3>1. CASE call.pc = "return"
      <4> DEFINE a == stmt.rowset_start + 1
      <4>1. a \in Aims /\ a # 0 /\ a \in Int BY <1>5, <3>1 DEF WInv, Aimed
      <4> DEFINE given == IF a = 0 \/ a > seen.n THEN 0 ELSE scroll!Least(asked.size, seen.n + 1 - a)
      <4>2. given = IF stmt.rowset_start + 1 > srv.n THEN 0
                    ELSE scroll!Least(call.size, srv.n + 1 - (stmt.rowset_start + 1))
        BY <1>5, <1>6, <4>1
      <4>3. seen'.rows = [i \in 1..given |-> a + i - 1]
        <5>1. PICK c : c = given OBVIOUS
        <5> HIDE DEF given
        <5>2. call.rows = [i \in 1..c |-> stmt.rowset_start + 1 + i - 1]
          BY <1>8, <3>1, <4>2, <5>1, CallDelivers
        <5> QED BY <1>3, <3>1, <5>1, <5>2
      <4>4. seen'.at = a /\ seen'.prev = asked.size BY <1>3, <1>6, <3>1
      <4> HIDE DEF a
      <4> QED BY <4>1, <4>3, <4>4, Zenon
    <3>2. CASE call.pc = "nodata"
      <4>1. seen'.rows = <<>> /\ seen'.prev = 0 /\ seen'.at = stmt.rowset_start + 1 BY <1>3, <3>2
      <4>2. CASE 0 \in Aims /\ stmt.rowset_start = -1 BY <1>5, <4>1, <4>2
      <4>3. ASSUME stmt.rowset_start = srv.n, NEW a \in Aims, a > srv.n
            PROVE  /\ seen'.at \in (IF a > seen.n THEN {a, seen.n + 1} ELSE {a})
                   /\ seen'.rows = [i \in 1..0 |-> a + i - 1]
        BY <1>5, <4>1, <4>3
      <4> QED BY <1>5, <3>2, <4>1, <4>2, <4>3 DEF WInv, Aimed
    <3>3. call.pc # "error" BY <1>8 DEF WInv, Failing
    <3> QED BY <1>1, <3>1, <3>2, <3>3, Zenon
  <2> QED BY <1>1, <1>2, <1>3, <1>4, <1>5, <1>8, <2>1, <2>2, <2>3, Zenon DEF scroll!Fetch
<1> QED BY <1>7, <1>8

LEMMA StepsScroll ==
  ASSUME IInv, WInv, [Next]_vars
  PROVE  scroll!Next \/ UNCHANGED scroll!vars
<1>1. CASE Execute \/ PGAPI_MoreResults BY <1>1, OpensScroll, Zenon DEF scroll!Next
<1>2. ASSUME NEW size \in 1..MaxSize, SQLFetch(size)
      PROVE  scroll!Next
  <2>1. "next" \in Orientations /\ 0 \in Offsets("next") BY DEF Orientations, Offsets
  <2> QED BY <1>2, <2>1, AsksScroll DEF SQLFetch
<1>3. ASSUME NEW o \in Orientations, NEW size \in 1..MaxSize, NEW k \in Offsets(o),
             SQLFetchScroll(o, k, size)
      PROVE  scroll!Next
  BY <1>3, AsksScroll DEF SQLFetchScroll
<1>4. CASE Return BY <1>4, ReturnsScroll, Zenon DEF scroll!Next
<1>5. ASSUME seen' = seen, asked' = asked, call'.refused = call.refused
      PROVE  UNCHANGED scroll!vars
  BY <1>5 DEF scroll!vars
<1>6. CASE Rollback \/ UNCHANGED vars BY <1>5, <1>6 DEF Rollback, vars, asked
<1>7. ASSUME seen' = seen, call.pc # "idle", call'.pc # "idle",
             call'.o = call.o, call'.k = call.k, call'.size = call.size, call'.refused = call.refused
      PROVE  UNCHANGED scroll!vars
  <2>1. asked' = asked BY <1>7 DEF asked
  <2> QED BY <1>5, <1>7, <2>1
<1>8. CallType /\ SrvType /\ StmtType BY DEF IInv, Types
<1>9. ASSUME seen' = seen, call.pc # "idle", NEW to, to # "idle", call' = [call EXCEPT !.pc = to]
      PROVE  UNCHANGED scroll!vars
  BY <1>7, <1>8, <1>9, Onward
<1>10. ASSUME seen' = seen, call.pc # "idle", NEW row, GotRow(row, call)
       PROVE  UNCHANGED scroll!vars
  <2>1. PICK to, rows : /\ to = IF Len(call.rows) + 1 = call.size THEN "return" ELSE "row"
                        /\ call' = [call EXCEPT !.rows = rows, !.pc = to]
    BY <1>10, Zenon DEF GotRow
  <2>2. /\ call'.pc = to /\ call'.o = call.o /\ call'.k = call.k /\ call'.size = call.size
        /\ call'.refused = call.refused
    BY <1>8, <2>1 DEF CallType, CallFields
  <2> QED BY <1>7, <1>10, <2>1, <2>2
<1>11. ASSUME seen' = seen, call.pc \in {"last", "row", "fill"}, NEW to, to # "idle", Refuse(to)
       PROVE  scroll!Next
  <2>1. asked' = asked /\ asked # scroll!None
    <3>1. call.pc # "idle" /\ call'.pc # "idle" BY <1>8, <1>11, RefuseLeaves
    <3>2. call.o \in Orientations BY DEF IInv, Types, CallType
    <3>3. call.o # "none" BY <3>2 DEF Orientations
    <3>4. asked' = asked /\ asked.o = call.o BY <1>8, <1>11, <3>1, RefuseLeaves DEF asked
    <3> QED BY <3>3, <3>4 DEF scroll!None
  <2>2. ~call.refused BY <1>11 DEF WInv, Failing
  <2>3. call'.refused = TRUE BY <1>8, <1>11, RefuseLeaves, Zenon
  <2> QED BY <1>11, <2>1, <2>2, <2>3, Zenon DEF scroll!Refuse, scroll!Next
<1>12. CASE QR_move_cursor_to_last BY <1>9, <1>11, <1>12, Zenon DEF QR_move_cursor_to_last
<1>13. CASE Position
  <2>1. PICK to \in {"nodata", "move", "row"} : call' = [call EXCEPT !.pc = to] BY <1>13, PositionFinds
  <2> QED BY <1>9, <1>13, <2>1 DEF Position
<1>14. CASE move_cursor_position_if_needed BY <1>9, <1>14 DEF move_cursor_position_if_needed
<1>15. CASE RowFromMemory BY <1>9, <1>10, <1>15, Zenon DEF RowFromMemory
<1>16. CASE RowFromWindow BY <1>9, <1>10, <1>16, Zenon DEF RowFromWindow
<1>17. CASE MoveCursor
  <2>1. PICK offset : \/ call' = [call EXCEPT !.pc = "fill", !.offset = offset]
                      \/ Refuse("return")
    BY <1>17, Zenon DEF MoveCursor
  <2>2. seen' = seen /\ call.pc = "row" BY <1>17 DEF MoveCursor
  <2>3. CASE call' = [call EXCEPT !.pc = "fill", !.offset = offset]
    BY <1>7, <1>8, <2>2, <2>3 DEF CallType, CallFields
  <2> QED BY <1>11, <2>1, <2>2, <2>3
<1>18. CASE WindowEmpty
  <2>1. call' = [call EXCEPT !.pc = "fill", !.offset = 0] /\ seen' = seen /\ call.pc = "row"
    BY <1>18 DEF WindowEmpty
  <2> QED BY <1>7, <1>8, <2>1 DEF CallType, CallFields
<1>19. CASE Refill
  <2>1. PICK row : \/ GotRow(row, call)
                   \/ call' = [call EXCEPT !.pc = "return"]
                   \/ Refuse("error")
    BY <1>19, Zenon DEF Refill
  <2>2. seen' = seen /\ call.pc = "fill" BY <1>19 DEF Refill
  <2> QED BY <1>9, <1>10, <1>11, <2>1, <2>2
<1> QED
  BY <1>1, <1>2, <1>3, <1>4, <1>6, <1>12, <1>13, <1>14, <1>15, <1>16, <1>17, <1>18, <1>19, Zenon DEF Next

LEMMA InitScroll == Init => scroll!Init
<1> SUFFICES ASSUME Init PROVE scroll!Init OBVIOUS
<1>1. seen = Nothing /\ call = Idle BY DEF Init
<1>2. seen.n = 0 /\ seen.at = 0 /\ seen.prev = 0 /\ seen.rows = <<>> /\ seen.ok = TRUE BY <1>1 DEF Nothing
<1>3. asked = scroll!None BY <1>1 DEF Idle, asked, scroll!None
<1>4. call.refused = FALSE BY <1>1, Zenon DEF Idle
<1> QED BY <1>2, <1>3, <1>4, Zenon DEF scroll!Init

\* While an application without the three habits holds a rowset, SQLGetData and SQLSetPos
\* find each of its rows where GIdx2CacheIdx looks for it, whatever SC_fetch and
\* QR_next_tuple had to move and fetch to bring it, and also after a rollback that took
\* the cursor away.
THEOREM RowsetStaysCached == NoHabits => (Spec => []RowsetCached)
<1> SUFFICES ASSUME NoHabits PROVE Spec => []RowsetCached OBVIOUS
<1>1. Init => IInv /\ WInv BY InitInv, InitWindow
<1>2. IInv /\ WInv /\ [Next]_vars => (IInv /\ WInv)' BY NextInv, NextWindow
<1>3. IInv /\ WInv => RowsetCached BY ShownCached
<1> QED BY <1>1, <1>2, <1>3, PTL DEF Spec

\* PGAPI_ExtendedFetch with its window over a server cursor does what Scroll promises:
\* each call lands where the rule of its orientation says and delivers the rows that
\* are there; only a call whose own command the server refused fails, or tells the end of
\* the data too early; and nothing else in the driver changes what the application sees.
THEOREM ScrollImplemented == NoHabits => (Spec => Transparent)
<1> SUFFICES ASSUME NoHabits PROVE Spec => Transparent OBVIOUS
<1>1. Init => IInv /\ WInv BY InitInv, InitWindow
<1>2. IInv /\ WInv /\ [Next]_vars => (IInv /\ WInv)' BY NextInv, NextWindow
<1>3. Init => scroll!Init BY InitScroll
<1>4. IInv /\ WInv /\ [Next]_vars => [scroll!Next]_(scroll!vars) BY StepsScroll
<1> QED BY <1>1, <1>2, <1>3, <1>4, PTL DEF Spec, Transparent, scroll!Spec
--------------------
(* SQLGetData and the fetch into bound columns.                            *)

(* The calls the driver answers wrongly, as far as the pieces go: the array *)
(* of bindings shrunk under a value begun, a fetch without retrieval in the *)
(* middle of a value, another type, an empty buffer.                       *)
PiecesPrudent == RiskyGets \cap {"shrink", "rd_off", "retype", "probe"} = {}

(* ... and as far as the place goes: SQLGetData after a fetch in error.     *)
PlacePrudent == "row_error" \notin RiskyGets

--------------------
(* The inductive invariant.                                                *)

Tags == [row : Int, col : Int, type : CTypes \cup {"none"}]
Entries == [left : Int, buf : Tags, buflen : Int, used : Int]
Shares == [n : Int, type : CTypes \cup {"none"}]
Pieces == [tag : Tags, from : Int, n : Int, need : Int]

DataTypes ==
  /\ ard \in Descs /\ allocated \in [Descs -> Int] /\ gcount \in Int
  /\ gdata \in [Cols -> Entries] /\ at \in [Cols -> Shares]
  /\ lf \in Int
  /\ args.col \in Cols /\ args.type \in CTypes /\ args.size \in Nat
  /\ piece \in Pieces

Counters == start \in Int /\ count \in Int /\ curr \in Int /\ bindRow \in Int

(* A binding never set has any type.                                       *)
SlotFields == {"on", "type", "size", "ind"}
Slot(b) == b = [f \in SlotFields |-> b[f]] /\ b.type \in CTypes \cup {"junk"}
Slots ==
  /\ bindings = [d \in Descs |-> [c \in Cols |-> bindings[d][c]]]
  /\ \A d \in Descs, c \in Cols : Slot(bindings[d][c])

(* What the work area g says of column c of row r, and what the application *)
(* has of its value: nothing of it yet, all of it, or the first part of a   *)
(* text whose rest the work area keeps.                                    *)
Whole(r, a, c) ==
  /\ Length[r][c] # Null
  /\ a.type = "fixed" \/ (a.type \in TextTypes /\ a.n = Bytes(r, c, a.type))
Begun(r, g, a, c) ==
  /\ Length[r][c] # Null /\ a.type \in TextTypes
  /\ g.left > 0 /\ g.left <= g.used /\ g.used = Bytes(r, c, a.type)
  /\ g.buf = [row |-> r, col |-> c, type |-> a.type]
  /\ g.buflen >= g.used + Terminator(a.type)
  /\ a.n = g.used - g.left
Follows(r, g, a, c) ==
  \/ g.left = -1 /\ a = NothingYet
  \/ g.left \in {0, -2} /\ Whole(r, a, c)
  \/ Begun(r, g, a, c)

(* The two arrays: no state of a column that the work area does not have,   *)
(* no value begun beyond the descriptor, no access past either end.        *)
Converting == pc \in {"value", "setup", "resume", "copy"}
Within ==
  /\ \A c \in Cols : c > gcount => gdata[c].left = -1
  /\ \A c \in Cols : at[c].type # "none" => c <= allocated[ard]
  /\ Converting => args.col <= allocated[ard] /\ args.col <= gcount
  /\ pc = "return" /\ cc # "unrecognized" => args.col <= allocated[ard]
  /\ pc = "column" => NumCols <= gcount /\ NumCols <= allocated[ard]

(* The fetch of a rowset starts every column again.                        *)
Swept == \A c \in Cols : gdata[c].left = -1
Fetching ==
  /\ pc \in {"row", "column", "rowdone", "fetched"} =>
       \A c \in Cols : at[c] = NothingYet
  /\ pc = "row" => Swept \/ (retrieve /\ curr < NumRows)
  /\ pc = "column" => \A c \in Cols : c < lf => gdata[c].left = -1
  /\ pc \in {"rowdone", "fetched"} => Swept

(* Between the calls, and during one for the columns it is not about.      *)
OnRow == curr \in 1..NumRows
Asking == pc \in {"gate", "value", "setup", "resume", "copy", "return"}
Follow ==
  /\ pc = "app" /\ OnRow => \A c \in Cols : Follows(curr, gdata[c], at[c], c)
  /\ Asking => OnRow /\ \A c \in Cols \ {args.col} :
                          Follows(curr, gdata[c], at[c], c)

(* The column of the call: before its value is looked at, *)
Silent == piece = NoPiece /\ cc = "ok"
Asked(g, a) ==
  /\ Silent /\ Follows(curr, g, a, args.col)
  /\ a.type \in {"none", args.type} /\ (args.size > 0 \/ g.left <= 0)
(* once it is known to be a text, *)
IsText == Length[curr][args.col] # Null /\ args.type \in TextTypes
(* while a piece is cut, *)
Cutting(g, a) ==
  /\ IsText /\ args.size > 0 /\ a.type \in {"none", args.type}
  /\ piece.tag = [row |-> curr, col |-> args.col, type |-> args.type]
  /\ piece.from = a.n /\ piece.n = g.left /\ piece.n >= 0 /\ a.n >= 0
  /\ a.n + piece.n = Bytes(curr, args.col, args.type)
  /\ piece.need >= piece.n + Terminator(args.type)
  /\ piece.need > args.size =>
       /\ g.used = Bytes(curr, args.col, args.type) /\ g.buf = piece.tag
       /\ g.buflen >= g.used + Terminator(args.type)
(* and what the application has of it once the call returns.               *)
Given == cc \in {"ok", "truncated"} /\ Length[curr][args.col] # Null
Later(a) ==
  IF Given /\ (args.size > 0 \/ cc = "ok")
  THEN [n |-> a.n + piece.n, type |-> args.type] ELSE a

Progress ==
  LET g == gdata[args.col]
      a == at[args.col]
  IN /\ ~Asking => Silent
     /\ pc = "gate" => Asked(g, a)
     /\ pc = "value" => Asked(g, a) /\ (g.left = -1 \/ g.left > 0)
     /\ pc = "setup" => IsText /\ g.left = -1 /\ a = NothingYet /\ Silent
     /\ pc = "resume" => /\ IsText /\ Begun(curr, g, a, args.col) /\ Silent
                         /\ a.type = args.type /\ args.size > 0
     /\ pc = "copy" => Cutting(g, a)
     /\ pc = "return" => PiecesExact /\ Follows(curr, g, Later(a), args.col)

Core == DataTypes /\ Within /\ Fetching /\ Follow /\ Progress
PieceInv == Counters /\ Slots /\ Core

--------------------
(* Values and their lengths.                                               *)

LEMMA ValueLength ==
  ASSUME NEW r \in 1..NumRows, NEW c \in Cols, NEW t, Length[r][c] # Null
  PROVE  Bytes(r, c, t) \in Nat /\ Terminator(t) \in 0..2
<1>1. Length[r][c] \in Nat BY SizesAssumption DEF Null
<1>2. Bytes(r, c, t) \in Nat BY <1>1 DEF Bytes, WCLEN
<1>3. Terminator(t) \in 0..2 BY DEF Terminator, WCLEN
<1> QED BY <1>2, <1>3

LEMMA AdjustedLength ==
  ASSUME NEW n \in Nat, NEW t
  PROVE  Adjust(t, n) \in 0..n
BY DEF Adjust, WCLEN

(* What is copied is at most what is left, and all of it when it fits.      *)
LEMMA CopiedLength ==
  ASSUME args.size \in Nat, piece.n \in Nat, Terminator(args.type) \in 0..2
  PROVE  /\ CopyLength \in 0..piece.n
         /\ piece.n + Terminator(args.type) <= args.size => CopyLength = piece.n
<1> DEFINE z == args.size
           t == Terminator(args.type)
<1>1. CASE t >= z BY <1>1 DEF CopyLength
<1>2. CASE t < z /\ piece.n + t > z
  <2>1. z - t \in Nat /\ z - t < piece.n BY <1>2
  <2>2. Adjust(args.type, z - t) \in 0..(z - t) BY <2>1, AdjustedLength
  <2>3. CopyLength = Adjust(args.type, z - t) BY <1>2 DEF CopyLength
  <2> QED BY <1>2, <2>1, <2>2, <2>3
<1>3. CASE t < z /\ ~(piece.n + t > z) BY <1>3 DEF CopyLength
<1> QED BY <1>1, <1>2, <1>3

(* What a state of the work area says of what the application has.         *)
LEMMA NothingFollows ==
  ASSUME NEW r, NEW g, NEW c, g.left = -1
  PROVE  Follows(r, g, NothingYet, c)
BY DEF Follows

LEMMA NoneMeansNothing ==
  ASSUME NEW r, NEW g, NEW a, NEW c, Follows(r, g, a, c), a.type = "none"
  PROVE  g.left = -1 /\ a = NothingYet
BY DEF Follows, Whole, Begun, TextTypes

LEMMA FreshMeansNothing ==
  ASSUME NEW r, NEW g, NEW a, NEW c, Follows(r, g, a, c), g.left = -1
  PROVE  a = NothingYet
BY DEF Follows, Begun

LEMMA LeftMeansWhole ==
  ASSUME NEW r, NEW g, NEW a, NEW c, Follows(r, g, a, c), g.left \in {0, -2}
  PROVE  Whole(r, a, c)
BY DEF Follows, Begun

LEMMA LeftAtFollows ==
  ASSUME NEW r, NEW g, NEW a, NEW c, Follows(r, g, a, c)
  PROVE  g.left \in {-2, -1, 0} \/ (g.left > 0 /\ Begun(r, g, a, c))
BY DEF Follows, Begun

--------------------
(* The bindings keep their shape.                                          *)

LEMMA SlotsUnchanged ==
  ASSUME Slots, bindings' = bindings
  PROVE  Slots'
BY DEF Slots

LEMMA SlotsByEntry ==
  ASSUME NEW d \in Descs, NEW f,
         Slots, bindings' = [bindings EXCEPT ![d] = f],
         f = [c \in Cols |-> f[c]], \A c \in Cols : Slot(f[c])
  PROVE  Slots'
<1>1. bindings' = [x \in Descs |-> IF x = d THEN f ELSE bindings[x]] BY DEF Slots
<1>2. bindings' = [x \in Descs |-> [c \in Cols |-> bindings'[x][c]]]
  <2>1. \A x \in Descs : bindings'[x] = [c \in Cols |-> bindings'[x][c]] BY <1>1 DEF Slots
  <2> QED BY <1>1, <2>1
<1>3. \A x \in Descs, c \in Cols : Slot(bindings'[x][c]) BY <1>1 DEF Slots
<1> QED BY <1>2, <1>3 DEF Slots, Slot

LEMMA EmptySlots == Slot(Empty) /\ Slot(Unbound)
BY DEF Slot, SlotFields, Empty, Unbound, CTypes, TextTypes

LEMMA SlotsOfBindings ==
  ASSUME NEW b \in Bindings
  PROVE  Slot(b)
<1>1. b.type \in BindTypes /\ b = [f \in {"on", "type", "size", "ind"} |-> b[f]] BY Zenon DEF Bindings
<1> QED BY <1>1, SizesAssumption DEF Slot, SlotFields

LEMMA SlotsOfBindCol ==
  ASSUME DataTypes, Slots, NEW c \in Cols, NEW b, Slot(b), BindCol(c, b)
  PROVE  Slots'
<1> DEFINE f == [bindings[ard] EXCEPT ![c] = b]
<1>1. bindings' = [bindings EXCEPT ![ard] = f] /\ ard \in Descs BY DEF BindCol, DataTypes
<1>2. f = [x \in Cols |-> f[x]] /\ \A x \in Cols : Slot(f[x]) BY <1>1 DEF Slots
<1> QED BY <1>1, <1>2, SlotsByEntry

LEMMA SlotsOfUnbind ==
  ASSUME DataTypes, Slots, Unbind
  PROVE  Slots'
<1> DEFINE f == [c \in Cols |-> IF c <= allocated[ard] THEN Unbound
                                ELSE bindings[ard][c]]
<1>1. bindings' = [bindings EXCEPT ![ard] = f] /\ ard \in Descs BY DEF Unbind, DataTypes, Slots
<1>2. f = [x \in Cols |-> f[x]] /\ \A x \in Cols : Slot(f[x]) BY <1>1, EmptySlots DEF Slots
<1> QED BY <1>1, <1>2, SlotsByEntry

LEMMA SlotsOfSetCount ==
  ASSUME DataTypes, Slots, NEW d \in Descs, NEW n, SetCount(d, n)
  PROVE  Slots'
<1> DEFINE m == CountSet(n, FALSE, allocated[d])
           f == [c \in Cols |-> IF c > m THEN Empty ELSE bindings[d][c]]
<1>1. bindings' = [bindings EXCEPT ![d] = f] BY DEF SetCount, SetCountTo, Slots
<1>2. f = [x \in Cols |-> f[x]] /\ \A x \in Cols : Slot(f[x]) BY EmptySlots DEF Slots
<1> QED BY <1>1, <1>2, SlotsByEntry

(* A field of a record: the type given is one the application binds.        *)
Fields(field, v) ==
  \/ field = "type" /\ v \in CTypes
  \/ field \in {"size", "data", "ind"}

LEMMA SlotsOfSetRecord ==
  ASSUME DataTypes, Slots, NEW d \in Descs, NEW c \in Cols, NEW field, NEW v,
         Fields(field, v), SetRecord(d, c, field, v)
  PROVE  Slots'
<1> DEFINE old == bindings[d][c]
           new == CASE field = "type" -> [old EXCEPT !.type = v, !.on = FALSE]
                    [] field = "size" -> [old EXCEPT !.size = v, !.on = FALSE]
                    [] field = "data" -> [old EXCEPT !.on = TRUE]
                    [] field = "ind"  -> [old EXCEPT !.ind = TRUE]
           f == [bindings[d] EXCEPT ![c] = new]
<1>1. bindings' = [bindings EXCEPT ![d][c] = new] BY DEF SetRecord
<1>3. Slot(old) BY DEF Slots
<1>4. Slot(new)
  <2>1. CASE field = "type"
    <3>1. new = [old EXCEPT !.type = v, !.on = FALSE] /\ v \in CTypes BY <2>1 DEF Fields
    <3> QED BY <1>3, <3>1 DEF Slot, SlotFields
  <2>2. CASE field = "size"
    <3>1. new = [old EXCEPT !.size = v, !.on = FALSE] BY <2>2
    <3> QED BY <1>3, <3>1 DEF Slot, SlotFields
  <2>3. CASE field = "data"
    <3>1. new = [old EXCEPT !.on = TRUE] BY <2>3
    <3> QED BY <1>3, <3>1 DEF Slot, SlotFields
  <2>4. CASE field = "ind"
    <3>1. new = [old EXCEPT !.ind = TRUE] BY <2>4
    <3> QED BY <1>3, <3>1 DEF Slot, SlotFields
  <2> QED BY <2>1, <2>2, <2>3, <2>4 DEF Fields
<1> HIDE DEF new
<1>5. bindings' = [bindings EXCEPT ![d] = f] BY <1>1
<1>6. f = [x \in Cols |-> f[x]] /\ \A x \in Cols : Slot(f[x]) BY <1>4 DEF Slots
<1> QED BY <1>5, <1>6, SlotsByEntry

LEMMA SlotsOfFreeDesc ==
  ASSUME Slots, FreeDesc
  PROVE  Slots'
<1> DEFINE f == [c \in Cols |-> Empty]
<1>1. bindings' = [bindings EXCEPT !["explicit"] = f] /\ "explicit" \in Descs BY DEF FreeDesc, Descs
<1>2. f = [x \in Cols |-> f[x]] /\ \A x \in Cols : Slot(f[x]) BY EmptySlots
<1> QED BY <1>1, <1>2, SlotsByEntry

LEMMA SlotsOfCopyDesc ==
  ASSUME Slots, NEW s \in Descs, NEW d \in Descs, CopyDesc(s, d)
  PROVE  Slots'
<1> DEFINE n == IF s = d THEN 0 ELSE allocated[s]
           f == ARDFields_copy(s, n)
<1>1. bindings' = [bindings EXCEPT ![d] = f] BY DEF CopyDesc
<1>2. f = [x \in Cols |-> f[x]] /\ \A x \in Cols : Slot(f[x]) BY EmptySlots DEF Slots, ARDFields_copy
<1> QED BY <1>1, <1>2, SlotsByEntry

--------------------
(* The invariant by the place of the call: between two calls, while rows    *)
(* are fetched, while a column is asked for.                               *)

LEMMA BetweenCalls ==
  ASSUME DataTypes', Within', (pc = "app")', Silent',
         OnRow' => \A c \in Cols : Follows(curr, gdata[c], at[c], c)'
  PROVE  Core'
BY DEF Core, Fetching, Follow, Progress, Asking

LEMMA WhileFetching ==
  ASSUME DataTypes', Within', Silent', Fetching',
         (pc \in {"row", "column", "rowdone", "fetched"})'
  PROVE  Core'
BY DEF Core, Fetching, Follow, Progress, Asking

LEMMA WhileAsking ==
  ASSUME DataTypes', Within', Asking', OnRow', Progress',
         \A c \in Cols \ {args'.col} : Follows(curr, gdata[c], at[c], c)'
  PROVE  Core'
BY DEF Core, Fetching, Follow, Progress, Asking

LEMMA FreshEntry == FreshData \in Entries /\ FreshData.left = -1
BY DEF FreshData, Entries, NoBuffer, Tags

(* The work area when it follows the length of the descriptor.             *)
LEMMA EntriesKept ==
  ASSUME DataTypes, NEW n \in Int, NEW shrink
  PROVE  /\ GrownTo(n, shrink) \in Int /\ n <= GrownTo(n, shrink)
         /\ EntriesFor(n, shrink) \in [Cols -> Entries]
         /\ \A c \in Cols :
              EntriesFor(n, shrink)[c] = IF c > GrownTo(n, shrink) THEN FreshData
                                         ELSE gdata[c]
<1>1. GrownTo(n, shrink) \in Int /\ n <= GrownTo(n, shrink) BY DEF GrownTo, DataTypes
<1>2. FreshData \in Entries BY FreshEntry
<1>3. \A c \in Cols : gdata[c] \in Entries BY DEF DataTypes
<1> QED BY <1>1, <1>2, <1>3 DEF EntriesFor

LEMMA ExtendedLength ==
  ASSUME DataTypes, NEW n \in Int, NEW d \in Descs
  PROVE  Extended(d, n) \in Int /\ Extended(d, n) >= n
         /\ Extended(d, n) >= allocated[d]
BY DEF Extended, Larger, DataTypes

LEMMA ResetEntry ==
  ASSUME NEW g \in Entries
  PROVE  Reset(g) \in Entries /\ Reset(g).left = -1
BY DEF Reset, Entries

LEMMA EndedEntry ==
  ASSUME NEW g \in Entries
  PROVE  AtEnd(g) \in Entries /\ AtEnd(g).left = -2
<1>1. NoBuffer \in Tags BY DEF NoBuffer, Tags
<1> DEFINE g1 == [g EXCEPT !.left = -2]
           g2 == [g1 EXCEPT !.buf = NoBuffer]
           g3 == [g2 EXCEPT !.buflen = 0]
           g4 == [g3 EXCEPT !.used = 0]
<1>2. g1 \in Entries /\ g1.left = -2 BY DEF Entries
<1>3. AtEnd(g) = g4 BY DEF AtEnd
<1> HIDE DEF g1
<1>4. g2 \in Entries /\ g2.left = -2 BY <1>1, <1>2 DEF Entries
<1> HIDE DEF g2
<1>5. g3 \in Entries /\ g3.left = -2 BY <1>4 DEF Entries
<1> HIDE DEF g3
<1>6. g4 \in Entries /\ g4.left = -2 BY <1>5 DEF Entries
<1> QED BY <1>3, <1>6

LEMMA NothingIsShare == NothingYet \in Shares /\ NothingYet.type = "none"
BY DEF NothingYet, Shares

--------------------
(* Calls that change the bindings.                                         *)

(* The calls that do not touch the work area.                              *)
Described ==
  /\ pc = "app" /\ UNCHANGED <<pc, gvars, at, callvars, lf>>
  /\ UNCHANGED curr
  /\ ard' \in Descs /\ allocated' \in [Descs -> Int]
  /\ \A c \in Cols : at[c].type # "none" => c <= allocated'[ard']

LEMMA DescribedKeeps ==
  ASSUME Core, Described
  PROVE  Core'
<1> USE DEF Core, Described, gvars, callvars
<1>1. DataTypes' BY DEF DataTypes
<1>2. Within' BY DEF Within, Converting
<1>3. OnRow' => \A c \in Cols : Follows(curr, gdata[c], at[c], c)' BY DEF Follow, OnRow
<1>4. Silent' BY DEF Progress, Silent, Asking
<1> QED BY <1>1, <1>2, <1>3, <1>4, BetweenCalls

LEMMA Redescribed ==
  ASSUME Core, PiecesPrudent, NEW d \in Descs, NEW s \in Descs, NEW c \in Cols,
         NEW n \in Int, NEW field, NEW v,
         \/ SetCount(d, n) \/ SetRecord(d, c, field, v) \/ Attach(d)
         \/ CopyDesc(s, d) \/ FreeDesc \/ SetRowset(n) \/ SetRetrieve
  PROVE  Described
<1> USE DEF Described
<1>a. /\ ard \in Descs /\ allocated \in [Descs -> Int]
      /\ \A x \in Cols : at[x].type # "none" => x <= allocated[ard]
  BY DEF Core, DataTypes, Within
<1>b. \A m : KeepsBegun(m) => \A x \in Cols : at[x].type # "none" => x <= m
  BY DEF KeepsBegun, PiecesPrudent
<1>1. CASE SetCount(d, n)
  <2>1. allocated' = [allocated EXCEPT ![d] = n] /\ (d = ard => KeepsBegun(n))
    BY <1>1, <1>a DEF SetCount, SetCountTo, CountSet
  <2>2. /\ pc = "app" /\ UNCHANGED <<pc, gvars, at, callvars, lf>>
        /\ UNCHANGED <<curr, ard>>
    BY <1>1 DEF SetCount, Setup, rowvars, fetchvars
  <2> QED BY <2>1, <2>2, <1>a, <1>b
<1>2. CASE SetRecord(d, c, field, v)
  <2>1. allocated' \in [Descs -> Int] /\ allocated'[ard] >= allocated[ard]
    <3>1. \/ allocated' = [allocated EXCEPT ![d] = Extended(d, c)]
          \/ allocated' = allocated
      BY <1>2 DEF SetRecord
    <3>2. Extended(d, c) \in Int /\ Extended(d, c) >= allocated[d] BY ExtendedLength DEF Core, Cols
    <3> QED BY <3>1, <3>2, <1>a
  <2>2. /\ pc = "app" /\ UNCHANGED <<pc, gvars, at, callvars, lf>>
        /\ UNCHANGED <<curr, ard>>
    BY <1>2 DEF SetRecord, Setup, rowvars, fetchvars
  <2>3. \A x \in Cols : at[x].type # "none" => x <= allocated'[ard'] BY <2>1, <2>2, <1>a DEF Cols
  <2> QED BY <2>1, <2>2, <2>3, <1>a
<1>3. CASE Attach(d) BY <1>3, <1>a, <1>b DEF Attach, Setup, rowvars, fetchvars
<1>4. CASE CopyDesc(s, d)
  <2> DEFINE m == IF s = d THEN 0 ELSE allocated[s]
  <2>1. /\ allocated' = [allocated EXCEPT ![d] = m]
        /\ d = ard => KeepsBegun(m)
    BY <1>4 DEF CopyDesc
  <2>2. /\ pc = "app" /\ UNCHANGED <<pc, gvars, at, callvars, lf>>
        /\ UNCHANGED <<curr, ard>>
    BY <1>4 DEF CopyDesc, Setup, rowvars, fetchvars
  <2>3. m \in Int BY <1>a
  <2> HIDE DEF m
  <2>4. allocated' \in [Descs -> Int] BY <2>1, <2>3, <1>a
  <2>5. \A x \in Cols : at[x].type # "none" => x <= allocated'[ard'] BY <2>1, <2>2, <1>a, <1>b
  <2> QED BY <2>2, <2>4, <2>5, <1>a
<1>5. CASE FreeDesc
  <2>0. allocated' = [allocated EXCEPT !["explicit"] = 0] BY <1>5 DEF FreeDesc
  <2>1. /\ ard' = "embedded" /\ "embedded" \in Descs
        /\ ard = "explicit" => KeepsBegun(allocated["embedded"])
        /\ ard \in {"embedded", "explicit"}
    BY <1>5, <1>a DEF FreeDesc, Descs
  <2>2. /\ pc = "app" /\ UNCHANGED <<pc, gvars, at, callvars, lf>>
        /\ UNCHANGED curr
    BY <1>5 DEF FreeDesc, Setup, rowvars, fetchvars
  <2>3. \A x \in Cols : at[x].type # "none" => x <= allocated["embedded"] BY <2>1, <1>a, <1>b
  <2>4. allocated' \in [Descs -> Int]
    <3>1. allocated \in [Descs -> Int] /\ 0 \in Int BY <1>a
    <3> QED BY <2>0, <3>1
  <2>5. allocated'["embedded"] = allocated["embedded"] BY <2>0, <2>1, <1>a
  <2> QED BY <2>1, <2>2, <2>3, <2>4, <2>5
<1>6. CASE SetRowset(n) BY <1>6, <1>a DEF SetRowset, Setup, rowvars, fetchvars
<1>7. CASE SetRetrieve BY <1>7, <1>a DEF SetRetrieve, Setup, fetchvars
<1> QED BY <1>1, <1>2, <1>3, <1>4, <1>5, <1>6, <1>7

LEMMA BindColKeeps ==
  ASSUME Core, NEW c \in Cols, NEW b, BindCol(c, b)
  PROVE  Core'
<1> DEFINE E == EntriesFor(c, FALSE)
           g == IF b.on THEN Reset(E[c]) ELSE FreshData
<1> USE DEF Core
<1>1. /\ pc = "app" /\ pc' = "app" /\ gcount' = GrownTo(c, FALSE)
      /\ gdata' = [E EXCEPT ![c] = g] /\ at' = [at EXCEPT ![c] = NothingYet]
      /\ allocated' = [allocated EXCEPT ![ard] = Extended(ard, c)]
      /\ UNCHANGED <<ard, callvars, lf, curr>>
  BY DEF BindCol, Setup, rowvars, fetchvars
<1>2. /\ E \in [Cols -> Entries] /\ GrownTo(c, FALSE) \in Int
      /\ \A x \in Cols : E[x] = IF x > GrownTo(c, FALSE) THEN FreshData ELSE gdata[x]
  <2>1. Core /\ c \in Int BY DEF Cols
  <2> QED BY <2>1, EntriesKept, Zenon
<1> HIDE DEF E
<1>3. g \in Entries /\ g.left = -1
  <2>1. Reset(E[c]) \in Entries /\ Reset(E[c]).left = -1 BY <1>2, ResetEntry
  <2> QED BY <2>1, FreshEntry
<1>4. /\ Extended(ard, c) \in Int /\ Extended(ard, c) >= c
      /\ Extended(ard, c) >= allocated[ard] /\ ard \in Descs
  BY ExtendedLength DEF DataTypes, Cols
<1> HIDE DEF E, g
<1>5. DataTypes' BY <1>1, <1>2, <1>3, <1>4, NothingIsShare DEF DataTypes, callvars
<1>6. Within'
  <2>1. \A x \in Cols : x > gcount' => gdata'[x].left = -1 BY <1>1, <1>2, <1>3, FreshEntry
  <2>2. \A x \in Cols : at'[x].type # "none" => x <= allocated'[ard']
    BY <1>1, <1>4, NothingIsShare DEF DataTypes, Within, Cols
  <2> QED BY <2>1, <2>2, <1>1 DEF Within, Converting
<1>7. ASSUME OnRow', NEW x \in Cols
      PROVE  Follows(curr, gdata[x], at[x], x)'
  <2>1. CASE x = c
    <3>1. gdata'[x].left = -1 /\ at'[x] = NothingYet BY <2>1, <1>1, <1>2, <1>3 DEF DataTypes
    <3> QED BY <3>1, NothingFollows
  <2>2. CASE x # c
    <3>1. Follows(curr, gdata[x], at[x], x) /\ curr' = curr /\ at'[x] = at[x]
      BY <2>2, <1>1, <1>7 DEF Follow, OnRow, DataTypes
    <3>2. CASE x > GrownTo(c, FALSE)
      <4>1. x > gcount BY <3>2, <1>2 DEF GrownTo, DataTypes, Cols
      <4>2. at[x] = NothingYet BY <4>1, <3>1, FreshMeansNothing DEF Within
      <4>3. gdata'[x].left = -1 BY <3>2, <2>2, <1>1, <1>2, FreshEntry
      <4> QED BY <4>2, <4>3, <3>1, NothingFollows
    <3>3. CASE ~(x > GrownTo(c, FALSE))
      <4>1. gdata'[x] = gdata[x] BY <3>3, <2>2, <1>1, <1>2
      <4> QED BY <4>1, <3>1
    <3> QED BY <3>2, <3>3
  <2> QED BY <2>1, <2>2
<1>8. Silent' BY <1>1 DEF Progress, Silent, Asking, callvars
<1> QED BY <1>1, <1>5, <1>6, <1>7, <1>8, BetweenCalls

LEMMA UnbindKeeps ==
  ASSUME Core, Unbind
  PROVE  Core'
<1> USE DEF Core
<1>1. /\ pc = "app" /\ pc' = "app"
      /\ gdata' = [c \in Cols |-> FreshData] /\ at' = [c \in Cols |-> NothingYet]
      /\ UNCHANGED <<ard, allocated, gcount, callvars, lf, curr>>
  BY DEF Unbind, Setup, rowvars, fetchvars
<1>2. FreshData \in Entries /\ FreshData.left = -1 BY FreshEntry
<1>3. DataTypes' BY <1>1, <1>2, NothingIsShare DEF DataTypes, callvars
<1>4. Within' BY <1>1, <1>2, NothingIsShare DEF Within, Converting
<1>5. \A c \in Cols : Follows(curr, gdata[c], at[c], c)' BY <1>1, <1>2, NothingFollows
<1>6. Silent' BY <1>1 DEF Progress, Silent, Asking, callvars
<1> QED BY <1>1, <1>3, <1>4, <1>5, <1>6, BetweenCalls

--------------------
(* Executing, and fetching a rowset.                                       *)

LEMMA ExecuteAgainKeeps ==
  ASSUME Core, ExecuteAgain
  PROVE  Core'
<1> USE DEF Core
<1>1. /\ pc = "app" /\ pc' = "app" /\ curr' = 0
      /\ at' = [c \in Cols |-> NothingYet]
      /\ allocated' = [allocated EXCEPT ![ard] = Extended(ard, NumCols)]
      /\ UNCHANGED <<ard, gvars, callvars, lf>>
  BY DEF ExecuteAgain
<1>2. Extended(ard, NumCols) \in Int /\ ard \in Descs BY ExtendedLength, SizesAssumption DEF DataTypes
<1>3. DataTypes' BY <1>1, <1>2, NothingIsShare DEF DataTypes, callvars, gvars
<1>4. Within' BY <1>1, NothingIsShare DEF Within, Converting, gvars
<1>5. ~OnRow' /\ Silent' BY <1>1 DEF OnRow, Progress, Silent, Asking, callvars
<1> QED BY <1>1, <1>3, <1>4, <1>5, BetweenCalls

LEMMA CloseCursorKeeps ==
  ASSUME Core, CloseCursor
  PROVE  Core'
<1> USE DEF Core
<1>1. /\ pc = "app" /\ pc' = "app" /\ curr' = 0
      /\ UNCHANGED <<ard, allocated, at, gvars, callvars, lf>>
  BY DEF CloseCursor, setupvars, fetchvars
<1>2. DataTypes' BY <1>1 DEF DataTypes, callvars, gvars
<1>3. Within' BY <1>1 DEF Within, Converting, gvars
<1>4. ~OnRow' /\ Silent' BY <1>1 DEF OnRow, Progress, Silent, Asking, callvars
<1> QED BY <1>1, <1>2, <1>3, <1>4, BetweenCalls

LEMMA ExtendedFetchKeeps ==
  ASSUME Core, Counters, PiecesPrudent, ExtendedFetch
  PROVE  Core'
<1> DEFINE next == IF start = 0 THEN 1 ELSE start + count
<1> USE DEF Core
<1>1. /\ pc = "app" /\ at' = [c \in Cols |-> NothingYet]
      /\ retrieve \/ Swept
      /\ UNCHANGED <<ard, allocated, gvars, callvars, lf, retrieve>>
  BY DEF ExtendedFetch, setupvars, PiecesPrudent, Swept
<1>2. \/ /\ next > NumRows /\ pc' = "app"
         /\ curr' = NumRows + 1
      \/ /\ ~(next > NumRows) /\ pc' = "row"
         /\ curr' = next - 1
  BY DEF ExtendedFetch
<1>3. next \in Int BY DEF Counters
<1> HIDE DEF next
<1>4. DataTypes'
  BY <1>1, <1>2, <1>3, NothingIsShare, SizesAssumption DEF DataTypes, callvars, gvars
<1>5. Within' BY <1>1, <1>2, NothingIsShare DEF Within, Converting, gvars
<1>6. Silent' BY <1>1 DEF Progress, Silent, Asking, callvars
<1>7. CASE next > NumRows
  <2>1. ~OnRow' BY <1>2, <1>7, <1>3, SizesAssumption DEF OnRow
  <2> QED BY <1>2, <1>4, <1>5, <1>6, <1>7, <2>1, BetweenCalls
<1>8. CASE ~(next > NumRows)
  <2>1. Swept' \/ (retrieve' /\ curr' < NumRows)
    BY <1>1, <1>2, <1>3, <1>8, SizesAssumption DEF Swept, gvars
  <2>2. Fetching' BY <1>1, <1>2, <1>8, <2>1 DEF Fetching
  <2> QED BY <1>2, <1>4, <1>5, <1>6, <1>8, <2>2, WhileFetching
<1> QED BY <1>7, <1>8

LEMMA FetchRowKeeps ==
  ASSUME Core, Counters, FetchRow
  PROVE  Core'
<1> DEFINE n == Extended(ard, NumCols)
           E == EntriesFor(n, TRUE)
<1> USE DEF Core
<1>1. /\ pc = "row" /\ UNCHANGED <<ard, retrieve, callvars, at>>
      /\ \A c \in Cols : at[c] = NothingYet
      /\ Swept \/ (retrieve /\ curr < NumRows)
  BY DEF FetchRow, Fetching
<1>2. Silent' BY <1>1 DEF Progress, Silent, Asking, callvars
<1>3. n \in Int /\ n >= NumCols /\ ard \in Descs BY ExtendedLength, SizesAssumption DEF DataTypes
<1>4. NumRows \in Nat /\ NumCols \in Nat BY SizesAssumption
<1>5. \A c \in Cols : at[c].type = "none" BY <1>1, NothingIsShare
<1>6. CASE curr >= NumRows
  <2>1. /\ pc' = "fetched" /\ curr' = NumRows + 1
        /\ UNCHANGED <<lf, allocated, gcount, gdata>>
    BY <1>6 DEF FetchRow
  <2>2. DataTypes' BY <1>1, <1>4, <2>1 DEF DataTypes, callvars
  <2>3. Within' BY <1>1, <2>1 DEF Within, Converting
  <2>4. Fetching' BY <1>1, <1>4, <1>6, <2>1 DEF Fetching, Swept, Counters
  <2> QED BY <1>2, <2>1, <2>2, <2>3, <2>4, WhileFetching
<1>7. CASE ~(curr >= NumRows) /\ ~retrieve
  <2>1. /\ pc' = "rowdone" /\ curr' = curr + 1 /\ lf' = 1
        /\ UNCHANGED <<allocated, gcount, gdata>>
    BY <1>7 DEF FetchRow
  <2>2. DataTypes' BY <1>1, <2>1 DEF DataTypes, callvars
  <2>3. Within' BY <1>1, <2>1 DEF Within, Converting
  <2>4. Fetching' BY <1>1, <1>7, <2>1 DEF Fetching, Swept
  <2> QED BY <1>2, <2>1, <2>2, <2>3, <2>4, WhileFetching
<1>8. CASE ~(curr >= NumRows) /\ retrieve
  <2>1. /\ pc' = "column" /\ curr' = curr + 1 /\ lf' = 1
        /\ allocated' = [allocated EXCEPT ![ard] = n]
        /\ gcount' = n /\ gdata' = E
    BY <1>8 DEF FetchRow
  <2>2. GrownTo(n, TRUE) = n BY DEF GrownTo
  <2>3. /\ E \in [Cols -> Entries]
        /\ \A c \in Cols : E[c] = IF c > n THEN FreshData ELSE gdata[c]
    <3>1. Core /\ n \in Int BY <1>3
    <3>2. /\ E \in [Cols -> Entries]
          /\ \A c \in Cols : E[c] = IF c > GrownTo(n, TRUE) THEN FreshData ELSE gdata[c]
      BY <3>1, EntriesKept, Zenon
    <3> QED BY <2>2, <3>2
  <2> HIDE DEF n, E
  <2>4. DataTypes' BY <1>1, <1>3, <2>1, <2>3 DEF DataTypes, callvars
  <2>5. Within'
    <3>1. allocated'[ard'] = n /\ gcount' = n /\ lf' = 1 BY <1>1, <2>1, <1>3 DEF DataTypes
    <3>2. \A c \in Cols : c > gcount' => gdata'[c].left = -1 BY <2>1, <2>3, FreshEntry
    <3> QED BY <1>1, <1>3, <1>4, <1>5, <2>1, <3>1, <3>2 DEF Within, Converting
  <2>6. Fetching' BY <1>1, <2>1 DEF Fetching, Cols
  <2> QED BY <1>2, <2>1, <2>4, <2>5, <2>6, WhileFetching
<1> QED BY <1>6, <1>7, <1>8

LEMMA FetchColumnKeeps ==
  ASSUME Core, FetchColumn
  PROVE  Core'
<1> USE DEF Core
<1>1. /\ pc = "column" /\ pc' = "column" /\ lf' = lf + 1
      /\ gdata' = [gdata EXCEPT ![lf] = Reset(@)]
      /\ UNCHANGED <<ard, allocated, gcount, callvars, at>>
      /\ lf <= NumCols
  BY DEF FetchColumn, setupvars, rowvars
<1>2. /\ \A c \in Cols \ {lf} : gdata'[c] = gdata[c]
      /\ lf \in Cols => gdata'[lf] = Reset(gdata[lf])
  BY <1>1 DEF DataTypes
<1>3. lf \in Cols => Reset(gdata[lf]) \in Entries /\ Reset(gdata[lf]).left = -1
  BY ResetEntry DEF DataTypes
<1>4. gdata' \in [Cols -> Entries] BY <1>1, <1>3 DEF DataTypes
<1>5. DataTypes' BY <1>1, <1>4 DEF DataTypes, callvars
<1>6. Within'
  <2>1. \A c \in Cols : c > gcount' => gdata'[c].left = -1 BY <1>1, <1>2, <1>3 DEF Within
  <2>2. NumCols <= gcount' /\ NumCols <= allocated'[ard'] BY <1>1 DEF Within
  <2> QED BY <1>1, <2>1, <2>2 DEF Within, Converting
<1>7. Fetching'
  <2>1. \A c \in Cols : c < lf' => gdata'[c].left = -1
    <3> SUFFICES ASSUME NEW c \in Cols, c < lf'
                 PROVE  gdata'[c].left = -1
      OBVIOUS
    <3>1. c < lf \/ c = lf BY <1>1 DEF DataTypes, Cols
    <3>2. CASE c = lf BY <3>2, <1>2, <1>3
    <3>3. CASE c < lf BY <3>3, <1>1, <1>2 DEF Fetching, Cols, DataTypes
    <3> QED BY <3>1, <3>2, <3>3
  <2> QED BY <1>1, <2>1 DEF Fetching
<1>8. Silent' BY <1>1 DEF Progress, Silent, Asking, callvars
<1> QED BY <1>1, <1>5, <1>6, <1>7, <1>8, WhileFetching

(* The steps of a fetch that only move on.                                 *)
PieceMoves == UNCHANGED <<ard, allocated, gvars, callvars, at, retrieve>>

LEMMA MovesKeep ==
  ASSUME Core, PieceMoves, Swept, \A c \in Cols : at[c] = NothingYet, ~Asking,
         lf' \in Int,
         pc' \in {"app", "row", "rowdone"}
  PROVE  Core'
<1> USE DEF Core
<1>1. DataTypes' BY DEF DataTypes, PieceMoves, callvars, gvars
<1>2. Within' BY DEF Within, Converting, PieceMoves, gvars
<1>3. Silent' BY DEF Progress, Silent, PieceMoves, callvars
<1>4. CASE pc' = "app"
  <2>1. \A c \in Cols : Follows(curr, gdata[c], at[c], c)' BY NothingFollows DEF PieceMoves, gvars, Swept
  <2> QED BY <1>1, <1>2, <1>3, <1>4, <2>1, BetweenCalls
<1>5. CASE pc' \in {"row", "rowdone"}
  <2>1. Fetching' BY <1>5 DEF Fetching, Swept, PieceMoves, gvars
  <2> QED BY <1>1, <1>2, <1>3, <1>5, <2>1, WhileFetching
<1> QED BY <1>4, <1>5

LEMMA RowDoneKeeps ==
  ASSUME Core, RowDone
  PROVE  Core'
<1>1. /\ pc = "column" /\ pc' = "rowdone" /\ lf > NumCols
      /\ PieceMoves /\ UNCHANGED lf
  BY DEF RowDone, PieceMoves, setupvars, rowvars, fetchvars
<1>2. Swept /\ ~Asking /\ \A c \in Cols : at[c] = NothingYet
  BY <1>1, SizesAssumption DEF Core, Fetching, Swept, Asking, DataTypes, Cols
<1> QED BY <1>1, <1>2, MovesKeep DEF Core, DataTypes

LEMMA NextRowKeeps ==
  ASSUME Core, NextRow
  PROVE  Core'
<1>1. pc = "rowdone" /\ PieceMoves BY DEF NextRow, PieceMoves, setupvars
<1>2. (pc' = "row" /\ lf' = lf) \/ (pc' = "app" /\ lf' = 1) BY DEF NextRow, EndRow, fetchvars
<1>3. Swept /\ ~Asking /\ \A c \in Cols : at[c] = NothingYet BY <1>1 DEF Core, Fetching, Asking
<1> QED BY <1>1, <1>2, <1>3, MovesKeep DEF Core, DataTypes

LEMMA FetchEndsKeeps ==
  ASSUME Core, FetchEnds
  PROVE  Core'
<1>1. /\ pc = "fetched" /\ pc' = "app" /\ lf' = 1 /\ PieceMoves
  BY DEF FetchEnds, EndRow, PieceMoves, setupvars
<1>2. Swept /\ ~Asking /\ \A c \in Cols : at[c] = NothingYet BY <1>1 DEF Core, Fetching, Asking
<1> QED BY <1>1, <1>2, MovesKeep DEF Core, DataTypes

LEMMA SetPositionKeeps ==
  ASSUME Core, NEW k \in Int, SetPosition(k)
  PROVE  Core'
<1> USE DEF Core
<1>1. /\ pc = "app" /\ pc' = "app"
      /\ gdata' = [c \in Cols |-> Reset(gdata[c])]
      /\ at' = [c \in Cols |-> NothingYet]
      /\ UNCHANGED <<ard, allocated, gcount, callvars, lf>>
  BY DEF SetPosition, setupvars, fetchvars
<1>2. \A c \in Cols : Reset(gdata[c]) \in Entries /\ Reset(gdata[c]).left = -1 BY ResetEntry DEF DataTypes
<1>3. DataTypes' BY <1>1, <1>2, NothingIsShare DEF DataTypes, callvars
<1>4. Within' BY <1>1, <1>2, NothingIsShare DEF Within, Converting
<1>5. \A c \in Cols : Follows(curr, gdata[c], at[c], c)' BY <1>1, <1>2, NothingFollows
<1>6. Silent' BY <1>1 DEF Progress, Silent, Asking, callvars
<1> QED BY <1>1, <1>3, <1>4, <1>5, <1>6, BetweenCalls

--------------------
(* SQLGetData, step by step.                                               *)

LEMMA GetDataCallKeeps ==
  ASSUME Core, Slots, PiecesPrudent,
         NEW c \in Cols, NEW t \in AskTypes, NEW z \in BufSizes,
         NEW i \in BOOLEAN, GetDataCall(c, t, z, i)
  PROVE  Core'
<1> USE DEF Core
<1>1. /\ pc = "app" /\ OnRow /\ pc' = "gate"
      /\ z > 0 \/ gdata[c].left <= 0
      /\ UNCHANGED <<ard, allocated, gvars, at, curr, lf, cc, piece>>
  BY DEF GetDataCall, OnRow, setupvars, rowvars, fetchvars, PiecesPrudent
<1>2. PICK ty \in IF t # "ard" THEN {t}
                  ELSE IF bindings[ard][c].type = "junk" THEN CTypes
                  ELSE {bindings[ard][c].type} :
        /\ at[c].type \in {"none", ty}
        /\ args' = [col |-> c, type |-> ty, size |-> z, ind |-> i]
  BY DEF GetDataCall, PiecesPrudent
<1>3. ty \in CTypes BY <1>2, SizesAssumption DEF Slots, Slot, DataTypes
<1>4. /\ args'.col = c /\ args'.type = ty /\ args'.size = z /\ z \in Nat BY <1>2, SizesAssumption
<1>5. DataTypes' BY <1>1, <1>3, <1>4 DEF DataTypes, gvars
<1>6. Within' BY <1>1 DEF Within, Converting, gvars
<1>7. \A x \in Cols : Follows(curr, gdata[x], at[x], x)' BY <1>1 DEF Follow, gvars
<1>8. Silent' BY <1>1 DEF Progress, Silent, Asking
<1>9. Asked(gdata[c], at[c])' BY <1>1, <1>2, <1>4, <1>7, <1>8 DEF Asked, gvars
<1>10. Progress' /\ Asking' /\ OnRow' BY <1>1, <1>4, <1>9 DEF Progress, Asking, OnRow
<1> QED BY <1>5, <1>6, <1>7, <1>10, WhileAsking

LEMMA GetDataGateKeeps ==
  ASSUME Core, GetDataGate
  PROVE  Core'
<1> USE DEF Core
<1>0. PICK c \in Cols : c = args.col BY DEF DataTypes
<1> DEFINE n == allocated[ard]
           E == EntriesFor(n, TRUE)
<1>1. /\ pc = "gate"
      /\ UNCHANGED <<ard, allocated, curr, lf, args, piece>>
  BY DEF GetDataGate, setupvars, rowvars, fetchvars
<1>2. /\ n \in Int /\ OnRow
      /\ \A x \in Cols : Follows(curr, gdata[x], at[x], x)
      /\ Asked(gdata[c], at[c])
  BY <1>0, <1>1 DEF DataTypes, Follow, Asking, Progress, Asked
<1>3. GrownTo(n, TRUE) = n BY DEF GrownTo
<1>4. /\ E \in [Cols -> Entries]
      /\ \A x \in Cols : E[x] = IF x > n THEN FreshData ELSE gdata[x]
  <2>1. Core /\ n \in Int BY <1>2
  <2>2. /\ E \in [Cols -> Entries]
        /\ \A x \in Cols : E[x] = IF x > GrownTo(n, TRUE) THEN FreshData ELSE gdata[x]
    BY <2>1, EntriesKept, Zenon
  <2> QED BY <1>3, <2>2
<1>5. \A x \in Cols : Follows(curr, E[x], at[x], x)
  <2> SUFFICES ASSUME NEW x \in Cols
               PROVE  Follows(curr, E[x], at[x], x)
    OBVIOUS
  <2>1. CASE x > n
    <3>1. at[x].type = "none" BY <2>1, <1>2 DEF Within, Cols
    <3>2. at[x] = NothingYet BY <3>1, <1>2, NoneMeansNothing
    <3>3. E[x].left = -1 BY <2>1, <1>4, FreshEntry
    <3> QED BY <3>2, <3>3, NothingFollows
  <2>2. CASE ~(x > n) BY <2>2, <1>2, <1>4
  <2> QED BY <2>1, <2>2
<1> HIDE DEF E
<1>6. CASE c > n
  <2>1. /\ cc' = "unrecognized" /\ pc' = "return"
        /\ UNCHANGED <<gcount, gdata, at>>
    BY <1>0, <1>6 DEF GetDataGate, E
  <2>2. DataTypes' BY <1>1, <2>1 DEF DataTypes
  <2>3. Within' BY <1>1, <2>1 DEF Within, Converting
  <2>4. PiecesExact' BY <1>0, <1>1, <1>2, <2>1 DEF PiecesExact, Complete, Asked, Silent
  <2>5. Later(at[c])' = at[c] BY <1>1, <2>1 DEF Later, Given
  <2>6. Progress' /\ Asking' /\ OnRow' BY <1>0, <1>1, <1>2, <2>1, <2>4, <2>5 DEF Progress, Asking, OnRow
  <2>7. \A x \in Cols : Follows(curr, gdata[x], at[x], x)' BY <1>0, <1>1, <1>2, <2>1
  <2> QED BY <2>2, <2>3, <2>6, <2>7, WhileAsking
<1>7. CASE ~(c > n) /\ Left(E[c]) = 0
  <2> DEFINE g == AtEnd(E[c])
  <2>1. /\ cc' = "nodata" /\ pc' = "return" /\ gcount' = n /\ at' = at
        /\ gdata' = [E EXCEPT ![c] = g]
    BY <1>0, <1>7 DEF GetDataGate, E
  <2>2. E[c] = gdata[c] /\ gdata[c].left \in {0, -2} BY <1>2, <1>4, <1>7 DEF Left
  <2>3. Whole(curr, at[c], c) BY <1>2, <2>2, LeftMeansWhole
  <2>4. g \in Entries /\ g.left = -2 BY <1>4, EndedEntry
  <2> HIDE DEF g
  <2>5. DataTypes' BY <1>0, <1>1, <1>2, <1>4, <2>1, <2>4 DEF DataTypes
  <2>6. Within'
    <3>1. \A x \in Cols : x > gcount' => gdata'[x].left = -1 BY <1>2, <1>4, <1>7, <2>1, FreshEntry
    <3> QED BY <1>0, <1>1, <1>2, <1>7, <2>1, <3>1 DEF Within, Converting, Cols
  <2>7. PiecesExact'
    BY <1>0, <1>1, <1>2, <2>1, <2>3 DEF PiecesExact, Complete, Asked, Silent, Whole
  <2>8. Later(at[c])' = at[c] BY <1>1, <2>1 DEF Later, Given
  <2>9. Follows(curr, g, at[c], c) BY <2>3, <2>4 DEF Follows
  <2>10. gdata'[c] = g /\ \A x \in Cols \ {c} : gdata'[x] = E[x] BY <1>2, <1>4, <2>1
  <2>11. Progress' /\ Asking' /\ OnRow'
    BY <1>0, <1>1, <1>2, <2>1, <2>7, <2>8, <2>9, <2>10 DEF Progress, Asking, OnRow
  <2>12. \A x \in Cols \ {c} : Follows(curr, gdata[x], at[x], x)' BY <1>1, <1>5, <2>1, <2>10
  <2> QED BY <1>0, <1>1, <2>5, <2>6, <2>11, <2>12, WhileAsking
<1>8. CASE ~(c > n) /\ Left(E[c]) # 0
  <2> DEFINE g == [E[c] EXCEPT !.left = Left(E[c])]
  <2>1. /\ cc' = cc /\ pc' = "value" /\ gcount' = n
        /\ gdata' = [E EXCEPT ![c].left = Left(E[c])]
        /\ at' = IF E[c].left = -2 THEN [at EXCEPT ![c] = NothingYet] ELSE at
    BY <1>0, <1>8 DEF GetDataGate, E
  <2>2. E[c] = gdata[c] /\ gdata[c] \in Entries BY <1>2, <1>4, <1>8 DEF DataTypes
  <2>3. gdata' = [E EXCEPT ![c] = g] BY <1>2, <1>4, <2>1
  <2>4. Left(E[c]) \in Int /\ (Left(E[c]) = -1 \/ Left(E[c]) > 0)
    <3>1. gdata[c].left \in {-2, -1, 0} \/ gdata[c].left > 0 BY <1>2, LeftAtFollows
    <3>2. gdata[c].left \in Int BY <2>2 DEF Entries
    <3> QED BY <3>1, <3>2, <1>8, <2>2 DEF Left
  <2>5. g \in Entries /\ g.left = Left(E[c]) BY <2>2, <2>4 DEF Entries
  <2>a. Left(E[c]) = gdata[c].left => g = gdata[c] BY <2>2 DEF Entries
  <2> HIDE DEF g
  <2>6. /\ at' \in [Cols -> Shares]
        /\ \A x \in Cols : at'[x].type \in {"none", at[x].type}
        /\ \A x \in Cols \ {c} : at'[x] = at[x]
    BY <1>2, <2>1, NothingIsShare DEF DataTypes
  <2>7. Follows(curr, g, at'[c], c) /\ (args.size > 0 \/ g.left <= 0)
    <3>1. CASE E[c].left = -2
      <4>1. at'[c] = NothingYet BY <3>1, <2>1 DEF DataTypes
      <4>2. g.left = -1 BY <3>1, <2>4, <2>5, <1>8 DEF Left
      <4> QED BY <4>1, <4>2, NothingFollows
    <3>2. CASE E[c].left # -2
      <4>1. Left(E[c]) = gdata[c].left /\ at'[c] = at[c] BY <3>2, <2>1, <2>2 DEF Left
      <4>2. g = gdata[c] BY <4>1, <2>a
      <4> QED BY <4>1, <4>2, <1>2 DEF Asked
    <3> QED BY <3>1, <3>2
  <2>8. DataTypes' BY <1>0, <1>1, <1>2, <1>4, <2>1, <2>3, <2>5, <2>6 DEF DataTypes
  <2>9. Within'
    <3>1. \A x \in Cols : x > gcount' => gdata'[x].left = -1 BY <1>2, <1>4, <1>8, <2>1, <2>3, FreshEntry
    <3>2. \A x \in Cols : at'[x].type # "none" => x <= allocated'[ard'] BY <1>1, <2>6 DEF Within
    <3> QED BY <1>0, <1>1, <1>2, <1>8, <2>1, <3>1, <3>2 DEF Within, Converting, Cols
  <2>10. gdata'[c] = g /\ \A x \in Cols \ {c} : gdata'[x] = E[x] BY <1>2, <1>4, <2>3
  <2>11. Asked(gdata[c], at[c])'
    <3>1. Follows(curr, gdata[c], at[c], c)' BY <1>1, <2>7, <2>10
    <3>2. (at[c].type \in {"none", args.type})' BY <1>1, <1>2, <2>6 DEF Asked
    <3> QED BY <1>0, <1>1, <1>2, <2>1, <2>7, <2>10, <3>1, <3>2 DEF Asked, Silent
  <2>12. Progress' /\ Asking' /\ OnRow'
    BY <1>0, <1>1, <1>2, <2>1, <2>4, <2>5, <2>10, <2>11 DEF Progress, Asking, OnRow
  <2>13. \A x \in Cols \ {c} : Follows(curr, gdata[x], at[x], x)' BY <1>1, <1>5, <2>1, <2>6, <2>10
  <2> QED BY <1>1, <2>8, <2>9, <2>12, <2>13, <1>0, WhileAsking
<1> QED BY <1>6, <1>7, <1>8

LEMMA GetDataValueKeeps ==
  ASSUME Core, GetDataValue
  PROVE  Core'
<1> USE DEF Core
<1>0. PICK c \in Cols : c = args.col BY DEF DataTypes
<1> DEFINE null == Length[curr][c] = Null
           text == ~null /\ args.type \in TextTypes
<1>1. /\ pc = "value"
      /\ UNCHANGED <<ard, allocated, gcount, curr, lf, args, piece, at>>
      /\ cc' = IF null THEN NullOutcome(args.ind)
               ELSE IF text THEN cc ELSE FixedOutcome(args.type)
      /\ gdata' = IF ~null /\ args.type = "fixed"
                  THEN [gdata EXCEPT ![c].left = 0] ELSE gdata
      /\ pc' = IF ~text THEN "return"
               ELSE IF gdata[c].left < 0 THEN "setup" ELSE "resume"
  BY <1>0 DEF GetDataValue, setupvars, rowvars, fetchvars
<1>2. /\ OnRow /\ Asked(gdata[c], at[c])
      /\ gdata[c].left = -1 \/ gdata[c].left > 0
      /\ \A x \in Cols \ {c} : Follows(curr, gdata[x], at[x], x)
  BY <1>0, <1>1 DEF Follow, Asking, Progress
<1>3. c <= allocated[ard] /\ c <= gcount /\ gdata[c].left \in Int
  BY <1>0, <1>1 DEF Within, Converting, DataTypes, Entries
<1>4. CASE text
  <2>1. UNCHANGED <<gdata, cc>> BY <1>1, <1>4 DEF TextTypes
  <2>2. DataTypes' BY <1>1, <2>1 DEF DataTypes
  <2>3. Within' BY <1>0, <1>1, <1>3, <1>4, <2>1 DEF Within, Converting
  <2>4. \A x \in Cols \ {c} : Follows(curr, gdata[x], at[x], x)' BY <1>1, <1>2, <2>1
  <2>5. IsText' BY <1>0, <1>1, <1>4 DEF IsText
  <2>6. CASE gdata[c].left = -1
    <3>1. at[c] = NothingYet /\ pc' = "setup" BY <1>1, <1>2, <1>4, <2>6, FreshMeansNothing DEF Asked
    <3>2. Progress' /\ Asking' /\ OnRow'
      BY <1>0, <1>1, <1>2, <2>1, <2>5, <2>6, <3>1 DEF Progress, Asking, OnRow, Asked, Silent
    <3> QED BY <1>0, <1>1, <2>2, <2>3, <2>4, <3>2, WhileAsking
  <2>7. CASE gdata[c].left > 0
    <3>1. pc' = "resume" BY <1>1, <1>3, <1>4, <2>7
    <3>2. Begun(curr, gdata[c], at[c], c) /\ args.size > 0
      <4>1. Follows(curr, gdata[c], at[c], c) BY <1>0, <1>2 DEF Asked
      <4>2. gdata[c].left \notin {-2, -1, 0} BY <1>3, <2>7
      <4>3. args.size > 0 BY <1>2, <1>3, <2>7 DEF Asked
      <4> QED BY <4>1, <4>2, <4>3, LeftAtFollows
    <3>3. at[c].type = args.type BY <1>2, <3>2 DEF Asked, Begun, TextTypes
    <3>4. Progress' /\ Asking' /\ OnRow'
      BY <1>0, <1>1, <1>2, <2>1, <2>5, <3>1, <3>2, <3>3 DEF Progress, Asking, OnRow, Asked, Silent
    <3> QED BY <1>0, <1>1, <2>2, <2>3, <2>4, <3>4, WhileAsking
  <2> QED BY <1>2, <2>6, <2>7
<1>5. CASE ~text
  <2>1. pc' = "return" /\ piece = NoPiece BY <1>1, <1>2, <1>5 DEF Asked, Silent
  <2>2. /\ gdata' \in [Cols -> Entries]
        /\ \A x \in Cols \ {c} : gdata'[x] = gdata[x]
    BY <1>1 DEF DataTypes, Entries
  <2>3. DataTypes' BY <1>1, <2>2 DEF DataTypes
  <2>4. Within'
    <3>1. \A x \in Cols : x > gcount' => gdata'[x].left = -1
      BY <1>1, <1>3, <2>2 DEF Within, Cols, DataTypes
    <3> QED BY <1>0, <1>1, <1>3, <2>1, <3>1 DEF Within, Converting
  <2>5. \A x \in Cols \ {c} : Follows(curr, gdata[x], at[x], x)' BY <1>1, <1>2, <2>2
  <2>6. PiecesExact'
    BY <1>0, <1>1, <1>5, <2>1 DEF PiecesExact, Complete, FixedOutcome, TextTypes
  <2>7. CASE null
    <3>1. gdata' = gdata BY <1>1, <2>7
    <3>2. Later(at[c])' = at[c] BY <1>0, <1>1, <2>7 DEF Later, Given
    <3>3. Progress' BY <1>0, <1>1, <1>2, <2>1, <2>6, <3>1, <3>2 DEF Progress, Asking, Asked
    <3> QED
      BY <1>0, <1>1, <1>2, <2>1, <2>3, <2>4, <2>5, <3>3, WhileAsking DEF Asking, OnRow
  <2>8. CASE ~null /\ args.type = "fixed"
    <3>1. gdata'[c].left = 0 /\ cc' = "ok" BY <1>1, <2>8 DEF DataTypes, Entries, FixedOutcome, TextTypes
    <3>2. /\ Later(at[c])' = [n |-> at[c].n + piece.n, type |-> args.type]
      BY <1>0, <1>1, <2>8, <3>1 DEF Later, Given
    <3>3. Follows(curr, gdata[c], Later(at[c]), c)' BY <1>1, <2>8, <3>1, <3>2 DEF Follows, Whole
    <3>4. Progress' BY <1>0, <1>1, <2>1, <2>6, <3>3 DEF Progress, Asking
    <3> QED
      BY <1>0, <1>1, <1>2, <2>1, <2>3, <2>4, <2>5, <3>4, WhileAsking DEF Asking, OnRow
  <2>9. CASE ~null /\ args.type = "unsupported"
    <3>1. gdata' = gdata /\ cc' = "unsupported" BY <1>1, <2>9 DEF FixedOutcome, TextTypes
    <3>2. Later(at[c])' = at[c] BY <1>1, <3>1 DEF Later, Given
    <3>3. Progress' BY <1>0, <1>1, <1>2, <2>1, <2>6, <3>1, <3>2 DEF Progress, Asking, Asked
    <3> QED
      BY <1>0, <1>1, <1>2, <2>1, <2>3, <2>4, <2>5, <3>3, WhileAsking DEF Asking, OnRow
  <2> QED BY <1>5, <2>7, <2>8, <2>9 DEF DataTypes, CTypes
<1> QED BY <1>4, <1>5

LEMMA GetDataSetupKeeps ==
  ASSUME Core, GetDataSetup
  PROVE  Core'
<1> USE DEF Core
<1>0. PICK c \in Cols : c = args.col BY DEF DataTypes
<1> DEFINE len == Bytes(curr, c, args.type)
           need == len + Terminator(args.type)
           kept == [row |-> curr, col |-> c, type |-> args.type]
           changed == args.type = "wchar" \/ c \in Converted
           old == IF gdata[c].buf = NoBuffer THEN 0 ELSE gdata[c].buflen
           longer == Larger(old, need)
           g == IF changed \/ need > args.size
                THEN [left |-> len, buf |-> kept, buflen |-> longer, used |-> len]
                ELSE [FreshData EXCEPT !.left = len]
<1>1. /\ pc = "setup"
      /\ UNCHANGED <<ard, allocated, gcount, curr, lf, args, at>>
  BY DEF GetDataSetup, setupvars, rowvars, fetchvars
<1>2. /\ OnRow /\ IsText /\ gdata[c].left = -1 /\ at[c] = NothingYet /\ Silent
      /\ \A x \in Cols \ {c} : Follows(curr, gdata[x], at[x], x)
  BY <1>0, <1>1 DEF Follow, Asking, Progress
<1>3. c <= allocated[ard] /\ c <= gcount BY <1>0, <1>1 DEF Within, Converting
<1>4. len \in Nat /\ Terminator(args.type) \in 0..2 BY <1>0, <1>2, ValueLength DEF IsText, OnRow
<1>5. args.size \in Nat /\ curr \in Int /\ args.type \in CTypes
  BY <1>2, SizesAssumption DEF DataTypes, OnRow
<1>6. CASE args.size = 0
  <2>1. cc' = "truncated" /\ pc' = "return" /\ UNCHANGED <<gdata, piece>> BY <1>6 DEF GetDataSetup
  <2>2. DataTypes' BY <1>1, <2>1 DEF DataTypes
  <2>3. Within' BY <1>0, <1>1, <1>3, <2>1 DEF Within, Converting
  <2>4. PiecesExact' BY <1>1, <1>2, <2>1 DEF PiecesExact, Complete, Silent
  <2>5. Later(at[c])' = at[c] BY <1>1, <1>6, <2>1 DEF Later
  <2>6. Follows(curr, gdata[c], Later(at[c]), c)' BY <1>1, <1>2, <2>1, <2>5, NothingFollows
  <2>7. Progress' BY <1>0, <1>1, <2>1, <2>4, <2>6 DEF Progress, Asking
  <2> QED
    BY <1>0, <1>1, <1>2, <2>1, <2>2, <2>3, <2>7, WhileAsking DEF Asking, OnRow
<1>7. CASE args.size # 0
  <2>1. /\ pc' = "copy" /\ cc' = cc /\ gdata' = [gdata EXCEPT ![c] = g]
        /\ piece' = [tag |-> kept, from |-> 0, n |-> len, need |-> need]
    BY <1>0, <1>7 DEF GetDataSetup
  <2>2. longer \in Int /\ longer >= need
    <3>1. old \in Int BY DEF DataTypes, Entries
    <3> QED BY <1>4, <3>1 DEF Larger
  <2>3. kept \in Tags BY <1>5, SizesAssumption DEF Tags, Cols
  <2> HIDE DEF len, kept, longer
  <2>4. /\ g \in Entries /\ g.left = len
        /\ need > args.size => g.used = len /\ g.buf = kept /\ g.buflen = longer
    <3>1. CASE changed \/ need > args.size
      <4>1. g = [left |-> len, buf |-> kept, buflen |-> longer, used |-> len] BY <3>1
      <4> QED BY <4>1, <1>4, <2>2, <2>3 DEF Entries
    <3>2. CASE ~(changed \/ need > args.size)
      <4>1. g = [FreshData EXCEPT !.left = len] BY <3>2
      <4> QED BY <4>1, <3>2, <1>4, FreshEntry DEF Entries
    <3> QED BY <3>1, <3>2
  <2> HIDE DEF g
  <2>5. gdata'[c] = g /\ \A x \in Cols \ {c} : gdata'[x] = gdata[x] BY <2>1 DEF DataTypes
  <2>6. piece' \in Pieces BY <1>4, <2>1, <2>3 DEF Pieces
  <2>7. DataTypes' BY <1>1, <2>1, <2>4, <2>6 DEF DataTypes
  <2>8. Within'
    <3>1. \A x \in Cols : x > gcount' => gdata'[x].left = -1
      BY <1>1, <1>3, <2>5 DEF Within, Cols, DataTypes
    <3> QED BY <1>0, <1>1, <1>3, <2>1, <3>1 DEF Within, Converting
  <2>9. IsText' BY <1>1, <1>2 DEF IsText
  <2>10. /\ piece'.tag = kept /\ piece'.from = 0 /\ piece'.n = len
         /\ piece'.need = need
    BY <2>1
  <2>11. Cutting(gdata[c], at[c])'
    <3>1. at[c].n = 0 /\ at[c].type = "none" BY <1>2 DEF NothingYet
    <3>2. kept = [row |-> curr, col |-> args.col, type |-> args.type] BY <1>0 DEF kept
    <3>3. len = Bytes(curr, args.col, args.type) BY <1>0 DEF len
    <3> QED BY <1>1, <1>4, <1>5, <1>7, <2>2, <2>4, <2>5, <2>9, <2>10, <3>1, <3>2,
         <3>3
      DEF Cutting
  <2>12. Progress' BY <1>0, <1>1, <2>1, <2>11 DEF Progress, Asking
  <2>13. \A x \in Cols \ {c} : Follows(curr, gdata[x], at[x], x)' BY <1>1, <1>2, <2>5
  <2> QED
    BY <1>0, <1>1, <1>2, <2>1, <2>7, <2>8, <2>12, <2>13, WhileAsking DEF Asking, OnRow
<1> QED BY <1>6, <1>7

LEMMA GetDataResumeKeeps ==
  ASSUME Core, GetDataResume
  PROVE  Core'
<1> USE DEF Core
<1>0. PICK c \in Cols : c = args.col BY DEF DataTypes
<1>1. /\ pc = "resume" /\ pc' = "copy" /\ piece' = Rest(gdata[c])
      /\ UNCHANGED <<ard, allocated, gvars, curr, lf, args, at>>
  BY <1>0 DEF GetDataResume, setupvars, rowvars, fetchvars
<1>2. /\ OnRow /\ IsText /\ Begun(curr, gdata[c], at[c], c)
      /\ at[c].type = args.type /\ args.size > 0
      /\ \A x \in Cols \ {c} : Follows(curr, gdata[x], at[x], x)
  BY <1>0, <1>1 DEF Follow, Asking, Progress
<1>3. gdata[c] \in Entries BY DEF DataTypes
<1>4. /\ piece'.tag = gdata[c].buf /\ piece'.n = gdata[c].left
      /\ piece'.from = gdata[c].used - gdata[c].left
      /\ piece'.need = gdata[c].left + (gdata[c].buflen - gdata[c].used)
      /\ piece' \in Pieces
  BY <1>1, <1>3 DEF Rest, Entries, Pieces
<1>5. DataTypes' BY <1>1, <1>4 DEF DataTypes, gvars
<1>6. Within' BY <1>0, <1>1 DEF Within, Converting, gvars
<1>7. Terminator(args.type) \in 0..2 BY <1>0, <1>2, ValueLength DEF IsText, OnRow
<1>8. Cutting(gdata[c], at[c])'
  BY <1>0, <1>1, <1>2, <1>3, <1>4, <1>7 DEF Cutting, Begun, IsText, Entries, gvars
<1>9. Progress' BY <1>0, <1>1, <1>8 DEF Progress, Asking
<1>10. \A x \in Cols \ {c} : Follows(curr, gdata[x], at[x], x)' BY <1>1, <1>2 DEF gvars
<1> QED BY <1>0, <1>1, <1>2, <1>5, <1>6, <1>9, <1>10, WhileAsking DEF Asking, OnRow

LEMMA GetDataCopyKeeps ==
  ASSUME Core, GetDataCopy
  PROVE  Core'
<1> USE DEF Core
<1>0. PICK c \in Cols : c = args.col BY DEF DataTypes
<1> DEFINE n == CopyLength
           more == args.size > 0 /\ piece.need > args.size
           g == IF more THEN [gdata[c] EXCEPT !.left = @ - n]
                ELSE [FreshData EXCEPT !.left = 0]
           all == Bytes(curr, c, args.type)
<1>1. /\ pc = "copy" /\ pc' = "return"
      /\ piece' = [piece EXCEPT !.n = n]
      /\ cc' = IF more THEN "truncated" ELSE "ok"
      /\ UNCHANGED <<ard, allocated, gcount, curr, lf, args, at>>
  BY DEF GetDataCopy, MoreToCome, setupvars, rowvars, fetchvars
<1>2. gdata' = [gdata EXCEPT ![c] = g] BY <1>0 DEF GetDataCopy, Copied, MoreToCome, DataTypes
<1>3. /\ OnRow /\ Cutting(gdata[c], at[c])
      /\ \A x \in Cols \ {c} : Follows(curr, gdata[x], at[x], x)
  BY <1>0, <1>1 DEF Follow, Asking, Progress
<1>4. c <= allocated[ard] /\ c <= gcount BY <1>0, <1>1 DEF Within, Converting
<1>5. all \in Nat /\ Terminator(args.type) \in 0..2 BY <1>0, <1>3, ValueLength DEF Cutting, IsText, OnRow
<1>6. piece \in Pieces /\ gdata[c] \in Entries /\ at[c] \in Shares BY DEF DataTypes
<1>7. n \in 0..piece.n /\ (~more => n = piece.n)
  <2>1. piece.n \in Nat /\ args.size \in Nat /\ piece.need \in Int
    BY <1>3, <1>6 DEF Cutting, Pieces, DataTypes
  <2>2. /\ n \in 0..piece.n
        /\ piece.n + Terminator(args.type) <= args.size => n = piece.n
    BY <1>5, <2>1, CopiedLength
  <2> QED BY <1>3, <1>5, <2>1, <2>2 DEF Cutting
<1> HIDE DEF n, all
<1>8. /\ g \in Entries
      /\ more => /\ g.left = gdata[c].left - n /\ g.used = gdata[c].used
                 /\ g.buf = gdata[c].buf /\ g.buflen = gdata[c].buflen
      /\ ~more => g.left = 0
  <2>1. CASE more
    <3>1. g = [gdata[c] EXCEPT !.left = @ - n] /\ n \in Int BY <2>1, <1>7
    <3> QED BY <2>1, <3>1, <1>6 DEF Entries
  <2>2. CASE ~more
    <3>1. g = [FreshData EXCEPT !.left = 0] BY <2>2
    <3> QED BY <2>2, <3>1, FreshEntry DEF Entries
  <2> QED BY <2>1, <2>2
<1> HIDE DEF g
<1>9. gdata'[c] = g /\ \A x \in Cols \ {c} : gdata'[x] = gdata[x] BY <1>2 DEF DataTypes
<1>10. /\ piece' \in Pieces /\ piece'.tag = piece.tag
       /\ piece'.from = piece.from /\ piece'.n = n
  BY <1>1, <1>6, <1>7 DEF Pieces
<1>11. DataTypes' BY <1>1, <1>2, <1>8, <1>10 DEF DataTypes
<1>12. Within'
  <2>1. \A x \in Cols : x > gcount' => gdata'[x].left = -1 BY <1>1, <1>4, <1>9 DEF Within, Cols, DataTypes
  <2> QED BY <1>0, <1>1, <1>4, <2>1 DEF Within, Converting
<1>13. /\ piece.n = gdata[c].left /\ at[c].n + piece.n = all
       /\ piece.from = at[c].n /\ at[c].n >= 0 /\ IsText /\ args.size > 0
       /\ piece.tag = [row |-> curr, col |-> c, type |-> args.type]
       /\ piece.need > args.size =>
            /\ gdata[c].used = all /\ gdata[c].buf = piece.tag
            /\ gdata[c].buflen >= all + Terminator(args.type)
  BY <1>0, <1>3 DEF Cutting, all
<1>14. at[c].n \in Int /\ piece.n \in Int /\ n \in Int BY <1>6, <1>7 DEF Shares, Pieces
<1>15. ~more => at[c].n + n = all BY <1>7, <1>13
<1>16. PiecesExact'
  <2>1. (piece.tag = [row |-> curr, col |-> args.col, type |-> args.type])' BY <1>0, <1>1, <1>10, <1>13
  <2>2. (piece.from = at[args.col].n)' BY <1>0, <1>1, <1>10, <1>13
  <2>3. Complete' BY <1>0, <1>1, <1>10, <1>15 DEF Complete, all
  <2> QED BY <2>1, <2>2, <2>3 DEF PiecesExact
<1>17. Later(at[c])' = [n |-> at[c].n + n, type |-> args.type]
  BY <1>0, <1>1, <1>10, <1>13 DEF Later, Given, IsText
<1>18. Follows(curr, g, [n |-> at[c].n + n, type |-> args.type], c)
  <2> DEFINE a == [n |-> at[c].n + n, type |-> args.type]
  <2>1. /\ a.n = at[c].n + n /\ a.type = args.type /\ a.type \in TextTypes
        /\ Length[curr][c] # Null
    BY <1>0, <1>13 DEF IsText
  <2> SUFFICES Follows(curr, g, a, c) OBVIOUS
  <2> HIDE DEF a
  <2>2. CASE g.left = 0
    <3>1. a.n = all BY <2>1, <2>2, <1>8, <1>13, <1>14, <1>15
    <3> QED BY <2>1, <2>2, <3>1 DEF Follows, Whole, all
  <2>3. CASE g.left # 0
    <3>1. more BY <2>3, <1>8
    <3>2. g.left > 0 /\ g.left <= g.used /\ g.used = all /\ g.buf = piece.tag
          /\ g.buflen >= g.used + Terminator(args.type)
          /\ a.n = g.used - g.left
      BY <2>1, <2>3, <3>1, <1>5, <1>7, <1>8, <1>13, <1>14
    <3> QED BY <2>1, <3>2, <1>13 DEF Follows, Begun, all
  <2> QED BY <2>2, <2>3
<1>19. Progress' BY <1>0, <1>1, <1>9, <1>16, <1>17, <1>18 DEF Progress, Asking
<1>20. \A x \in Cols \ {c} : Follows(curr, gdata[x], at[x], x)' BY <1>1, <1>3, <1>9
<1> QED
  BY <1>0, <1>1, <1>3, <1>11, <1>12, <1>19, <1>20, WhileAsking DEF Asking, OnRow

LEMMA GetDataReturnKeeps ==
  ASSUME Core, GetDataReturn
  PROVE  Core'
<1> USE DEF Core
<1>0. PICK c \in Cols : c = args.col BY DEF DataTypes
<1>1. /\ pc = "return" /\ pc' = "app"
      /\ args' = NoCall /\ cc' = "ok" /\ piece' = NoPiece
      /\ UNCHANGED <<ard, allocated, gvars, curr, lf>>
  BY DEF GetDataReturn, setupvars, rowvars, fetchvars
<1>2. at' = IF Given /\ (args.size > 0 \/ cc = "ok")
            THEN [at EXCEPT ![c] = [n |-> at[c].n + piece.n, type |-> args.type]]
            ELSE at
  BY <1>0 DEF GetDataReturn, Given, DataTypes
<1>3. at'[c] = Later(at[c]) /\ \A x \in Cols \ {c} : at'[x] = at[x] BY <1>2 DEF Later, DataTypes
<1>4. /\ OnRow /\ Follows(curr, gdata[c], Later(at[c]), c)
      /\ \A x \in Cols \ {c} : Follows(curr, gdata[x], at[x], x)
  BY <1>0, <1>1 DEF Follow, Asking, Progress
<1>5. at' \in [Cols -> Shares]
  <2>1. [n |-> at[c].n + piece.n, type |-> args.type] \in Shares BY DEF DataTypes, Shares, Pieces
  <2> QED BY <1>2, <2>1 DEF DataTypes
<1>6. DataTypes'
  <2>1. NoPiece \in Pieces BY DEF NoPiece, Pieces, NoBuffer, Tags
  <2>2. NoCall.col \in Cols /\ NoCall.type \in CTypes /\ NoCall.size \in Nat
    BY SizesAssumption DEF NoCall, Cols, CTypes, TextTypes
  <2> QED BY <1>1, <1>5, <2>1, <2>2 DEF DataTypes, gvars
<1>7. Within'
  <2>1. \A x \in Cols : at'[x].type # "none" => x <= allocated'[ard']
    <3>1. at'[c] # at[c] => c <= allocated[ard] BY <1>0, <1>1, <1>2 DEF Within, Given
    <3> QED BY <1>1, <1>3, <3>1 DEF Within
  <2> QED BY <1>1, <2>1 DEF Within, Converting, gvars
<1>8. \A x \in Cols : Follows(curr, gdata[x], at[x], x)' BY <1>1, <1>3, <1>4 DEF gvars
<1>9. Silent' BY <1>1 DEF Silent
<1> QED BY <1>1, <1>6, <1>7, <1>8, <1>9, BetweenCalls

--------------------
(* The whole.                                                              *)

(* Calls that change the bindings leave the cursor where it is.             *)
Stays == UNCHANGED <<pc, failed, bindRow, start, count, curr>>

LEMMA SetupStays ==
  ASSUME NEW c, NEW b, NEW d, NEW s, NEW n, NEW field, NEW v,
         \/ BindCol(c, b) \/ Unbind \/ SetCount(d, n) \/ SetRecord(d, c, field, v)
         \/ Attach(d) \/ CopyDesc(s, d) \/ FreeDesc \/ SetRowset(n) \/ SetRetrieve
  PROVE  Stays
<1> USE DEF Stays, rowvars, fetchvars
<1>1. CASE BindCol(c, b) BY <1>1, Zenon DEF BindCol
<1>2. CASE Unbind BY <1>2, Zenon DEF Unbind
<1>3. CASE SetCount(d, n) BY <1>3, Zenon DEF SetCount
<1>4. CASE SetRecord(d, c, field, v) BY <1>4, Zenon DEF SetRecord
<1>5. CASE Attach(d) BY <1>5, Zenon DEF Attach
<1>6. CASE CopyDesc(s, d) BY <1>6, Zenon DEF CopyDesc
<1>7. CASE FreeDesc BY <1>7, Zenon DEF FreeDesc
<1>8. CASE SetRowset(n) BY <1>8, Zenon DEF SetRowset
<1>9. CASE SetRetrieve BY <1>9, Zenon DEF SetRetrieve
<1> QED BY <1>1, <1>2, <1>3, <1>4, <1>5, <1>6, <1>7, <1>8, <1>9

SetupCalls ==
  \/ \E c \in Cols : \/ \E b \in Bindings : BindCol(c, b)
                     \/ BindCol(c, Unbound)
  \/ Unbind
  \/ \E d \in Descs :
       \/ \E n \in 0..NumCols : SetCount(d, n)
       \/ \E c \in Cols :
            \/ \E t \in BindTypes : SetRecord(d, c, "type", t)
            \/ \E z \in BindSizes : SetRecord(d, c, "size", z)
            \/ SetRecord(d, c, "data", 0)
            \/ SetRecord(d, c, "ind", 0)
       \/ Attach(d)
       \/ \E s \in Descs : CopyDesc(s, d)
  \/ FreeDesc
  \/ \E n \in RowsetSizes : SetRowset(n)
  \/ SetRetrieve

LEMMA SetupCallsStay ==
  ASSUME SetupCalls
  PROVE  Stays
BY SetupStays, Zenon DEF SetupCalls

(* The steps of SQLGetData do too.                                         *)
LEMMA AskingStays ==
  ASSUME NEW c, NEW t, NEW z, NEW i,
         \/ GetDataCall(c, t, z, i) \/ GetDataGate \/ GetDataValue
         \/ GetDataSetup \/ GetDataResume \/ GetDataCopy \/ GetDataReturn
  PROVE  UNCHANGED <<failed, bindRow, start, count, curr>>
<1> USE DEF rowvars, fetchvars
<1>1. CASE GetDataCall(c, t, z, i) BY <1>1, Zenon DEF GetDataCall
<1>2. CASE GetDataGate BY <1>2, Zenon DEF GetDataGate
<1>3. CASE GetDataValue BY <1>3, Zenon DEF GetDataValue
<1>4. CASE GetDataSetup BY <1>4, Zenon DEF GetDataSetup
<1>5. CASE GetDataResume BY <1>5, Zenon DEF GetDataResume
<1>6. CASE GetDataCopy BY <1>6, Zenon DEF GetDataCopy
<1>7. CASE GetDataReturn BY <1>7, Zenon DEF GetDataReturn
<1> QED BY <1>1, <1>2, <1>3, <1>4, <1>5, <1>6, <1>7

LEMMA CountersKept ==
  ASSUME Counters, [GetDataNext]_getDataVars
  PROVE  Counters'
<1> USE DEF Counters
<1>0. NumRows \in Nat BY SizesAssumption
<1>1. CASE ExecuteAgain BY <1>1 DEF ExecuteAgain
<1>2. CASE CloseCursor BY <1>2 DEF CloseCursor
<1>3. CASE ExtendedFetch
  <2> DEFINE next == IF start = 0 THEN 1 ELSE start + count
  <2>1. /\ start' \in {NumRows + 1, next} /\ curr' \in {NumRows + 1, next - 1}
        /\ count' = 0 /\ bindRow' \in {0, bindRow}
    BY <1>3 DEF ExtendedFetch
  <2> QED BY <1>0, <2>1
<1>4. CASE FetchRow
  <2>1. /\ UNCHANGED <<start, count, bindRow>>
        /\ curr' \in {NumRows + 1, curr + 1}
    BY <1>4 DEF FetchRow
  <2> QED BY <1>0, <2>1
<1>5. CASE NextRow BY <1>5 DEF NextRow, EndRow
<1>6. CASE FetchEnds BY <1>6 DEF FetchEnds, EndRow
<1>7. CASE \E k \in 1..NumRows : SetPosition(k) BY <1>7 DEF SetPosition
<1>8. CASE UNCHANGED <<start, count, curr, bindRow>> BY <1>8
<1>9. CASE SetupCalls \/ getDataVars' = getDataVars
  BY <1>8, <1>9, SetupCallsStay DEF Stays, getDataVars, rowvars
<1>10. CASE \/ \E c \in Cols : \E t \in AskTypes, z \in BufSizes, i \in BOOLEAN :
                 GetDataCall(c, t, z, i)
            \/ GetDataGate \/ GetDataValue \/ GetDataSetup \/ GetDataResume
            \/ GetDataCopy \/ GetDataReturn
  BY <1>8, <1>10, AskingStays
<1>11. CASE FetchColumn BY <1>8, <1>11, Zenon DEF FetchColumn, rowvars
<1>12. CASE RowDone BY <1>8, <1>12, Zenon DEF RowDone, rowvars
<1> QED BY <1>1, <1>2, <1>3, <1>4, <1>5, <1>6, <1>7, <1>9, <1>10, <1>11,
     <1>12
  DEF GetDataNext, SetupCalls

(* The steps after which every binding is what it was.                     *)
Unbinding == bindings' = bindings

LEMMA SlotsKept ==
  ASSUME DataTypes, Slots, [GetDataNext]_getDataVars
  PROVE  Slots'
<1>1. CASE \E c \in Cols : \E b \in Bindings : BindCol(c, b) BY <1>1, SlotsOfBindings, SlotsOfBindCol
<1>2. CASE \E c \in Cols : BindCol(c, Unbound) BY <1>2, EmptySlots, SlotsOfBindCol
<1>3. CASE Unbind BY <1>3, SlotsOfUnbind
<1>4. CASE \E d \in Descs : \E n \in 0..NumCols : SetCount(d, n) BY <1>4, SlotsOfSetCount
<1>5. CASE \E d \in Descs, c \in Cols :
             \/ \E t \in BindTypes : SetRecord(d, c, "type", t)
             \/ \E z \in BindSizes : SetRecord(d, c, "size", z)
             \/ SetRecord(d, c, "data", 0)
             \/ SetRecord(d, c, "ind", 0)
  <2>1. /\ \A t \in BindTypes : Fields("type", t)
        /\ \A v : Fields("size", v) /\ Fields("data", v) /\ Fields("ind", v)
    BY SizesAssumption DEF Fields
  <2> QED BY <1>5, <2>1, SlotsOfSetRecord
<1>6. CASE FreeDesc BY <1>6, SlotsOfFreeDesc
<1>7. CASE \E d \in Descs : \E s \in Descs : CopyDesc(s, d) BY <1>7, SlotsOfCopyDesc
<1>8. CASE Unbinding BY <1>8, SlotsUnchanged DEF Unbinding
<1>9. CASE \/ \E d \in Descs : Attach(d)
           \/ \E n \in RowsetSizes : SetRowset(n)
           \/ SetRetrieve \/ ExecuteAgain \/ CloseCursor \/ ExtendedFetch
           \/ FetchRow \/ FetchColumn \/ RowDone \/ NextRow \/ FetchEnds
           \/ \E k \in 1..NumRows : SetPosition(k)
           \/ getDataVars' = getDataVars
  <2>1. Unbinding
    BY <1>9 DEF Unbinding, Attach, SetRowset, SetRetrieve, ExecuteAgain, CloseCursor, ExtendedFetch,
      FetchRow, FetchColumn, RowDone, NextRow, FetchEnds, SetPosition, setupvars, getDataVars
  <2> QED BY <1>8, <2>1
<1>10. CASE \/ \E c \in Cols : \E t \in AskTypes, z \in BufSizes, i \in BOOLEAN :
                 GetDataCall(c, t, z, i)
            \/ GetDataGate \/ GetDataValue \/ GetDataSetup \/ GetDataResume
            \/ GetDataCopy \/ GetDataReturn
  <2>1. Unbinding
    BY <1>10 DEF Unbinding, GetDataCall, GetDataGate, GetDataValue, GetDataSetup, GetDataResume,
      GetDataCopy, GetDataReturn, setupvars
  <2> QED BY <1>8, <2>1
<1> QED BY <1>1, <1>2, <1>3, <1>4, <1>5, <1>6, <1>7, <1>9, <1>10 DEF GetDataNext

LEMMA CoreKept ==
  ASSUME PieceInv, PiecesPrudent, [GetDataNext]_getDataVars
  PROVE  Core'
<1> USE DEF PieceInv
<1>1. CASE \E c \in Cols : \/ \E b \in Bindings : BindCol(c, b)
                           \/ BindCol(c, Unbound)
  BY <1>1, BindColKeeps
<1>2. CASE \E c \in Cols : \E t \in AskTypes, z \in BufSizes, i \in BOOLEAN :
             GetDataCall(c, t, z, i)
  BY <1>2, GetDataCallKeeps
<1>3. CASE Unbind BY <1>3, UnbindKeeps
<1>4. CASE \/ \E d \in Descs :
                \/ \E n \in 0..NumCols : SetCount(d, n)
                \/ \E c \in Cols : \/ \E t \in BindTypes : SetRecord(d, c, "type", t)
                                   \/ \E z \in BindSizes : SetRecord(d, c, "size", z)
                                   \/ SetRecord(d, c, "data", 0)
                                   \/ SetRecord(d, c, "ind", 0)
                \/ Attach(d)
                \/ \E s \in Descs : CopyDesc(s, d)
           \/ FreeDesc
           \/ \E n \in RowsetSizes : SetRowset(n)
           \/ SetRetrieve
  <2>1. /\ "embedded" \in Descs /\ 1 \in Cols
        /\ 0..NumCols \subseteq Int /\ RowsetSizes \subseteq Int
    BY SizesAssumption DEF Descs, Cols
  <2>2. Described
    <3>1. \E d \in Descs, s \in Descs, c \in Cols, n \in Int : \E field, v :
            \/ SetCount(d, n) \/ SetRecord(d, c, field, v) \/ Attach(d)
            \/ CopyDesc(s, d) \/ FreeDesc \/ SetRowset(n) \/ SetRetrieve
      BY <1>4, <2>1
    <3> QED BY <3>1, Redescribed
  <2> QED BY <2>2, DescribedKeeps
<1>5. CASE ExecuteAgain BY <1>5, ExecuteAgainKeeps
<1>6. CASE CloseCursor BY <1>6, CloseCursorKeeps
<1>7. CASE ExtendedFetch BY <1>7, ExtendedFetchKeeps
<1>8. CASE FetchRow BY <1>8, FetchRowKeeps
<1>9. CASE FetchColumn BY <1>9, FetchColumnKeeps
<1>10. CASE RowDone BY <1>10, RowDoneKeeps
<1>11. CASE NextRow BY <1>11, NextRowKeeps
<1>12. CASE FetchEnds BY <1>12, FetchEndsKeeps
<1>13. CASE \E k \in 1..NumRows : SetPosition(k) BY <1>13, SetPositionKeeps
<1>14. CASE GetDataGate BY <1>14, GetDataGateKeeps
<1>15. CASE GetDataValue BY <1>15, GetDataValueKeeps
<1>16. CASE GetDataSetup BY <1>16, GetDataSetupKeeps
<1>17. CASE GetDataResume BY <1>17, GetDataResumeKeeps
<1>18. CASE GetDataCopy BY <1>18, GetDataCopyKeeps
<1>19. CASE GetDataReturn BY <1>19, GetDataReturnKeeps
<1>20. CASE getDataVars' = getDataVars
  BY <1>20 DEF Core, DataTypes, Within, Converting, Fetching, Swept, Follow, OnRow, Asking, Progress,
    Silent, Asked, IsText, Cutting, Later, Given, PiecesExact, Complete, getDataVars, setupvars, gvars,
    rowvars, callvars, fetchvars
<1> QED BY <1>1, <1>2, <1>3, <1>4, <1>5, <1>6, <1>7, <1>8, <1>9, <1>10, <1>11,
     <1>12, <1>13, <1>14, <1>15, <1>16, <1>17, <1>18, <1>19, <1>20
  DEF GetDataNext

LEMMA InitCounters == GetDataInit => Counters
BY DEF GetDataInit, Counters

LEMMA InitSlots == GetDataInit => Slots
<1>1. GetDataInit => /\ bindings = [d \in Descs |-> [c \in Cols |-> Empty]] BY DEF GetDataInit
<1> QED BY <1>1, EmptySlots DEF Slots

LEMMA InitCore == GetDataInit => Core
<1> SUFFICES ASSUME GetDataInit
             PROVE  Core
  OBVIOUS
<1>1. /\ ard = "embedded" /\ allocated = [d \in Descs |-> 0] /\ gcount = 0
      /\ gdata = [c \in Cols |-> FreshData] /\ at = [c \in Cols |-> NothingYet]
      /\ curr = 0 /\ lf = 1 /\ pc = "app"
      /\ args = NoCall /\ cc = "ok" /\ piece = NoPiece
  BY DEF GetDataInit
<1>2. NoPiece \in Pieces BY DEF NoPiece, Pieces, NoBuffer, Tags
<1>3. NoCall.col \in Cols /\ NoCall.type \in CTypes /\ NoCall.size \in Nat
  BY SizesAssumption DEF NoCall, Cols, CTypes, TextTypes
<1>4. DataTypes BY <1>1, <1>2, <1>3, FreshEntry, NothingIsShare DEF DataTypes, Descs
<1>5. Within BY <1>1, FreshEntry, NothingIsShare DEF Within, Converting
<1>6. ~OnRow /\ Silent BY <1>1 DEF OnRow, Silent
<1> QED BY <1>1, <1>4, <1>5, <1>6 DEF Core, Fetching, Follow, Progress, Asking

LEMMA Invariant ==
  ASSUME PiecesPrudent
  PROVE  GetDataSpec => []PieceInv
<1>1. GetDataInit => PieceInv BY InitCounters, InitSlots, InitCore DEF PieceInv
<1>2. PieceInv /\ [GetDataNext]_getDataVars => PieceInv'
  BY CountersKept, SlotsKept, CoreKept DEF PieceInv, Core
<1> QED BY <1>1, <1>2, PTL DEF GetDataSpec

(* Every piece SQLGetData hands out goes on where the one before it ended,  *)
(* in the row, the column and the type asked for, and a value is reported   *)
(* complete only when all of it was given, whatever the sizes of the        *)
(* buffers, the bindings and the rowsets in between.                       *)
THEOREM PiecesGoOn ==
  ASSUME PiecesPrudent
  PROVE  GetDataSpec => []PiecesExact
<1>1. PieceInv => PiecesExact
  <2>1. Core /\ pc = "return" => PiecesExact BY DEF Core, Progress
  <2>2. pc # "return" => PiecesExact BY DEF PiecesExact
  <2> QED BY <2>1, <2>2 DEF PieceInv
<1> QED BY <1>1, Invariant, PTL

(* Whatever application descriptor is attached, copied over or shrunk       *)
(* between the calls, a conversion finds its column in both arrays: that of *)
(* the bindings and that of the work area.                                 *)
EntriesExist ==
  /\ pc \in {"value", "setup", "resume", "copy"} =>
       args.col <= allocated[ard] /\ args.col <= gcount
  /\ pc = "column" /\ lf <= NumCols => lf <= allocated[ard] /\ lf <= gcount

THEOREM WithinArrays ==
  ASSUME PiecesPrudent
  PROVE  GetDataSpec => []EntriesExist
<1>1. PieceInv => EntriesExist
  <2> SUFFICES ASSUME Within, DataTypes
               PROVE  EntriesExist
    BY DEF PieceInv, Core
  <2>1. NumCols \in Nat /\ lf \in Int /\ gcount \in Int /\ allocated[ard] \in Int
    BY SizesAssumption DEF DataTypes
  <2> QED BY <2>1 DEF EntriesExist, Within, Converting
<1> QED BY <1>1, Invariant, PTL

--------------------
(* Where a piece is written.                                               *)

(* The binding location is on the first row of the rowset between calls,    *)
(* except after a row in error and past the end of the result.             *)
Stopped == start = NumRows + 1 /\ curr = NumRows + 1 /\ count = 0
AtItsPlace ==
  /\ pc = "app" => failed \/ bindRow = 0 \/ Stopped
  /\ Asking => bindRow = 0

LEMMA PlacedKept ==
  ASSUME Counters, AtItsPlace, PlacePrudent, [GetDataNext]_getDataVars
  PROVE  AtItsPlace'
<1> USE DEF AtItsPlace, Stopped, Asking
<1>1. CASE ExecuteAgain BY <1>1 DEF ExecuteAgain
<1>2. CASE CloseCursor BY <1>2 DEF CloseCursor
<1>3. CASE ExtendedFetch BY <1>3 DEF ExtendedFetch
<1>4. CASE FetchRow BY <1>4 DEF FetchRow
<1>5. CASE FetchColumn BY <1>5 DEF FetchColumn
<1>6. CASE RowDone BY <1>6 DEF RowDone
<1>7. CASE NextRow BY <1>7, Zenon DEF NextRow, EndRow
<1>8. CASE FetchEnds BY <1>8 DEF FetchEnds, EndRow
<1>9. CASE \E k \in 1..NumRows : SetPosition(k) BY <1>9 DEF SetPosition, fetchvars, Counters
<1>10. CASE \E c \in Cols : \E t \in AskTypes, z \in BufSizes, i \in BOOLEAN :
              GetDataCall(c, t, z, i)
  <2>1. /\ pc = "app" /\ pc' = "gate" /\ bindRow' = bindRow
        /\ ~failed /\ curr \in 1..NumRows
    BY <1>10 DEF GetDataCall, PlacePrudent, rowvars
  <2> QED BY <2>1, SizesAssumption
<1>11. CASE GetDataGate \/ GetDataValue \/ GetDataSetup \/ GetDataResume
            \/ GetDataCopy \/ GetDataReturn
  <2>1. bindRow' = bindRow /\ failed' = failed BY <1>11, AskingStays
  <2>2. bindRow = 0
    BY <1>11 DEF GetDataGate, GetDataValue, GetDataSetup, GetDataResume, GetDataCopy, GetDataReturn
  <2> QED BY <2>1, <2>2
<1>12. CASE UNCHANGED <<pc, failed, bindRow, start, count, curr>> BY <1>12
<1>13. CASE SetupCalls \/ getDataVars' = getDataVars
  BY <1>12, <1>13, SetupCallsStay DEF Stays, getDataVars, rowvars, fetchvars
<1> QED BY <1>1, <1>2, <1>3, <1>4, <1>5, <1>6, <1>7, <1>8, <1>9, <1>10, <1>11,
     <1>13
  DEF GetDataNext, SetupCalls

(* SQLGetData writes at the start of the application's buffer: the row of   *)
(* the bound arrays that the fetch of a rowset was filling is the first     *)
(* again whenever a value is handed out.                                   *)
THEOREM WrittenInPlace ==
  ASSUME PlacePrudent
  PROVE  GetDataSpec => []InPlace
<1>1. GetDataInit => Counters /\ AtItsPlace BY InitCounters DEF GetDataInit, AtItsPlace, Asking
<1>2. Counters /\ AtItsPlace /\ [GetDataNext]_getDataVars => (Counters /\ AtItsPlace)'
  BY CountersKept, PlacedKept
<1>3. Counters /\ AtItsPlace => InPlace BY DEF AtItsPlace, Asking, InPlace
<1> QED BY <1>1, <1>2, <1>3, PTL DEF GetDataSpec

=============================================================================
