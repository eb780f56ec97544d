------------------------------ MODULE RowCache ------------------------------
(***************************************************************************)
(* The window of rows that a result keeps in memory (qresult.c) while the  *)
(* application scrolls over it (results.c, SC_fetch in statement.c).  With *)
(* use_declarefetch the rows stay in a cursor of the server: the driver    *)
(* fetches fetch_max of them at a time, remembers where the cursor stands  *)
(* (cursTuple), and moves it when the application leaves the window.       *)
(*                                                                         *)
(* Rows are the numbers 1..n.  Indices are the code's, from 0; -1 is before*)
(* the first row.  A call holds the locks of its statement and connection  *)
(* from beginning to end; its steps are the commands it sends and the rows *)
(* it reads.  The server may refuse a MOVE or a FETCH, and then refuses    *)
(* everything that is sent for this cursor.                                *)
(* Results with a keyset are the subject of module Keyset.                 *)
(***************************************************************************)
EXTENDS Integers, Sequences

CONSTANTS
  MaxRows,        \* results have 0..MaxRows rows
  MaxSize,        \* rowsets have 1..MaxSize rows (SQL_ATTR_ROW_ARRAY_SIZE)
  FetchMax,       \* the values of the Fetch option (drivers.fetch_max)
  INT_MAX,        \* the largest int: the rows of a result whose end was not seen yet
  Faulty,         \* may the server refuse a command?
  Risky           \* habits of the application that break a property

ASSUME SizeAssumption == MaxRows \in Nat /\ MaxSize \in Nat \ {0}
ASSUME FitsAssumption == INT_MAX \in Nat /\ INT_MAX > 2 * (MaxRows + MaxSize + 1)
ASSUME FetchAssumption == FetchMax \subseteq Nat \ {0}
ASSUME HabitAssumption == Faulty \in BOOLEAN /\ Risky \subseteq {"after_close", "refused_last", "last_in_window"}

VARIABLES
  stmt,           \* the fields of StatementClass that a fetch uses
  res,            \* the fields of QResultClass
  srv,            \* the cursor of the server: n rows, position pos in 0..n+1
  call,           \* the call that is running: its arguments and local variables
  seen            \* what the last call gave the application, and where it stands

vars == <<stmt, res, srv, call, seen>>

\* A bound on the model, not in the code: a dead cursor whose end is unknown lets
\* the application go on forward for ever.
FarEnough == MaxRows + MaxSize

Lesser(a, b) == IF a < b THEN a ELSE b

-----------------------------------------------------------------------------
(* The cursor of the server.                                               *)

\* FETCH k and MOVE k: the new position, and the number of rows passed over.
Forward(k) == [srv EXCEPT !.pos = Lesser(srv.n + 1, srv.pos + k)]
Passed(k)  == Lesser(k, IF srv.pos > srv.n THEN 0 ELSE srv.n - srv.pos)

\* MOVE BACKWARD k.
Backward(k)   == [srv EXCEPT !.pos = IF k > srv.pos THEN 0 ELSE srv.pos - k]
PassedBack(k) == Lesser(k, IF srv.pos = 0 THEN 0 ELSE srv.pos - 1)

-----------------------------------------------------------------------------
(* Helpers of the result.                                                  *)

QR_get_num_total_tuples == res.num_total_read

\* The row a cache index stands for; 0 is memory that holds no row.
CachedRow(r, i) ==
  IF i >= 0 /\ i < Len(r.cached) /\ r.dataFilled THEN r.cached[i + 1] ELSE 0

GIdx2CacheIdx(g) == g - (IF res.valid THEN stmt.rowset_start - res.base ELSE 0)

\* The row that SQLGetData reads when the statement is positioned on g.
GetDataRow(g) ==
  IF g < 0 \/ g >= QR_get_num_total_tuples THEN 0 ELSE CachedRow(res, GIdx2CacheIdx(g))

\* The index of the row after the window.
WindowEnd == Len(res.cached) + (IF res.valid THEN stmt.rowset_start - res.base ELSE 0)

\* SC_set_rowset_start keeps base, the rowset's place in the window, in step.
SC_set_rowset_start(start) ==
  /\ stmt' = [stmt EXCEPT !.rowset_start = start, !.currTuple = start - 1, !.save = -1]
  /\ res' = [res EXCEPT
       !.base = IF ~stmt.fetchcursor THEN start
                ELSE IF res.valid THEN @ + start - stmt.rowset_start
                ELSE IF start < 0 THEN -1 ELSE start,
       !.valid = TRUE, !.reqsize = call.size]

\* Without deleted rows getNthValid is arithmetic.  It answers the number of
\* rows found (negative: fewer than asked for) and the nearest one.
getNthValid(sta, orientation, nth) ==
  LET num == IF res.eof THEN QR_get_num_total_tuples ELSE INT_MAX IN
  IF orientation = "prior"
  THEN IF sta + 1 >= nth THEN [got |-> nth, nearest |-> sta + 1 - nth]
                         ELSE [got |-> -(sta + 1), nearest |-> -1]
  ELSE IF sta - 1 + nth < num THEN [got |-> nth, nearest |-> sta - 1 + nth]
                              ELSE [got |-> -(num - sta), nearest |-> num]

-----------------------------------------------------------------------------
(* Executing, and the end of a result.                                     *)

NoResult == [open |-> FALSE, cursor |-> FALSE, cached |-> <<>>, dataFilled |-> FALSE,
             num_total_read |-> 0, eof |-> FALSE, cursTuple |-> -1, base |-> 0,
             valid |-> FALSE, fetch_number |-> 0, reqsize |-> 0,
             moving |-> 0, move_offset |-> 0, chain |-> 0]

Idle == [pc |-> "idle", o |-> "next", k |-> 0, size |-> 1, rows |-> <<>>,
         refused |-> FALSE, prev |-> -1, offset |-> 0]

Nothing == [n |-> 0, at |-> 0, prev |-> 0, rows |-> <<>>, ok |-> TRUE]

\* SC_set_rowset_start(-1, FALSE) and currTuple = -1 for a new result.
Fresh(s) == [s EXCEPT !.rowset_start = -1, !.currTuple = -1]

\* A result of k rows: the first FETCH of its cursor, or all of it.
Answer(k, cursor, first) ==
  LET got   == IF cursor THEN Lesser(k, first) ELSE k
      short == cursor /\ got < first
  IN [NoResult EXCEPT !.open = TRUE, !.cursor = cursor, !.dataFilled = TRUE,
        !.cached = [i \in 1..got |-> i], !.num_total_read = got,
        !.eof = short \/ ~cursor,
        !.cursTuple = IF short THEN got ELSE IF cursor THEN got - 1 ELSE -1]

\* SC_execute of a SELECT: DECLARE and the first FETCH, or the whole answer; without
\* a cursor there may be a second result behind it.
Execute ==
  /\ call.pc = "idle" /\ ~res.open
  /\ \E k \in 0..MaxRows, cursor, forward \in BOOLEAN, f \in FetchMax, chain \in {0, 1} :
       /\ IF cursor THEN chain = 0 ELSE f = CHOOSE g \in FetchMax : TRUE
       /\ stmt' = [Fresh(stmt) EXCEPT !.fetchcursor = cursor, !.forward = forward, !.fetch_max = f]
       /\ res' = [Answer(k, cursor, f) EXCEPT !.chain = chain]
       /\ srv' = [n |-> k, pos |-> IF cursor THEN Lesser(f, k + 1) ELSE 0, alive |-> TRUE]
       /\ seen' = [Nothing EXCEPT !.n = k]
  /\ UNCHANGED call

\* SQLEndTran(SQL_ROLLBACK): CC_on_abort closes the cursor with QR_set_cursor(NULL).
Rollback ==
  /\ call.pc = "idle" /\ res.open /\ res.cursor
  /\ res' = [res EXCEPT !.cursor = FALSE, !.cursTuple = -1]
  /\ srv' = [srv EXCEPT !.alive = FALSE]
  /\ UNCHANGED <<stmt, call, seen>>

\* PGAPI_MoreResults: the next result of the chain, or the end of the execution.
PGAPI_MoreResults ==
  /\ call.pc = "idle" /\ res.open
  /\ stmt' = Fresh(stmt)
  /\ \/ /\ res.chain = 1
        /\ \E k \in 0..MaxRows :
             /\ res' = Answer(k, FALSE, 0)
             /\ srv' = [n |-> k, pos |-> 0, alive |-> TRUE]
             /\ seen' = [Nothing EXCEPT !.n = k]
     \/ /\ res.chain = 0
        /\ res' = NoResult
        /\ srv' = [n |-> 0, pos |-> 0, alive |-> FALSE]
        /\ seen' = Nothing
  /\ UNCHANGED call

-----------------------------------------------------------------------------
(* PGAPI_ExtendedFetch: the call, the orientation, the rowset.             *)

\* The call looks for the end with MOVE ALL, which leaves the window as it is.
MovesToLast(o, k) ==
  res.cursor /\ ~res.eof /\ (o = "last" \/ (o = "absolute" /\ k < 0))

\* The habits that are not in Risky.
Prudent(o, k, size) ==
  /\ (stmt.fetchcursor /\ ~res.cursor /\ ~srv.alive) => "after_close" \in Risky
  /\ MovesToLast(o, k) =>
       /\ "refused_last" \in Risky \/ srv.alive
       /\ "last_in_window" \in Risky
          \/ srv.n + (IF o = "last" THEN -size ELSE k) > WindowEnd

\* The beginning of PGAPI_ExtendedFetch.  The size of the previous rowset
\* (save_rowset_size) is taken and forgotten.
Begin(o, k, size) ==
  /\ call.pc = "idle" /\ res.open /\ stmt.rowset_start <= FarEnough
  /\ stmt.forward => o = "next"
  /\ Prudent(o, k, size)
  /\ call' = [Idle EXCEPT !.pc = IF MovesToLast(o, k) THEN "last" ELSE "position",
                          !.o = o, !.k = k, !.size = size, !.prev = stmt.save]
  /\ res' = [res EXCEPT !.moving = 0, !.move_offset = 0]
  /\ UNCHANGED <<stmt, srv, seen>>

SQLFetch(size) == Begin("next", 0, size)

SQLFetchScroll(o, k, size) == Begin(o, k, size)

\* The server refuses a command.  The error stays with the statement; what the call
\* returns is decided by where it came from.
Refused == ~srv.alive \/ Faulty

Refuse(pc) ==
  /\ srv' = [srv EXCEPT !.alive = FALSE]
  /\ call' = [call EXCEPT !.refused = TRUE, !.pc = pc]

\* QR_move_cursor_to_last.  The caller ignores its failure.
QR_move_cursor_to_last ==
  /\ call.pc = "last"
  /\ \/ LET moved == Passed(srv.n) + 1 IN
        /\ srv.alive
        /\ srv' = Forward(srv.n + 1)
        /\ res' = [res EXCEPT !.cursTuple = @ + moved, !.eof = TRUE,
                              !.num_total_read = res.cursTuple + moved]
        /\ call' = [call EXCEPT !.pc = "position"]
     \/ Refused /\ "refused_last" \in Risky /\ Refuse("position") /\ UNCHANGED res
  /\ UNCHANGED <<stmt, seen>>

BOF == -1

\* EXTFETCH_RETURN_BOF and EXTFETCH_RETURN_EOF: the call is over, and stands there.
NoRows(start) ==
  /\ SC_set_rowset_start(start)
  /\ call' = [call EXCEPT !.pc = "nodata"]

\* The number of rows as far as PGAPI_ExtendedFetch knows.
NumTuples == IF res.cursor /\ ~res.eof THEN INT_MAX ELSE QR_get_num_total_tuples

\* Nowhere before the result: far enough that a rowset cannot overlap with it.
Before == BOF - call.size

\* The nearest valid row, the first one when the offset reaches before the
\* beginning, or nowhere.
FromEnd(g) == IF g.got > 0 THEN g.nearest ELSE IF g.got = 0 THEN Before ELSE 0

FromStart(g) == IF g.got > 0 THEN g.nearest ELSE INT_MAX

NextStart ==
  IF stmt.rowset_start < 0 THEN 0
  ELSE stmt.rowset_start + (IF call.prev > 0 THEN call.prev ELSE call.size)

PriorStart ==
  LET s == stmt.rowset_start IN
  IF s <= 0 THEN Before
  ELSE IF (s >= NumTuples /\ call.size > NumTuples) \/ s < call.size THEN 0
  ELSE s - call.size

LastStart == FromEnd(getNthValid(QR_get_num_total_tuples - 1, "prior", call.size))

AbsoluteStart ==
  IF call.k = 0 THEN Before
  ELSE IF call.k > 0 THEN FromStart(getNthValid(0, "next", call.k))
  ELSE FromEnd(getNthValid(QR_get_num_total_tuples - 1, "prior", -call.k))

RelativeStart ==
  IF call.k = 0 THEN stmt.rowset_start
  ELSE IF call.k > 0 THEN FromStart(getNthValid(stmt.rowset_start + 1, "next", call.k))
  ELSE FromEnd(getNthValid(stmt.rowset_start - 1, "prior", -call.k))

\* The bookmark of row B, and an offset: they name row call.k.
BookmarkStart ==
  IF call.k >= 1 THEN FromStart(getNthValid(0, "next", call.k)) ELSE Before

\* The switch on the fetch orientation: the index of the first row of the rowset.
Target ==
  CASE call.o = "next"     -> NextStart
    [] call.o = "prior"    -> PriorStart
    [] call.o = "first"    -> 0
    [] call.o = "last"     -> LastStart
    [] call.o = "absolute" -> AbsoluteStart
    [] call.o = "relative" -> RelativeStart
    [] call.o = "bookmark" -> BookmarkStart

\* The checks after the switch: no rows there, or an overlap with the beginning.
Position ==
  LET num    == NumTuples
      target == Target
  IN /\ call.pc = "position"
     /\ \/ target >= num /\ NoRows(num)
        \/ target < 0 /\ target + call.size <= 0 /\ NoRows(BOF)
        \/ /\ target < num /\ (target >= 0 \/ target + call.size > 0)
           /\ SC_set_rowset_start(IF target < 0 THEN 0 ELSE target)
           /\ call' = [call EXCEPT !.pc = IF stmt.fetchcursor THEN "move" ELSE "row"]
     /\ UNCHANGED <<srv, seen>>

\* Whether the cursor must move before the rowset can be read.
move_cursor_position_if_needed ==
  LET d == stmt.currTuple - res.cursTuple IN
  /\ call.pc = "move"
  /\ res' = IF ~res.cursor THEN [res EXCEPT !.moving = 0, !.move_offset = 0]
            ELSE IF res.base >= 0 /\ res.base <= Len(res.cached)
            THEN [res EXCEPT !.fetch_number = res.base]
            ELSE [res EXCEPT !.moving = IF d > 0 THEN 1 ELSE IF d < 0 THEN -1 ELSE 0,
                             !.move_offset = IF d < 0 THEN -d ELSE d]
  /\ call' = [call EXCEPT !.pc = "row"]
  /\ UNCHANGED <<stmt, srv, seen>>

-----------------------------------------------------------------------------
(* SC_fetch and QR_next_tuple: one row of the rowset.                      *)

\* A row for the application: the next one, or the end of the call.
GotRow(row, c) ==
  /\ stmt' = [stmt EXCEPT !.currTuple = @ + 1]
  /\ call' = [c EXCEPT !.rows = Append(@, row),
                       !.pc = IF Len(c.rows) + 1 = c.size THEN "return" ELSE "row"]

\* SC_fetch at the end of the rows: a forward-only cursor is closed (QR_close).
NoRow(r) ==
  /\ res' = IF stmt.forward /\ r.eof /\ r.cursor
            THEN [r EXCEPT !.cursor = FALSE, !.cursTuple = -1] ELSE r
  /\ UNCHANGED stmt

\* SC_fetch from memory.
RowFromMemory ==
  /\ call.pc = "row" /\ ~res.cursor
  /\ IF stmt.currTuple >= QR_get_num_total_tuples - 1
     THEN /\ call' = [call EXCEPT !.pc = "return"]
          /\ stmt' = [stmt EXCEPT !.currTuple = QR_get_num_total_tuples]
     ELSE GotRow(CachedRow(res, GIdx2CacheIdx(stmt.currTuple + 1)), call)
  /\ UNCHANGED <<res, srv, seen>>

\* QR_next_tuple: the row is in the window; or it is past the known end.
RowFromWindow ==
  /\ call.pc = "row" /\ res.cursor /\ res.move_offset = 0
  /\ \/ /\ res.fetch_number < Len(res.cached)
        /\ GotRow(CachedRow(res, res.fetch_number), call)
        /\ res' = [res EXCEPT !.fetch_number = @ + 1]
     \/ /\ res.fetch_number >= Len(res.cached)
        /\ res.eof /\ stmt.currTuple + 1 >= QR_get_num_total_tuples
        /\ call' = [call EXCEPT !.pc = "return"]
        /\ NoRow(res)
  /\ UNCHANGED <<srv, seen>>

\* The number of rows that one FETCH of a new window asks for.
FetchSize == IF res.reqsize > stmt.fetch_max THEN res.reqsize ELSE stmt.fetch_max

\* A slip: the number that the server reports is taken for the distance.
MovedByReport(count, wide, back) == count

\* How far a MOVE went: the server counts the rows it passed, one less than it moved
\* when it ran over the first or the last one.
MovedBy(count, wide, back) ==
  LET curr_eof == res.eof /\ res.cursTuple >= res.num_total_read IN
  IF /\ count < wide
     /\ \/ count > 0
        \/ ~(back /\ res.cursTuple < 0) /\ ~(~back /\ curr_eof)
  THEN count + 1 ELSE count

\* A slip: the rowset is expected at the front of the new window.
OffsetFront(moved, back) == 0

\* Where the rowset is in the window that the next FETCH will bring.
OffsetAfter(moved, back) ==
  IF back THEN moved - res.move_offset ELSE res.move_offset - moved

\* The MOVE of QR_next_tuple.  Backwards it goes further than asked for, so that
\* the FETCH that follows fills the window with rows before the rowset too.  A refused
\* MOVE is answered with -1, which SC_fetch takes for the end of the rows.
MoveCursor ==
  LET back   == res.moving = -1
      wide   == IF back /\ FetchSize > res.reqsize
                THEN Lesser(res.move_offset + FetchSize - res.reqsize, res.cursTuple + 1)
                ELSE res.move_offset
      count  == IF back THEN PassedBack(wide) ELSE Passed(wide)
      moved  == MovedBy(count, wide, back)
      short  == count < wide /\ ~back
  IN /\ call.pc = "row" /\ res.cursor /\ res.move_offset # 0
     /\ \/ /\ srv.alive
           /\ srv' = IF back THEN Backward(wide) ELSE Forward(wide)
           /\ res' = [res EXCEPT
                !.num_total_read = IF short /\ ~res.eof THEN res.cursTuple + moved ELSE @,
                !.eof       = @ \/ short,
                !.cursTuple = IF back THEN @ - moved ELSE @ + moved,
                !.base = -1, !.move_offset = 0]
           /\ call' = [call EXCEPT !.pc = "fill", !.offset = OffsetAfter(moved, back)]
           /\ UNCHANGED stmt
        \/ Refused /\ Refuse("return") /\ NoRow(res)
     /\ UNCHANGED seen

\* QR_next_tuple runs out of the window.
WindowEmpty ==
  /\ call.pc = "row" /\ res.cursor /\ res.move_offset = 0
  /\ res.fetch_number >= Len(res.cached)
  /\ ~(res.eof /\ stmt.currTuple + 1 >= QR_get_num_total_tuples)
  /\ call' = [call EXCEPT !.pc = "fill", !.offset = 0]
  /\ UNCHANGED <<stmt, res, srv, seen>>

\* The window before the FETCH: a new one, or the old one to be extended.
Anew == res.base >= Len(res.cached) \/ res.moving # 0

\* A slip: base is not set to the rowset's place.
ReadyUnset ==
  IF Anew
  THEN [res EXCEPT !.dataFilled = FALSE, !.moving = 0, !.move_offset = 0, !.cached = <<>>,
                   !.fetch_number = call.offset + 1]
  ELSE [res EXCEPT !.fetch_number = @ + 1]

Ready ==
  IF Anew
  THEN [res EXCEPT !.dataFilled = FALSE, !.moving = 0, !.move_offset = 0, !.cached = <<>>,
                   !.fetch_number = call.offset + 1, !.base = call.offset]
  ELSE [res EXCEPT !.fetch_number = @ + 1]

\* Append the rows of the answer and advance cursTuple with each of them.
QR_read_tuples_from_pgres(r, got) ==
  [r EXCEPT !.cached = @ \o [i \in 1..got |-> srv.pos + i], !.dataFilled = TRUE,
            !.cursTuple = @ + got,
            !.num_total_read = IF got > 0 /\ r.cursTuple + got >= @
                               THEN r.cursTuple + got + 1 ELSE @]

\* The end is recognised by an answer shorter than what was asked for.
QR_from_PGresult(r, size) ==
  LET t     == QR_read_tuples_from_pgres(r, Passed(size))
      read  == IF ~t.eof /\ t.cursTuple >= t.num_total_read THEN t.cursTuple + 1
               ELSE t.num_total_read
      short == Passed(size) < size
  IN [t EXCEPT !.num_total_read = read, !.eof = @ \/ short,
               !.cursTuple = IF short /\ @ < read THEN read ELSE @]

\* The FETCH of QR_next_tuple: a new window, or the rest of a rowset that
\* starts in this one.
Refill ==
  LET size == IF Anew THEN FetchSize ELSE res.reqsize + res.base - Len(res.cached)
      offs == IF Anew THEN call.offset ELSE res.fetch_number
      full == QR_from_PGresult(Ready, size)
  IN /\ call.pc = "fill"
     /\ \/ /\ size > 0 /\ srv.alive
           /\ srv' = Forward(size)
           /\ \/ offs < Len(full.cached) /\ res' = full /\ GotRow(CachedRow(full, offs), call)
              \/ /\ offs >= Len(full.cached) /\ NoRow(full)
                 /\ call' = [call EXCEPT !.pc = "return"]
        \/ /\ size <= 0 /\ NoRow(res) /\ UNCHANGED srv
           /\ call' = [call EXCEPT !.pc = "return"]
        \/ size > 0 /\ Refused /\ Refuse("error") /\ res' = Ready /\ UNCHANGED stmt
     /\ UNCHANGED seen

\* The end of the call: what the application sees.  Without a row the call tells the
\* end of the data, after a refused MOVE too.  An error leaves the rowset where it is and
\* its size forgotten.
Return ==
  /\ call.pc \in {"return", "nodata", "error"}
  /\ stmt' = CASE call.pc = "return" -> [stmt EXCEPT !.save = call.size,
                                                     !.currTuple = stmt.rowset_start]
               [] call.pc = "nodata" -> [stmt EXCEPT !.currTuple = -1]
               [] call.pc = "error"  -> stmt
  /\ LET given == IF call.pc = "return" THEN call.rows ELSE <<>> IN
     seen' = [n |-> srv.n, rows |-> given, ok |-> call.pc # "error",
              at |-> stmt.rowset_start + 1,
              prev |-> IF call.pc = "return" THEN call.size ELSE 0]
  /\ call' = Idle
  /\ UNCHANGED <<res, srv>>

-----------------------------------------------------------------------------

Orientations == {"next", "prior", "first", "last", "absolute", "relative", "bookmark"}

Offsets(o) == CASE o \in {"absolute", "relative"} -> -(MaxRows + 1)..(MaxRows + 1)
                [] o = "bookmark" -> 0..(MaxRows + 1)
                [] OTHER -> {0}

Init ==
  /\ stmt = [rowset_start |-> -1, currTuple |-> -1, save |-> -1, fetchcursor |-> FALSE,
             forward |-> FALSE, fetch_max |-> 1]
  /\ res = NoResult
  /\ srv = [n |-> 0, pos |-> 0, alive |-> FALSE]
  /\ call = Idle
  /\ seen = Nothing

Next ==
  \/ Execute \/ Rollback \/ PGAPI_MoreResults
  \/ \E size \in 1..MaxSize : SQLFetch(size)
  \/ \E o \in Orientations, size \in 1..MaxSize : \E k \in Offsets(o) : SQLFetchScroll(o, k, size)
  \/ QR_move_cursor_to_last \/ Position \/ move_cursor_position_if_needed
  \/ RowFromMemory \/ RowFromWindow \/ MoveCursor \/ WindowEmpty \/ Refill \/ Return

Spec == Init /\ [][Next]_vars

-----------------------------------------------------------------------------
(* Properties.                                                             *)

\* The types of the indices; the window never holds more rows than there are.
TypeOK ==
  /\ stmt.rowset_start \in -1..INT_MAX /\ stmt.currTuple \in -2..INT_MAX
  /\ Len(res.cached) <= MaxRows
  /\ res.num_total_read \in 0..(MaxRows + 1)
  /\ res.cursTuple \in -1..MaxRows
  /\ srv.pos \in 0..(srv.n + 1)

\* While the cursor lives, the driver's picture of it is true: cursTuple is the server's
\* position whatever was moved, fetched short or moved past an end, and the end,
\* once seen, is the end (num_total_read).
CursorKnown ==
  /\ (res.cursor /\ srv.alive) => res.cursTuple = srv.pos - 1
  /\ (res.open /\ res.eof /\ srv.alive) => res.num_total_read = srv.n

\* SQLGetData and SQLSetPos reach the rows of the rowset that was delivered: each one
\* is in memory where GIdx2CacheIdx looks for it.
RowsetCached ==
  (call.pc = "idle" /\ seen.ok) =>
    \A i \in 1..Len(seen.rows) :
      GetDataRow(stmt.rowset_start + i - 1) = seen.rows[i]

\* The call under way, as Scroll knows it.
asked ==
  IF call.pc = "idle" THEN [o |-> "none", k |-> 0, size |-> 0]
  ELSE [o |-> call.o, k |-> call.k, size |-> call.size]

scroll == INSTANCE Scroll WITH
  n <- seen.n, at <- seen.at, prev <- seen.prev, rows <- seen.rows, ok <- seen.ok,
  refused <- call.refused

\* The window never makes a difference: every step of PGAPI_ExtendedFetch, SC_fetch and
\* QR_next_tuple is a step of Scroll or invisible.  Only a call whose own command was
\* refused fails, or (qresult.c:1068) tells the end of the data with rows left.
Transparent == scroll!Spec
=============================================================================
