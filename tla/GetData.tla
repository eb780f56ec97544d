------------------------------ MODULE GetData ------------------------------
(***************************************************************************)
(* The columns of a statement: the bindings of its application row         *)
(* descriptor (ARD), the work area SQLGetData keeps per column, the fetch  *)
(* of a rowset into bound columns, and SQLGetData, which hands a long value *)
(* out in pieces (bind.c, convert.c, results.c, statement.c, pgapi30.c,    *)
(* descriptor.c).                                                          *)
(*                                                                         *)
(* Two arrays that the code keeps apart have to agree: ARDFields.bindings, *)
(* which belongs to a descriptor and may be shared, swapped, shrunk or     *)
(* copied over, and GetDataInfo.gdata, which belongs to the statement and  *)
(* follows the descriptor's length at the next use.                        *)
(*                                                                         *)
(* A value is its length in characters; a piece of it is the row, column   *)
(* and type it was converted for and the bytes it covers.  The state space *)
(* is finite but for the calls that change bindings: MaxSetups bounds them. *)
(***************************************************************************)
EXTENDS Integers, FiniteSets

CONSTANTS NumCols,    \* the columns of the result
          NumRows,    \* its rows
          Length,     \* Length[r][c]: characters of the value, Null for NULL
          Converted,  \* columns whose text always changes (line feeds, code page)
          BufSizes,   \* the cbValueMax of SQLGetData
          BindTypes,  \* the C types an application binds
          BindSizes,  \* and the sizes of the bound buffers
          AskTypes,   \* the C types SQLGetData is called with
          RowsetSizes,
          MaxSetups,
          RiskyGets   \* the calls the driver answers wrongly that may happen

Null == -1
WCLEN == 2
TextTypes == {"char", "wchar", "binary"}
CTypes == TextTypes \cup {"fixed", "unsupported"}
Cols == 1..NumCols
Descs == {"embedded", "explicit"}

ASSUME SizesAssumption ==
  /\ NumCols \in Nat \ {0} /\ NumRows \in Nat /\ MaxSetups \in Nat
  /\ BufSizes \cup BindSizes \subseteq Nat /\ RowsetSizes \subseteq Nat \ {0}
  /\ \A r \in 1..NumRows, c \in Cols : Length[r][c] \in Nat \cup {Null}
  /\ BindTypes \subseteq CTypes /\ AskTypes \subseteq CTypes \cup {"ard"}
  /\ Converted \subseteq Cols

VARIABLES
  ard,       \* stmt->ard: the descriptor in force
  defined,   \* deschd.type_defined of each descriptor
  allocated, \* ARDFields.allocated
  bindings,  \* ARDFields.bindings
  rowset,    \* ARDFields.size_of_rowset
  gcount,    \* GetDataInfo.allocated
  gdata,     \* GetDataInfo.gdata
  retrieve,  \* options.retrieve_data
  executed,  \* status STMT_FINISHED with a result
  start,     \* rowset_start (1-based; 0 before the first fetch)
  count,     \* last_fetch_count
  curr,      \* currTuple (1-based)
  bindRow,   \* bind_row: which row of the bound arrays is written
  pc, lf,    \* where the running call is, and its column
  args,      \* the arguments of SQLGetData
  cc,        \* the COPY_xxx outcome
  piece,     \* what SQLGetData wrote
  answer,    \* the outcome of the fetch so far
  failed,    \* a column could not be converted; kept after a fetch in error
  at,        \* what the application has of each value of the current row
  setups

setupvars == <<ard, defined, allocated, bindings, rowset, setups>>
gvars == <<gcount, gdata>>
rowvars == <<executed, start, count, curr, bindRow, retrieve>>
callvars == <<args, cc, piece>>
fetchvars == <<lf, answer, failed>>
getDataVars == <<setupvars, gvars, rowvars, callvars, fetchvars, pc, at>>

NoBuffer == [row |-> 0, col |-> 0, type |-> "none"]
(* create_empty_bindings leaves returntype as malloc returned it.          *)
Empty == [on |-> FALSE, type |-> "junk", size |-> 0, ind |-> FALSE]
Unbound == [Empty EXCEPT !.type = "char"]
FreshData == [left |-> -1, buf |-> NoBuffer, buflen |-> 0, used |-> 0]
Reset(g) == [g EXCEPT !.left = -1]
NothingYet == [n |-> 0, type |-> "none"]
NoPiece == [tag |-> NoBuffer, from |-> 0, n |-> 0, need |-> 0]
NoCall == [col |-> 1, type |-> "char", size |-> 0, ind |-> FALSE]

(* get_terminator_len and get_adjust_len.                                  *)
Terminator(t) == CASE t = "wchar" -> WCLEN [] t = "binary" -> 0 [] OTHER -> 1
Adjust(t, n) == IF t = "wchar" THEN (n \div WCLEN) * WCLEN ELSE n
Bytes(r, c, t) == IF t = "wchar" THEN WCLEN * Length[r][c] ELSE Length[r][c]
Larger(m, n) == IF m > n THEN m ELSE n

---------------------------------------------------------------------------
(* The arrays.                                                             *)

(* extend_column_bindings: old entries are copied, new ones are empty.     *)
Extended(d, n) == Larger(allocated[d], n)

(* extend_getdata_info: grown with empty entries, or shrunk with the work   *)
(* of the columns cut off thrown away.                                     *)
GrownTo(n, shrink) == IF gcount < n \/ shrink THEN n ELSE gcount
EntriesFor(n, shrink) ==
  [c \in Cols |-> IF c > GrownTo(n, shrink) THEN FreshData ELSE gdata[c]]

(* column_bindings_set, with reset_a_column_binding for the entries cut.   *)
CountSet(n, maxset, old) == IF n > old \/ ~maxset THEN n ELSE old
SetCountTo(d, n, maxset) ==
  LET m == CountSet(n, maxset, allocated[d])
  IN /\ allocated' = [allocated EXCEPT ![d] = m]
     /\ bindings' = [bindings EXCEPT ![d] =
                       [c \in Cols |-> IF c > m THEN Empty ELSE @[c]]]

GetDataInit ==
  /\ ard = "embedded" /\ defined = [d \in Descs |-> d = "embedded"]
  /\ allocated = [d \in Descs |-> 0]
  /\ bindings = [d \in Descs |-> [c \in Cols |-> Empty]]
  /\ rowset = [d \in Descs |-> 1]
  /\ gcount = 0 /\ gdata = [c \in Cols |-> FreshData]
  /\ retrieve = TRUE /\ executed = FALSE
  /\ start = 0 /\ count = 0 /\ curr = 0 /\ bindRow = 0
  /\ pc = "app" /\ lf = 1 /\ args = NoCall /\ cc = "ok" /\ piece = NoPiece
  /\ answer = "ok" /\ failed = FALSE
  /\ at = [c \in Cols |-> NothingYet]
  /\ setups = 0

---------------------------------------------------------------------------
(* Calls that change the bindings.                                         *)

Setup == /\ pc = "app" /\ setups < MaxSetups /\ setups' = setups + 1

(* A value already begun keeps its place only while its column stays within *)
(* the descriptor in force.                                                *)
KeepsBegun(n) ==
  \/ "shrink" \in RiskyGets
  \/ \A c \in Cols : at[c].type # "none" => c <= n

(* SQLBindCol of a column; a null address takes the binding away.          *)
BindCol(c, b) ==
  /\ Setup
  /\ allocated' = [allocated EXCEPT ![ard] = Extended(ard, c)]
  /\ gcount' = GrownTo(c, FALSE)
  /\ bindings' = [bindings EXCEPT ![ard][c] = b]
  /\ gdata' = [EntriesFor(c, FALSE) EXCEPT
                 ![c] = IF b.on THEN Reset(@) ELSE FreshData]
  /\ at' = [at EXCEPT ![c] = NothingYet]
  /\ UNCHANGED <<ard, defined, rowset, rowvars, callvars, fetchvars, pc>>

(* SQLFreeStmt(SQL_UNBIND): SC_unbind_cols.                                *)
Unbind ==
  /\ Setup
  /\ bindings' = [bindings EXCEPT ![ard] =
                    [c \in Cols |-> IF c <= allocated[ard] THEN Unbound ELSE @[c]]]
  /\ gdata' = [c \in Cols |-> FreshData]
  /\ at' = [c \in Cols |-> NothingYet]
  /\ UNCHANGED <<ard, defined, allocated, rowset, gcount, rowvars, callvars,
                 fetchvars, pc>>

(* PGAPI_SetDescField refuses a descriptor that has no type yet.            *)
Settable(d) == defined[d]

(* SQLSetDescField(SQL_DESC_COUNT) of a row descriptor.                    *)
SetCount(d, n) ==
  /\ Setup /\ Settable(d)
  /\ d = ard => KeepsBegun(n)
  /\ SetCountTo(d, n, FALSE)
  /\ UNCHANGED <<ard, defined, rowset, gvars, rowvars, callvars, fetchvars, pc, at>>

(* Any field of a record but the three addresses also clears the data      *)
(* address: the column is bound again only by a later SQL_DESC_DATA_PTR.   *)
SetRecord(d, c, field, v) ==
  /\ Setup /\ Settable(d)
  /\ \/ /\ field = "type"
        /\ allocated' = [allocated EXCEPT ![d] = Extended(d, c)]
     \/ /\ field # "type" /\ c <= allocated[d]
        /\ UNCHANGED allocated
  /\ bindings' = [bindings EXCEPT ![d][c] =
       CASE field = "type" -> [@ EXCEPT !.type = v, !.on = FALSE]
         [] field = "size" -> [@ EXCEPT !.size = v, !.on = FALSE]
         [] field = "data" -> [@ EXCEPT !.on = TRUE]
         [] field = "ind"  -> [@ EXCEPT !.ind = TRUE]]
  /\ UNCHANGED <<ard, defined, rowset, gvars, rowvars, callvars, fetchvars, pc, at>>

(* SQLSetStmtAttr(SQL_ATTR_APP_ROW_DESC).                                  *)
Attach(d) ==
  /\ Setup /\ d # ard
  /\ KeepsBegun(allocated[d])
  /\ ard' = d
  /\ UNCHANGED <<defined, allocated, bindings, rowset, gvars, rowvars, callvars,
                 fetchvars, pc, at>>

(* SQLFreeHandle of the explicit descriptor: the statement falls back on   *)
(* its own; the next explicit one is new and has no type yet.              *)
FreeDesc ==
  /\ Setup
  /\ ard = "explicit" => KeepsBegun(allocated["embedded"])
  /\ ard' = "embedded"
  /\ defined' = [defined EXCEPT !["explicit"] = FALSE]
  /\ allocated' = [allocated EXCEPT !["explicit"] = 0]
  /\ bindings' = [bindings EXCEPT !["explicit"] = [c \in Cols |-> Empty]]
  /\ rowset' = [rowset EXCEPT !["explicit"] = 1]
  /\ UNCHANGED <<gvars, rowvars, callvars, fetchvars, pc, at>>

(* The bindings of a descriptor, the first n of them copied from s.         *)
ARDFields_copy(s, n) == [c \in Cols |-> IF c > n THEN Empty ELSE bindings[s][c]]

(* SQLCopyDesc: the target is destroyed before the source is read, so a    *)
(* descriptor copied onto itself ends up with no binding.                  *)
CopyDesc(s, d) ==
  /\ Setup /\ defined[s]
  /\ LET n == IF s = d THEN 0 ELSE allocated[s]
     IN /\ d = ard => KeepsBegun(n)
        /\ allocated' = [allocated EXCEPT ![d] = n]
        /\ bindings' = [bindings EXCEPT ![d] = ARDFields_copy(s, n)]
        /\ rowset' = [rowset EXCEPT ![d] = rowset[s]]
        /\ defined' = [defined EXCEPT ![d] = TRUE]
  /\ UNCHANGED <<ard, gvars, rowvars, callvars, fetchvars, pc, at>>

(* SQLSetStmtAttr(SQL_ATTR_ROW_ARRAY_SIZE), or the field of the descriptor. *)
SetRowset(n) ==
  /\ Setup /\ rowset' = [rowset EXCEPT ![ard] = n]
  /\ UNCHANGED <<ard, defined, allocated, bindings, gvars, rowvars, callvars,
                 fetchvars, pc, at>>

(* SQLSetStmtAttr(SQL_ATTR_RETRIEVE_DATA).                                 *)
SetRetrieve ==
  /\ Setup /\ retrieve' = ~retrieve
  /\ UNCHANGED <<ard, defined, allocated, bindings, rowset, gvars, executed, start,
                 count, curr, bindRow, callvars, fetchvars, pc, at>>

---------------------------------------------------------------------------
(* Executing and fetching.                                                 *)

(* The statement is executed again: SC_execute extends the bindings to the *)
(* result's columns and puts the cursor before the first row.              *)
ExecuteAgain ==
  /\ pc = "app" /\ ~executed
  /\ executed' = TRUE
  /\ allocated' = [allocated EXCEPT ![ard] = Extended(ard, NumCols)]
  /\ start' = 0 /\ curr' = 0 /\ count' = 0 /\ bindRow' = 0
  /\ at' = [c \in Cols |-> NothingYet]
  /\ UNCHANGED <<ard, defined, bindings, rowset, setups, gvars, retrieve, callvars,
                 lf, answer, pc>>
  /\ failed' = FALSE

CloseCursor ==
  /\ pc = "app" /\ executed
  /\ executed' = FALSE /\ start' = 0 /\ curr' = 0 /\ count' = 0 /\ bindRow' = 0
  /\ UNCHANGED <<retrieve, setupvars, gvars, callvars, fetchvars, pc, at>>

(* SQLFetch and SQLFetchScroll(SQL_FETCH_NEXT) of a rowset: refused while  *)
(* the descriptor has no array.  With retrieve_data off SC_fetch returns    *)
(* before it resets the work area of SQLGetData: the value of the row left  *)
(* goes on in the next one.                                                *)
ExtendedFetch ==
  LET next == IF start = 0 THEN 1 ELSE start + count
  IN /\ pc = "app" /\ executed /\ allocated[ard] > 0
     /\ "rd_off" \in RiskyGets \/ retrieve \/ \A c \in Cols : gdata[c].left = -1
     /\ at' = [c \in Cols |-> NothingYet] /\ failed' = FALSE
     /\ IF next > NumRows
        THEN /\ pc' = "app"
             /\ start' = NumRows + 1 /\ curr' = NumRows + 1 /\ count' = 0
             /\ UNCHANGED bindRow
        ELSE /\ pc' = "row" /\ start' = next /\ curr' = next - 1
             /\ count' = 0 /\ bindRow' = 0
     /\ UNCHANGED <<executed, retrieve, setupvars, gvars, callvars, lf, answer>>

(* SC_fetch up to its loop over the columns: the row is reached, the two    *)
(* arrays are brought to the same length.                                  *)
FetchRow ==
  /\ pc = "row"
  /\ IF curr >= NumRows
     THEN /\ pc' = "fetched" /\ curr' = NumRows + 1
          /\ UNCHANGED <<lf, allocated, gcount, gdata>>
     ELSE /\ curr' = curr + 1 /\ lf' = 1
          /\ IF retrieve
             THEN /\ pc' = "column"
                  /\ allocated' = [allocated EXCEPT ![ard] = Extended(ard, NumCols)]
                  /\ gcount' = Extended(ard, NumCols)
                  /\ gdata' = EntriesFor(Extended(ard, NumCols), TRUE)
             ELSE /\ pc' = "rowdone"
                  /\ UNCHANGED <<allocated, gcount, gdata>>
  /\ UNCHANGED <<ard, defined, bindings, rowset, setups, executed, start,
                 count, bindRow, retrieve, callvars, answer, failed, at>>

(* A NULL needs an indicator; the types of fixed size are converted in one  *)
(* go or not at all.                                                       *)
NullOutcome(ind) == IF ind THEN "ok" ELSE "error"
FixedOutcome(t) == IF t = "unsupported" THEN "unsupported" ELSE "ok"

(* What copy_and_convert_field makes of a value for a bound column.        *)
BoundOutcome(b, t) ==
  CASE Length[curr][lf] = Null -> NullOutcome(b.ind)
    [] Length[curr][lf] # Null /\ t \notin TextTypes -> FixedOutcome(t)
    [] OTHER -> IF b.size = 0 \/ Bytes(curr, lf, t) + Terminator(t) > b.size
                THEN "truncated" ELSE "ok"

(* The result of the row so far: a later truncation hides an earlier error. *)
RowResult(old, outcome) == CASE outcome = "ok" -> old
                             [] outcome = "truncated" -> "info"
                             [] OTHER -> "error"

(* One column of SC_fetch: its SQLGetData state is reset and, when bound,   *)
(* the value is converted; the work area of bound columns (GetDataInfo.fdata) *)
(* starts afresh for each value, so nothing of it lasts.                   *)
FetchColumn ==
  /\ pc = "column" /\ lf <= NumCols
  /\ gdata' = [gdata EXCEPT ![lf] = Reset(@)]
  /\ LET b == bindings[ard][lf]
     IN \E t \in IF b.type = "junk" THEN CTypes ELSE {b.type} :
          LET o == IF b.on THEN BoundOutcome(b, t) ELSE "ok"
          IN /\ answer' = RowResult(answer, o)
             /\ failed' = (failed \/ o \notin {"ok", "truncated"})
  /\ lf' = lf + 1
  /\ UNCHANGED <<setupvars, gcount, rowvars, callvars, pc, at>>

RowDone ==
  /\ pc = "column" /\ lf > NumCols
  /\ pc' = "rowdone"
  /\ UNCHANGED <<setupvars, gvars, rowvars, callvars, fetchvars, at>>

(* The loop over the rowset: a row in error ends it at once, past the      *)
(* place that puts the binding location back to the first row.             *)
RowsetGoesOn == bindRow + 1 < rowset[ard]
EndRow(b) ==
  /\ bindRow' = b
  /\ pc' = "app" /\ lf' = 1 /\ answer' = "ok" /\ failed' = (answer = "error")
NextRowStays ==
  /\ pc = "rowdone"
  /\ count' = IF answer = "error" THEN 1 ELSE bindRow + 1
  /\ IF answer = "error"
     THEN EndRow(bindRow) /\ UNCHANGED curr
     ELSE IF RowsetGoesOn
          THEN bindRow' = bindRow + 1 /\ pc' = "row" /\ UNCHANGED <<curr, fetchvars>>
          ELSE EndRow(bindRow) /\ curr' = start
  /\ UNCHANGED <<setupvars, gvars, executed, start, retrieve, callvars, at>>
NextRow ==
  /\ pc = "rowdone"
  /\ count' = IF answer = "error" THEN 1 ELSE bindRow + 1
  /\ IF answer = "error"
     THEN EndRow(bindRow) /\ UNCHANGED curr
     ELSE IF RowsetGoesOn
          THEN bindRow' = bindRow + 1 /\ pc' = "row" /\ UNCHANGED <<curr, fetchvars>>
          ELSE EndRow(0) /\ curr' = start
  /\ UNCHANGED <<setupvars, gvars, executed, start, retrieve, callvars, at>>

(* The result ended inside the rowset.                                     *)
FetchEnds ==
  /\ pc = "fetched"
  /\ EndRow(0)
  /\ curr' = start
  /\ UNCHANGED <<setupvars, gvars, executed, start, count, retrieve, callvars,
                 at>>

(* SQLSetPos(SQL_POSITION): every column starts again.                     *)
SetPosition(k) ==
  /\ pc = "app" /\ executed /\ k \in 1..count
  /\ gdata' = [c \in Cols |-> Reset(gdata[c])]
  /\ curr' = start + k - 1
  /\ at' = [c \in Cols |-> NothingYet]
  /\ UNCHANGED <<setupvars, gcount, executed, start, count, retrieve, bindRow,
                 callvars, fetchvars, pc>>

---------------------------------------------------------------------------
(* SQLGetData.                                                             *)

(* The call, refused off a row.  Three uses of it go wrong and are made     *)
(* only when Risky names them: after a fetch that ended in error (the      *)
(* binding location may be left on a later row), with another type in the  *)
(* middle of a value, and with an empty buffer in the middle of a value.   *)
(* The address of the indicator matters to a NULL only.                    *)
GetDataCall(c, t, z, i) ==
  /\ pc = "app" /\ executed /\ curr \in 1..NumRows
  /\ ~failed \/ "row_error" \in RiskyGets
  /\ i \/ Length[curr][c] = Null
  /\ z > 0 \/ gdata[c].left <= 0 \/ "probe" \in RiskyGets
  /\ t = "ard" => c <= allocated[ard]
  /\ \E ty \in IF t # "ard" THEN {t}
               ELSE IF bindings[ard][c].type = "junk" THEN CTypes
               ELSE {bindings[ard][c].type} :
        /\ at[c].type \in {"none", ty} \/ "retype" \in RiskyGets
        /\ args' = [col |-> c, type |-> ty, size |-> z, ind |-> i]
  /\ pc' = "gate"
  /\ UNCHANGED <<setupvars, gvars, rowvars, cc, piece, fetchvars, at>>

(* An entry whose value was handed out answers NO_DATA; asked again with    *)
(* an empty buffer it starts over.                                         *)
AtEnd(g) == [g EXCEPT !.left = -2, !.buf = NoBuffer, !.buflen = 0, !.used = 0]
Left(g) == IF g.left = -2 THEN IF args.size > 0 THEN 0 ELSE -1 ELSE g.left

(* copy_and_convert_field before it looks at the value: the column must be *)
(* in the descriptor's array, and the work area follows its length.        *)
GetDataGate ==
  LET c == args.col
      E == EntriesFor(allocated[ard], TRUE)
  IN /\ pc = "gate"
     /\ IF c > allocated[ard]
        THEN /\ cc' = "unrecognized" /\ pc' = "return"
             /\ UNCHANGED <<gcount, gdata, at>>
        ELSE /\ gcount' = allocated[ard]
             /\ IF Left(E[c]) = 0
                THEN /\ gdata' = [E EXCEPT ![c] = AtEnd(@)]
                     /\ cc' = "nodata" /\ pc' = "return"
                     /\ UNCHANGED at
                ELSE /\ gdata' = [E EXCEPT ![c].left = Left(E[c])]
                     /\ pc' = "value"
                     /\ at' = IF E[c].left = -2 THEN [at EXCEPT ![c] = NothingYet] ELSE at
                     /\ UNCHANGED cc
     /\ UNCHANGED <<setupvars, rowvars, args, piece, fetchvars>>

(* A NULL only sets the indicator, a fixed type is converted in one go, a   *)
(* text type goes on to its pieces.                                        *)
GetDataValue ==
  LET null == Length[curr][args.col] = Null
      text == ~null /\ args.type \in TextTypes
  IN /\ pc = "value"
     /\ cc' = IF null THEN NullOutcome(args.ind)
              ELSE IF text THEN cc ELSE FixedOutcome(args.type)
     /\ gdata' = IF ~null /\ args.type = "fixed"
                 THEN [gdata EXCEPT ![args.col].left = 0] ELSE gdata
     /\ pc' = IF ~text THEN "return"
              ELSE IF gdata[args.col].left < 0 THEN "setup" ELSE "resume"
     /\ UNCHANGED <<setupvars, gcount, rowvars, args, piece, fetchvars, at>>

(* setup_getdataclass: an empty buffer is told the length only; the value   *)
(* is kept in the work area when its text changes or does not fit.         *)
GetDataSetup ==
  LET c == args.col
      len == Bytes(curr, c, args.type)
      need == len + Terminator(args.type)
      kept == [row |-> curr, col |-> c, type |-> args.type]
      changed == args.type = "wchar" \/ c \in Converted
      old == IF gdata[c].buf = NoBuffer THEN 0 ELSE gdata[c].buflen
  IN /\ pc = "setup"
     /\ IF args.size = 0
        THEN /\ cc' = "truncated" /\ pc' = "return"
             /\ UNCHANGED <<gdata, piece>>
        ELSE /\ gdata' = [gdata EXCEPT ![c] =
                 IF changed \/ need > args.size
                 THEN [left |-> len, buf |-> kept, buflen |-> Larger(old, need),
                       used |-> len]
                 ELSE [FreshData EXCEPT !.left = len]]
             /\ piece' = [tag |-> kept, from |-> 0, n |-> len, need |-> need]
             /\ pc' = "copy" /\ UNCHANGED cc
     /\ UNCHANGED <<setupvars, gcount, rowvars, args, fetchvars, at>>

(* The rest of a value begun: what is left of the work area, whoever filled *)
(* it.                                                                     *)
RestSlipped(g) == [tag |-> g.buf, from |-> 0, n |-> g.left,
                   need |-> g.left + (g.buflen - g.used)]
Rest(g) == [tag |-> g.buf, from |-> g.used - g.left, n |-> g.left,
            need |-> g.left + (g.buflen - g.used)]
GetDataResume ==
  /\ pc = "resume"
  /\ piece' = Rest(gdata[args.col])
  /\ pc' = "copy"
  /\ UNCHANGED <<setupvars, gvars, rowvars, args, cc, fetchvars, at>>

(* How many bytes go to the buffer, leaving room for the terminator, and    *)
(* whether the rest stays for a later call.                                *)
CopyLength ==
  LET z == args.size
      t == Terminator(args.type)
  IN IF t >= z THEN 0
     ELSE IF piece.n + t > z THEN Adjust(args.type, z - t) ELSE piece.n
MoreToComeShort(z, need) == z > 0 /\ need - Terminator(args.type) > z
MoreToCome(z, need) == z > 0 /\ need > z
Copied(more, n) ==
  IF more THEN [gdata EXCEPT ![args.col].left = @ - n]
  ELSE [gdata EXCEPT ![args.col] = [FreshData EXCEPT !.left = 0]]
GetDataCopy ==
  LET n == CopyLength
      more == MoreToCome(args.size, piece.need)
  IN /\ pc = "copy"
     /\ piece' = [piece EXCEPT !.n = n]
     /\ gdata' = Copied(more, n)
     /\ cc' = IF more THEN "truncated" ELSE "ok"
     /\ pc' = "return"
     /\ UNCHANGED <<setupvars, gcount, rowvars, args, fetchvars, at>>

(* SQLGetData returns: truncation is success with information, an outcome   *)
(* the caller does not know is an error.                                   *)
GetDataReturn ==
  LET c == args.col
      given == cc \in {"ok", "truncated"} /\ Length[curr][c] # Null
  IN /\ pc = "return" /\ pc' = "app"
     /\ at' = IF given /\ (args.size > 0 \/ cc = "ok")
              THEN [at EXCEPT ![c] = [n |-> @.n + piece.n, type |-> args.type]] ELSE at
     /\ args' = NoCall /\ cc' = "ok" /\ piece' = NoPiece
     /\ UNCHANGED <<setupvars, gvars, rowvars, fetchvars>>

Bindings == [on : {TRUE}, type : BindTypes, size : BindSizes, ind : BOOLEAN]

GetDataNext ==
  \/ \E c \in Cols : \/ \E b \in Bindings : BindCol(c, b)
                     \/ BindCol(c, Unbound)
                     \/ \E t \in AskTypes, z \in BufSizes, i \in BOOLEAN :
                           GetDataCall(c, t, z, i)
  \/ Unbind
  \/ \E d \in Descs : \/ \E n \in 0..NumCols : SetCount(d, n)
                      \/ \E c \in Cols : \/ \E t \in BindTypes : SetRecord(d, c, "type", t)
                                         \/ \E z \in BindSizes : SetRecord(d, c, "size", z)
                                         \/ SetRecord(d, c, "data", 0)
                                         \/ SetRecord(d, c, "ind", 0)
                      \/ Attach(d)
                      \/ \E s \in Descs : CopyDesc(s, d)
  \/ FreeDesc
  \/ \E n \in RowsetSizes : SetRowset(n)
  \/ SetRetrieve
  \/ ExecuteAgain \/ CloseCursor \/ ExtendedFetch
  \/ FetchRow \/ FetchColumn \/ RowDone \/ NextRow \/ FetchEnds
  \/ \E k \in 1..NumRows : SetPosition(k)
  \/ GetDataGate \/ GetDataValue \/ GetDataSetup \/ GetDataResume \/ GetDataCopy
  \/ GetDataReturn

GetDataSpec == GetDataInit /\ [][GetDataNext]_getDataVars

---------------------------------------------------------------------------
(* Properties.                                                             *)

(* The two arrays stay in their bounds, and a call that has passed the      *)
(* check of the descriptor's length has an entry of the work area.         *)
GetDataTypeOK ==
  /\ ard \in Descs
  /\ allocated \in [Descs -> 0..NumCols] /\ gcount \in 0..NumCols
  /\ \A c \in Cols : gdata[c].left \in -2..gdata[c].used \cup {0} \cup 0..16
  /\ pc \in {"value", "setup", "resume", "copy"} => args.col <= gcount
  /\ pc = "column" /\ lf <= NumCols => lf <= gcount /\ lf <= allocated[ard]
  /\ at \in [Cols -> [n : 0..16, type : CTypes \cup {"none"}]]

(* Neither success nor NO_DATA is answered while a part of the value is left. *)
Complete ==
    /\ cc = "ok" /\ args.type \in TextTypes =>
         at[args.col].n + piece.n = Bytes(curr, args.col, args.type)
    /\ cc = "nodata" =>
         \/ at[args.col].type = "fixed"
         \/ at[args.col].n = Bytes(curr, args.col, at[args.col].type)

(* Every piece SQLGetData writes belongs to the column and the row the      *)
(* cursor is on, in the type asked for, and goes on exactly where the piece *)
(* before it ended: no byte twice, none skipped, none of another row.  A    *)
(* value is reported complete, by success or by NO_DATA, only when the      *)
(* application has been given all of it.                                   *)
PiecesExact ==
  /\ pc = "return" /\ piece # NoPiece =>
       /\ piece.tag = [row |-> curr, col |-> args.col, type |-> args.type]
       /\ piece.from = at[args.col].n
  /\ pc = "return" /\ Length[curr][args.col] # Null => Complete

(* SQLGetData writes at the start of the buffer it is given: the binding    *)
(* location that the fetch of a rowset moves is back on its first row.     *)
InPlace == pc = "return" /\ cc \in {"ok", "truncated"} => bindRow = 0

=============================================================================
