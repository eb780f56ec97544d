------------------------------- MODULE ColInfo -------------------------------
(***************************************************************************)
(* The cache of table definitions (COL_INFO of connection.h, parse.c): a   *)
(* connection keeps what SQLColumns said of each table; the TABLE_INFOs    *)
(* of its statements point into the cache and are counted.  The parser     *)
(* asks for the tables of a FROM list by name, SQLColAttribute for the     *)
(* table of a result column by oid.  At COLI_RECYCLE entries the one used  *)
(* least recently makes room, a DROP or ALTER TABLE empties the cache.     *)
(*                                                                         *)
(* A definition is the oid of a table and the version of its columns.  The *)
(* queries on the catalog are steps of their own: the other statements of  *)
(* the connection, which other threads may use, go on meanwhile.  Between  *)
(* two queries the cache is taken to be touched by one thread at a time.   *)
(***************************************************************************)
EXTENDS Integers, Sequences, FiniteSets, SequencesExt

CONSTANTS
  Tables,         \* names of tables; all are in the current schema
  TempTables,     \* those of a pg_temp_ schema
  Stmts,
  Queries,        \* the FROM lists of the queries
  COLI_INCR, COLI_RECYCLE,
  MaxEntries,     \* a bound on the entries alive at a time
  MaxTables,      \* a bound on the TABLE_INFOs of a statement
  MaxChanges,     \* a bound on the changes of definitions
  MaxTime,        \* how many times of use are told apart
  None,
  Risky           \* circumstances in which a property does not hold

ASSUME SizeAssumption ==
  /\ COLI_INCR \in Nat \ {0} /\ COLI_RECYCLE \in Nat \ {0}
  /\ MaxEntries \in Nat /\ MaxChanges \in Nat /\ MaxTables \in Nat /\ MaxTime \in Nat \ {0}
ASSUME TempAssumption == TempTables \subseteq Tables
ASSUME QueriesAssumption == \A q \in Queries : q \in Seq(Tables) /\ Len(q) \in 1 .. MaxTables
ASSUME NamesAssumption == IsFiniteSet(Stmts) /\ None \notin Tables
ASSUME RiskyAssumption ==
  Risky \subseteq {"used_after_drop", "identity", "unnoticed_change", "parallel_ddl",
                   "parallel_asks"}

Structs == 1 .. MaxEntries
\* A table keeps its name and oid; its definition is a version and 0 is none,
\* after a DROP TABLE.
Versions == 0 .. MaxChanges + 1

VARIABLES
  srv,            \* the server: the version of each table's columns
  changes,        \* how often they changed
  ent,            \* the COL_INFO structs
  arr,            \* conn->col_info, the first ntables of it
  allocated,      \* conn->coli_allocated
  ti,             \* the TABLE_INFOs of each statement
  stm             \* each statement: what it executed and where it is

colInfoVars == <<srv, changes, ent, arr, allocated, ti, stm>>

NoEntry == [live |-> FALSE, table |-> None, ver |-> 0, refcnt |-> 0, acc_time |-> 0]
\* free_col_info_contents: the struct stays.
Freed == [NoEntry EXCEPT !.live = TRUE]
\* A TABLE_INFO of the parser knows its name; its oid comes with the answer.
TI_Constructor(t) == [table |-> t, known |-> FALSE, coli |-> 0, colatt |-> FALSE]
Released0 == [pc |-> "idle", query |-> << >>, parsed |-> FALSE, k |-> 0, colatt |-> FALSE, byoid |-> FALSE, got |-> 0]
AtRest(r) == [r EXCEPT !.pc = "idle", !.k = 0, !.colatt = FALSE, !.byoid = FALSE]

ColInfoInit ==
  /\ srv = [t \in Tables |-> 1] /\ changes = 0
  /\ ent = [e \in Structs |-> NoEntry]
  /\ arr = << >> /\ allocated = 0
  /\ ti = [s \in Stmts |-> << >>]
  /\ stm = [s \in Stmts |-> Released0]

\* The TABLE_INFOs of all statements that point to entry e.
Refs(e) == {r \in Stmts \X (1 .. MaxTables) : r[2] \in DOMAIN ti[r[1]] /\ ti[r[1]][r[2]].coli = e}

ColInfoTypeOK ==
  /\ srv \in [Tables -> Versions] /\ changes \in 0 .. MaxChanges
  /\ \A e \in Structs : ent[e].refcnt \in 0 .. MaxTables * Cardinality(Stmts) /\ ent[e].acc_time \in 0 .. MaxTime
  /\ \A i \in DOMAIN arr : ent[arr[i]].live
  /\ Len(arr) <= allocated
  /\ \A s \in Stmts : Len(ti[s]) <= MaxTables /\ stm[s].k \in 0 .. Len(ti[s])

-----------------------------------------------------------------------------
(* Releasing.                                                              *)

\* An entry after a reference to it went: contents without a reference are
\* freed when the entry is out of the cache (acc_time = 0).  The struct of
\* such an entry is lost; here it may be used again.
\* slip: contents are freed only by the cache.
UnreferencedKept(c, n) == [c EXCEPT !.refcnt = @ - n]
Unreferenced(c, n) ==
  IF c.refcnt - n <= 0 /\ c.acc_time = 0 THEN NoEntry ELSE [c EXCEPT !.refcnt = @ - n]

\* The entries when all TABLE_INFOs of the statements ss are destroyed.
Released(ss) ==
  [e \in Structs |->
     LET n == Cardinality({r \in Refs(e) : r[1] \in ss})
     IN IF n = 0 THEN ent[e]
        ELSE IF e \in ToSet(arr) /\ ent[e].refcnt - n <= 0 /\ ent[e].acc_time = 0 THEN Freed
        ELSE Unreferenced(ent[e], n)]

TI_Destructor(s) == ti' = [ti EXCEPT ![s] = << >>] /\ ent' = Released({s})

\* SC_initialize_cols_info: a new statement text, SQLFreeStmt(SQL_DROP), the
\* next result of several.
SC_initialize_cols_info(s) ==
  /\ stm[s].pc = "idle" /\ ti[s] # << >>
  /\ TI_Destructor(s)
  /\ stm' = [stm EXCEPT ![s] = Released0]
  /\ UNCHANGED <<srv, changes, arr, allocated>>

\* A slip: entries in use stay in the cache.
CC_clear_col_infoKept ==
  /\ arr' = SelectSeq(arr, LAMBDA e : ent[e].refcnt > 0)
  /\ ent' = [e \in Structs |-> IF e \notin ToSet(arr) THEN ent[e]
                               ELSE IF ent[e].refcnt = 0 THEN NoEntry ELSE [ent[e] EXCEPT !.acc_time = 0]]

\* CC_clear_col_info: unreferenced entries are freed, the others leave the
\* cache and are freed with their last reference.
CC_clear_col_info ==
  /\ arr' = << >>
  /\ ent' = [e \in Structs |-> IF e \notin ToSet(arr) THEN ent[e]
                               ELSE IF ent[e].refcnt = 0 THEN NoEntry ELSE [ent[e] EXCEPT !.acc_time = 0]]

\* CC_cleanup at SQLDisconnect: the statements go first, then the cache with
\* its array.
CC_cleanup ==
  /\ \A s \in Stmts : stm[s].pc = "idle"
  /\ arr # << >>
  /\ ti' = [s \in Stmts |-> << >>]
  /\ stm' = [s \in Stmts |-> Released0]
  /\ ent' = [e \in Structs |-> IF e \in ToSet(arr) THEN NoEntry ELSE Released(Stmts)[e]]
  /\ arr' = << >> /\ allocated' = 0
  /\ UNCHANGED <<srv, changes>>

-----------------------------------------------------------------------------
(* What changes the definitions.                                           *)

\* An ALTER TABLE (ver # 0) or DROP TABLE of this connection: CC_send_query
\* sees the command tag; not while another statement has an answer of the
\* catalog ("parallel_ddl").  A change by another session, by the rollback of
\* an ALTER TABLE or by DROP SCHEMA has no such tag ("unnoticed_change").
ChangeTable(t, ver, noticed) ==
  /\ changes < MaxChanges /\ changes' = changes + 1
  /\ \A s \in Stmts : stm[s].pc \in {"idle", "ask"} \/ ("parallel_ddl" \in Risky /\ stm[s].pc = "store")
  /\ srv[t] # 0 /\ srv' = [srv EXCEPT ![t] = ver]
  /\ noticed \/ "unnoticed_change" \in Risky
  /\ IF noticed THEN CC_clear_col_info ELSE UNCHANGED <<ent, arr>>
  /\ UNCHANGED <<allocated, ti, stm>>

-----------------------------------------------------------------------------
(* The statements.                                                         *)

\* The first entry of the cache for a table.
Cached(t) == {i \in DOMAIN arr : ent[arr[i]].table = t /\ \A j \in 1 .. i - 1 : ent[arr[j]].table # t}

\* A query is executed; its result has the columns of now.  A statement that
\* was prepared keeps its TABLE_INFOs, any other gives them back
\* (SC_recycle_statement).  @@identity in its text looks the table of the last
\* INSERT up with a TABLE_INFO on the stack; the reference it takes is never
\* given back ("identity").
Execute(s, q, prepared, identity) ==
  /\ stm[s].pc = "idle"
  /\ \A i \in DOMAIN q : srv[q[i]] # 0
  /\ prepared => stm[s].query = q
  /\ identity = None \/ "identity" \in Risky
  /\ ti' = IF prepared THEN ti ELSE [ti EXCEPT ![s] = << >>]
  /\ LET kept == IF prepared THEN ent ELSE Released({s})
         at   == IF identity = None THEN {} ELSE {arr[i] : i \in Cached(identity)}
     IN ent' = [e \in Structs |-> IF e \in at THEN [kept[e] EXCEPT !.refcnt = @ + 1] ELSE kept[e]]
  /\ stm' = [stm EXCEPT ![s] = [(IF prepared THEN @ ELSE Released0) EXCEPT !.query = q]]
  /\ UNCHANGED <<srv, changes, arr, allocated>>

\* parse_statement: a TABLE_INFO for every table of the FROM list, after the
\* old ones were given back.
parse_statement(s) ==
  /\ stm[s].pc = "idle" /\ stm[s].query # << >> /\ ~stm[s].parsed
  /\ ti' = [ti EXCEPT ![s] = [i \in DOMAIN stm[s].query |-> TI_Constructor(stm[s].query[i])]]
  /\ ent' = Released({s})
  /\ stm' = [stm EXCEPT ![s] = [@ EXCEPT !.pc = "look", !.k = 1, !.colatt = FALSE, !.parsed = TRUE]]
  /\ UNCHANGED <<srv, changes, arr, allocated>>

\* SC_describe_ok for SQLColAttribute: the table of a column of the result,
\* by its oid.  A TABLE_INFO of that oid is used, else one is added.
SC_describe_ok(s, t) ==
  /\ stm[s].pc = "idle" /\ t \in ToSet(stm[s].query)
  /\ LET mine == {i \in DOMAIN ti[s] : ti[s][i].table = t /\ ti[s][i].known}
         at   == IF mine = {} THEN Len(ti[s]) + 1 ELSE CHOOSE i \in mine : \A j \in mine : i <= j
     IN /\ at <= MaxTables
        /\ ti' = IF mine = {} THEN [ti EXCEPT ![s] = Append(@, [TI_Constructor(t) EXCEPT !.known = TRUE])] ELSE ti
        /\ ("used_after_drop" \in Risky \/ mine = {} \/ ti[s][at].coli \in ToSet(arr) \cup {0}) = TRUE
        /\ stm' = [stm EXCEPT ![s] = [@ EXCEPT !.pc = "look", !.k = at, !.colatt = TRUE]]
  /\ UNCHANGED <<srv, changes, ent, arr, allocated>>

Wti(s) == ti[s][stm[s].k]

\* A TABLE_INFO gets an entry; it has its oid from now on.
Points(s, e) == ti' = [ti EXCEPT ![s][stm[s].k] = [@ EXCEPT !.coli = e, !.known = TRUE]]

\* The other statements that are asking for the same table.
Asking(s) == {o \in Stmts \ {s} : stm[o].pc \in {"ask", "store"} /\ Wti(o).table = Wti(s).table}

\* getCOLIfromTI: the entry the TABLE_INFO has, or one of the cache, by oid or
\* (getCOLIfromTable) by name; else the catalog is asked.  Two statements
\* that ask at a time, one of them by oid, fill one entry twice and the first
\* one's reference is forgotten ("parallel_asks"); by name each gets its own.
getCOLIfromTI(s) ==
  /\ stm[s].pc = "look"
  /\ \/ /\ Wti(s).coli # 0
        /\ stm' = [stm EXCEPT ![s].pc = "found"]
        /\ UNCHANGED <<ent, ti>>
     \/ /\ Wti(s).coli = 0
        /\ \E i \in Cached(Wti(s).table) :
             /\ ent' = [ent EXCEPT ![arr[i]].refcnt = @ + 1]
             /\ Points(s, arr[i])
        /\ stm' = [stm EXCEPT ![s].pc = "found"]
     \/ /\ Wti(s).coli = 0 /\ Cached(Wti(s).table) = {}
        /\ (Wti(s).known \/ \E o \in Asking(s) : stm[o].byoid) => Asking(s) = {} \/ "parallel_asks" \in Risky
        /\ stm' = [stm EXCEPT ![s] = [@ EXCEPT !.pc = "ask", !.byoid = Wti(s).known]]
        /\ UNCHANGED <<ent, ti>>
  /\ UNCHANGED <<srv, changes, arr, allocated>>

\* PGAPI_Columns by an internal statement.  It may fail, or find no table.
AskColumns(s) ==
  /\ stm[s].pc = "ask"
  /\ \/ srv[Wti(s).table] # 0
        /\ stm' = [stm EXCEPT ![s] = [@ EXCEPT !.pc = "store", !.got = srv[Wti(s).table]]]
     \/ stm' = [stm EXCEPT ![s].pc = "missing"]
  /\ UNCHANGED <<srv, changes, ent, arr, allocated, ti>>

\* The parser gives up (STMT_PARSE_FATAL) and its TABLE_INFOs back;
\* SQLColAttribute goes without.
ColumnsMissing(s) ==
  /\ stm[s].pc = "missing"
  /\ IF stm[s].colatt THEN UNCHANGED <<ti, ent>> ELSE TI_Destructor(s)
  /\ stm' = [stm EXCEPT ![s] = AtRest(@)]
  /\ UNCHANGED <<srv, changes, arr, allocated>>

\* The entry getColumnsInfo reuses: that of the same oid whatever its
\* references, else an unreferenced one that is empty or of a temporary table,
\* else, in a full cache, the unreferenced one used least recently.
\* slip: references are not looked at.
ReusableAny(i) == TRUE
Reusable(i) == ent[arr[i]].refcnt <= 0
Recycled(s) ==
  LET same  == IF stm[s].byoid THEN Cached(Wti(s).table) ELSE {}
      idle  == {i \in DOMAIN arr : Reusable(i) /\ ent[arr[i]].table \in TempTables \cup {None}}
      least == {i \in DOMAIN arr : Reusable(i) /\ Len(arr) >= COLI_RECYCLE
                  /\ \A j \in DOMAIN arr : Reusable(j) => ent[arr[i]].acc_time <= ent[arr[j]].acc_time}
  IN IF same # {} THEN same ELSE IF idle # {} THEN idle ELSE least

\* The rest of getColumnsInfo: the entry is freed, if it is an old one, and
\* filled, with the one reference of this TABLE_INFO.  A new one may need a
\* larger array.
NewEntry(s) == [live |-> TRUE, table |-> Wti(s).table, ver |-> stm[s].got, refcnt |-> 1, acc_time |-> 0]
Grown(n) == IF n < allocated THEN allocated ELSE IF allocated * 2 <= n THEN COLI_INCR ELSE allocated * 2

getColumnsInfo(s) ==
  /\ stm[s].pc = "store"
  /\ LET old == Recycled(s) IN
     IF old # {}
     THEN LET i == CHOOSE j \in old : \A k \in old : j <= k IN
          /\ ent' = [ent EXCEPT ![arr[i]] = NewEntry(s)]
          /\ Points(s, arr[i])
          /\ UNCHANGED <<arr, allocated>>
     ELSE \E e \in Structs :
          /\ ~ent[e].live /\ \A f \in 1 .. e - 1 : ent[f].live
          /\ ent' = [ent EXCEPT ![e] = NewEntry(s)]
          /\ Points(s, e)
          /\ arr' = Append(arr, e)
          /\ allocated' = Grown(Len(arr))
  /\ stm' = [stm EXCEPT ![s] = [@ EXCEPT !.pc = "found", !.got = 0, !.byoid = FALSE]]
  /\ UNCHANGED <<srv, changes>>

\* ColAttSet: the columns of the result are looked up in the entry; one that
\* is not there, since the table changed after the entry was made, has the
\* catalog asked again.  It is done once per TABLE_INFO.
ColAttSet(s) ==
  /\ stm[s].pc = "found" /\ stm[s].colatt /\ ~Wti(s).colatt
  /\ ti' = [ti EXCEPT ![s][stm[s].k].colatt = TRUE]
  /\ \/ UNCHANGED stm
     \/ /\ ent[Wti(s).coli].ver # srv[Wti(s).table]
        /\ stm' = [stm EXCEPT ![s] = [@ EXCEPT !.pc = "ask", !.byoid = TRUE]]
  /\ UNCHANGED <<srv, changes, ent, arr, allocated>>

\* The time of the use is that of the statement, the second of its first use,
\* and so any.  The parser goes on with the next table.
Used(s) ==
  /\ stm[s].pc = "found" /\ (stm[s].colatt => Wti(s).colatt)
  /\ \E time \in 1 .. MaxTime : ent' = [ent EXCEPT ![Wti(s).coli].acc_time = time]
  /\ stm' = [stm EXCEPT ![s] = IF @.colatt \/ @.k = Len(ti[s]) THEN AtRest(@) ELSE [stm[s] EXCEPT !.pc = "look", !.k = stm[s].k + 1]]
  /\ UNCHANGED <<srv, changes, arr, allocated, ti>>

-----------------------------------------------------------------------------
Lookup(s) == getCOLIfromTI(s) \/ AskColumns(s) \/ ColumnsMissing(s) \/ getColumnsInfo(s) \/ ColAttSet(s) \/ Used(s)

ColInfoNext ==
  \/ \E s \in Stmts :
       \/ Lookup(s) \/ SC_initialize_cols_info(s) \/ parse_statement(s)
       \/ \E q \in Queries, p \in BOOLEAN, t \in Tables \cup {None} : Execute(s, q, p, t)
       \/ \E t \in Tables : SC_describe_ok(s, t)
  \/ \E t \in Tables, ver \in {0, changes + 2}, noticed \in BOOLEAN : ChangeTable(t, ver, noticed)
  \/ CC_cleanup

ColInfoSpec == ColInfoInit /\ [][ColInfoNext]_colInfoVars

-----------------------------------------------------------------------------
(* Properties.                                                             *)

\* What a statement's TABLE_INFO points to is the description of its own
\* table, as long as it points there: no entry is freed or given to another
\* table while the reference counts of getCOLIfromTI and TI_Destructor hold it.
OwnTable ==
  \A s \in Stmts : \A i \in DOMAIN ti[s] :
    LET e == ti[s][i].coli IN e # 0 => ent[e].live /\ ent[e].table = ti[s][i].table /\ ent[e].refcnt > 0

\* A statement never gets a definition that an earlier DROP or ALTER TABLE of
\* this connection outdated, from the cache or from an entry that outlived it.
Fresh ==
  [][\A s \in Stmts : \A i \in DOMAIN ti'[s] :
       LET e == ti'[s][i].coli IN
       e # 0 /\ (i \notin DOMAIN ti[s] \/ ti[s][i].coli # e) => ent'[e].ver = srv[ent'[e].table]]_colInfoVars

\* Every definition that is kept is in the cache or in use by a statement, so
\* that an entry which left the cache goes with its last TABLE_INFO.
NoneLost ==
  \A e \in Structs : ent[e].live => e \in ToSet(arr) \/ Refs(e) # {}
==============================================================================
