------------------------------- MODULE Scroll -------------------------------
(***************************************************************************)
(* What SQLFetch, SQLFetchScroll and SQLExtendedFetch promise about an     *)
(* open result, with no cache and no server cursor in sight: the result is *)
(* the rows 1..n, the application stands at the start of a rowset, before  *)
(* the first row or after the last one, and a call moves it by the rule of *)
(* its orientation and delivers the rows that are there.                   *)
(*                                                                         *)
(* The rules are the driver's.  Where the ODBC standard would leave the    *)
(* application before the first row because the offset is larger than the  *)
(* rowset, the driver delivers the first rowset (it raises 01S06).  And a  *)
(* call that the server refuses need not fail: the driver may take it for  *)
(* the end of the data (Lose).                                             *)
(***************************************************************************)
EXTENDS Integers, Sequences

CONSTANTS
  MaxRows,        \* results have 0..MaxRows rows
  MaxSize         \* rowsets have 1..MaxSize rows

VARIABLES
  n,              \* the rows of the open result
  at,             \* the row the application stands at: 0 before the first one
  prev,           \* the size of the last rowset, 0 when it is forgotten
  rows,           \* the rows the last call delivered
  ok,             \* did the last call succeed?
  asked,          \* the call under way: orientation, offset and rowset size
  refused         \* did the server refuse a command of the call under way?

vars == <<n, at, prev, rows, ok, asked, refused>>

None == [o |-> "none", k |-> 0, size |-> 0]

Least(a, b) == IF a < b THEN a ELSE b

\* Where a call takes an application that stands at `at'.  From behind the end of
\* a result smaller than the rowset, backwards means the first rowset, unless the
\* end is not known yet.
Targets(o, k, size) ==
  CASE o = "next"     -> {IF at = 0 THEN 1 ELSE at + (IF prev > 0 THEN prev ELSE size)}
    [] o = "prior"    -> IF at <= 1 THEN {0}
                         ELSE IF at <= size THEN {1}
                         ELSE {at - size} \cup (IF at > n /\ size > n THEN {1} ELSE {})
    [] o = "first"    -> {1}
    [] o = "last"     -> {IF n = 0 THEN 0
                          ELSE IF n < size THEN 1 ELSE n - size + 1}
    [] o = "absolute" -> {IF k >= 0 THEN k
                          ELSE IF n = 0 THEN 0
                          ELSE IF -k > n THEN 1 ELSE n + 1 + k}
    [] o = "relative" -> {IF at = 0 /\ k <= 0 THEN (IF size = 1 THEN 0 ELSE 1)
                          ELSE IF k < 0 /\ at = 1 THEN 0
                          ELSE IF at + k < 1 THEN 1 ELSE at + k}
    [] o = "bookmark" -> {IF k < 1 THEN 0 ELSE k}

Open ==
  /\ asked = None
  /\ \E k \in 0..MaxRows : n' = k /\ at' = 0 /\ prev' = 0 /\ rows' = <<>> /\ ok' = TRUE
  /\ UNCHANGED <<asked, refused>>

Ask(o, k, size) ==
  /\ asked = None
  /\ asked' = [o |-> o, k |-> k, size |-> size] /\ refused' = FALSE
  /\ UNCHANGED <<n, at, prev, rows, ok>>

\* The server refuses a command of the call; the application sees nothing yet.
Refuse ==
  /\ asked # None /\ ~refused
  /\ refused' = TRUE
  /\ UNCHANGED <<n, at, prev, rows, ok, asked>>

\* Behind the end the application stands right behind the last row, or, while the
\* driver does not know the end, as far behind as the call went.  A call that
\* delivers nothing may forget the size of the rowset.
Fetch ==
  /\ asked # None /\ ~refused
  /\ \E a \in Targets(asked.o, asked.k, asked.size) :
       LET count == IF a = 0 \/ a > n THEN 0 ELSE Least(asked.size, n + 1 - a)
       IN /\ at' \in (IF a > n THEN {a, n + 1} ELSE {a})
          /\ rows' = [i \in 1..count |-> a + i - 1]
          /\ prev' \in (IF count = 0 THEN {0, asked.size} ELSE {asked.size})
  /\ ok' = TRUE /\ asked' = None /\ refused' = FALSE
  /\ UNCHANGED n

\* A call that was refused delivers nothing; nothing is promised about where the
\* application stands afterwards.
Unserved ==
  /\ asked # None /\ refused
  /\ rows' = <<>> /\ asked' = None /\ refused' = FALSE
  /\ at' \in Nat /\ prev' \in {0, asked.size}
  /\ UNCHANGED n

\* It fails, and the application knows.
Fail == Unserved /\ ok' = FALSE

\* It succeeds with no row: the application takes the rows that are left for lost.
Lose == Unserved /\ ok' = TRUE

Orientations == {"next", "prior", "first", "last", "absolute", "relative", "bookmark"}

Init == n = 0 /\ at = 0 /\ prev = 0 /\ rows = <<>> /\ ok = TRUE /\ asked = None /\ refused = FALSE

Next ==
  \/ Open
  \/ \E o \in Orientations, k \in -(MaxRows + 1)..(MaxRows + 1), size \in 1..MaxSize :
       Ask(o, k, size)
  \/ Refuse
  \/ Fetch
  \/ Fail
  \/ Lose

Spec == Init /\ [][Next]_vars
=============================================================================
