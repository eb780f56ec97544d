-------------------------- MODULE Execution_proofs --------------------------
(***************************************************************************)
(* Statements that execute many rows. StmtExec, for arrays of any size,    *)
(* any number of parameters, any settings and any bindings: each execution *)
(* sends the right rows, with their own values, asks for the right number  *)
(* of parameters, and tells the truth about every row. BulkOps, in the     *)
(* last part: a bulk operation runs each row of the rowset once, through   *)
(* delegates of its own.                                                   *)
(***************************************************************************)
EXTENDS StmtExec, BulkOps, FiniteSetTheorems, TLAPS

\* The habits that break a property are not in Risky.
RowsPrudent == {"end_row", "direct_after_cancel"} \cap Risky = {}
DataPrudent == {"batch_dae", "null_in_batch"} \cap Risky = {}

Running == call # "none" /\ phase = "exec"
Passing == call # "none" /\ phase = "next"
Asking  == call = "none" /\ odbc \in Waiting

StmtFields == {"status", "prepare", "prepared", "row", "endRow", "dae", "cep", "put",
               "flagged", "bufs"}

\* The types of what the proofs need, with any habits: exec_current_row may then run
\* one past the arrays.
StmtFits(s) ==
  /\ s = [f \in StmtFields |-> s[f]]
  /\ s.row \in 0..(MaxRows + 1) /\ s.endRow \in 0..(MaxRows + 1)
  /\ s.dae \in -1..NumParams /\ s.cep \in 0..NumParams
  /\ s.flagged \in SUBSET Params /\ s.bufs \in [Params -> 0..MaxRows]
  /\ s.status \in {"ALLOCATED", "READY", "DESCRIBED", "FINISHED", "EXECUTING"}
  /\ s.prepare \in BOOLEAN /\ s.prepared \in BOOLEAN /\ s.put \in BOOLEAN

ApdFits(b) ==
  /\ b \in Arrays /\ b.size \in Rows /\ b.ignored \subseteq 1..b.size
  /\ b.daeOf \in [Rows -> SUBSET Params] /\ b.nullOf \in [Rows -> SUBSET Params]
  /\ \A r \in Rows : b.daeOf[r] \cap b.nullOf[r] = {}

Fits ==
  /\ StmtFits(stmt) /\ ApdFits(apd) /\ bound \in BOOLEAN /\ cfg \in Configs
  /\ call \in {"none", "Execute", "ParamData"} /\ phase \in {"exec", "next"}
  /\ odbc \in {"allocated", "prepared", "executed", "cancelled"} \cup Waiting
  /\ call # "none" => stmt.row \in Slots
  /\ sent \in Seq(Slots) /\ accepted \subseteq Slots
  /\ pstat \in [Slots -> {"none", "UNUSED", "ERROR", "SUCCESS", "INFO"}]

\* The types of the rest.
Rest ==
  /\ armed \in BOOLEAN /\ stuck \in BOOLEAN /\ cancelReq \in BOOLEAN
  /\ canc \in {"idle", "read_status", "lock", "send"}
  /\ ret \in {"none", "NEED_DATA", "SUCCESS", "INFO", "ERROR"}

\* The parameters of a row whose data the application supplies.
Late(r) == IF r \in Rows /\ bound THEN apd.daeOf[r] ELSE {}

\* While a row is at the server its buffers hold its own data.
RunningData ==
  Running => /\ stmt.flagged = Late(stmt.row)
             /\ \A p \in stmt.flagged : stmt.bufs[p] = stmt.row

\* What is put so far while the application is asked.
AskingData ==
  Asking =>
    /\ bound /\ stmt.row \in Rows /\ stmt.flagged = apd.daeOf[stmt.row] /\ stmt.flagged # {}
    /\ stmt.dae = Cardinality({p \in stmt.flagged : p > stmt.cep})
    /\ \A p \in stmt.flagged : p < stmt.cep => stmt.bufs[p] = stmt.row
    /\ \A p \in stmt.flagged : p > stmt.cep => stmt.bufs[p] = 0
    /\ odbc = "need_data" => stmt.cep = 0
    /\ odbc # "need_data" => stmt.cep \in stmt.flagged
    /\ odbc = "must_put" => stmt.bufs[stmt.cep] = 0
    /\ odbc = "can_put" => stmt.bufs[stmt.cep] = stmt.row

\* After SQLCancel there is nothing to go on with.
CancelledData == odbc = "cancelled" => stmt.dae = -1 /\ stmt.cep = 0

\* SQLParamData is not called before the first piece.
PutFirst == odbc = "must_put" => call = "none"

Data == RunningData /\ AskingData /\ CancelledData /\ PutFirst
DInv == Fits /\ Rest /\ Data

\* What the application does not bind with UseBatchProtocol.
BatchData ==
  cfg.batch =>
    /\ \A r \in Rows : apd.daeOf[r] = {}
    /\ \A p \in Binary, r \in 1..apd.size : p \in apd.nullOf[r] <=> p \in apd.nullOf[1]

\* The rows before row k.
Below(k) == {r \in Live : r < k}

Ordered(s) ==
  /\ \A i \in 1..Len(s) : s[i] \in Live
  /\ \A i, j \in 1..Len(s) : i < j => s[i] < s[j]

\* Every row of a list comes before row k.
Before(s, k) == \A i \in 1..Len(s) : s[i] < k

SentRows == Ordered(sent)

\* An execution under way stays within its array.
EndKnown == (call # "none" \/ Asking) => stmt.endRow = 0 \/ Batch

RunningRows ==
  Running => /\ stmt.row \in Live
             /\ Batch => accepted = {}
             /\ ~Batch => /\ accepted = Below(stmt.row)
                          /\ \A i \in 1..Len(sent) : sent[i] <= stmt.row
PassingRows ==
  Passing => /\ ~Batch /\ stmt.row \in 1..apd.size /\ accepted = Below(stmt.row)
             /\ Before(sent, stmt.row)
AskingRows ==
  Asking => /\ stmt.row \in Live /\ accepted = Below(stmt.row)
            /\ Before(sent, stmt.row)
            /\ Batch => sent = << >> /\ accepted = {}

Well == {"SUCCESS", "INFO"}
Complete == /\ ret \in Well => accepted = Live
            /\ call # "none" => ret = "none"

Matches == \A r \in 1..apd.size : pstat[r] \in Well <=> r \in accepted
Statuses ==
  /\ ~Batch /\ (sent # << >> \/ call # "none" \/ Asking) => Matches
  /\ Batch /\ ret \in Well /\ sent # << >> => Matches

RInv == SentRows /\ EndKnown /\ RunningRows /\ PassingRows /\ AskingRows /\ Complete /\ Statuses
        /\ stmt.row <= MaxRows

--------------------
(* Sets of rows and of parameters.                                         *)

\* Every set of naturals has a least element.
LEMMA LeastElement ==
  ASSUME NEW T \in SUBSET Nat, T # {}
  PROVE  \E x \in T : \A y \in T : x <= y
<1> DEFINE F == {1..n : n \in T}
           R == StrictSubsetOrdering(Nat)
<1>1. F \subseteq FiniteSubsetsOf(Nat) /\ F # {}
  <2>1. \A n \in T : 1..n \in SUBSET Nat /\ IsFiniteSet(1..n) BY FS_Interval
  <2> QED BY <2>1 DEF FiniteSubsetsOf
<1>2. IsWellFoundedOn(R, FiniteSubsetsOf(Nat)) BY FS_StrictSubsetOrderingWellFounded
<1>3. PICK s \in F : \A t \in F : ~(<<t, s>> \in R)
  <2> HIDE DEF F, R
  <2> QED BY <1>1, <1>2, WFMin
<1>4. PICK x \in T : s = 1..x OBVIOUS
<1>5. ASSUME NEW y \in T, y < x
      PROVE  FALSE
  <2>1. 1..y \subseteq 1..x /\ 1..y # 1..x /\ 1..y \in SUBSET Nat /\ 1..x \in SUBSET Nat BY <1>5
  <2>2. <<1..y, s>> \in R BY <1>4, <2>1 DEF StrictSubsetOrdering
  <2> QED BY <1>3, <2>2
<1> QED BY <1>5

\* s lists S in order.
Lists(s, S) ==
  /\ s \in [1..Cardinality(S) -> S]
  /\ \A i, j \in DOMAIN s : i < j => s[i] < s[j]

\* The rows up to m that are not in I can be listed in order.
LEMMA ListExists ==
  ASSUME NEW I, NEW m \in Nat
  PROVE  \E s : Lists(s, {r \in 1..m : r \notin I})
<1> DEFINE Up(n) == {r \in 1..n : r \notin I}
           T == {n \in Nat : ~\E s : Lists(s, Up(n))}
<1> SUFFICES ASSUME T # {} PROVE FALSE OBVIOUS
<1>1. PICK n \in T : \A k \in T : n <= k
  <2>1. T \in SUBSET Nat OBVIOUS
  <2> HIDE DEF T
  <2> QED BY <2>1, LeastElement
<1>2. n # 0
  <2> SUFFICES ASSUME n = 0 PROVE FALSE OBVIOUS
  <2>1. Up(n) = {} /\ Cardinality({}) = 0 BY FS_EmptySet
  <2>2. Lists([i \in 1..0 |-> i], {}) BY <2>1 DEF Lists
  <2> QED BY <2>1, <2>2
<1>3. PICK s : Lists(s, Up(n - 1))
  <2>1. n \in Nat OBVIOUS
  <2>2. n - 1 \in Nat /\ ~(n <= n - 1) BY <1>2, <2>1
  <2>3. n - 1 \notin T
    <3> HIDE DEF T
    <3> QED BY <1>1, <2>2
  <2> QED BY <2>2, <2>3
<1>4. IsFiniteSet(Up(n - 1)) /\ Cardinality(Up(n - 1)) \in Nat
  <2>1. IsFiniteSet(1..(n - 1)) /\ Up(n - 1) \in SUBSET (1..(n - 1)) BY FS_Interval
  <2> QED BY <2>1, FS_Subset, FS_CardinalityType
<1>5. CASE n \in I
  <2>1. Up(n) = Up(n - 1) BY <1>2, <1>5
  <2> QED BY <1>3, <2>1
<1>6. CASE n \notin I
  <2> DEFINE c == Cardinality(Up(n - 1))
             t == [i \in 1..(c + 1) |-> IF i <= c THEN s[i] ELSE n]
  <2>1. Up(n) = Up(n - 1) \cup {n} /\ n \notin Up(n - 1) BY <1>2, <1>6
  <2>2. Cardinality(Up(n)) = c + 1
    <3> HIDE DEF Up
    <3> QED BY <1>4, <2>1, FS_AddElement
  <2>3. t \in [1..(c + 1) -> Up(n)]
    <3> SUFFICES ASSUME NEW i \in 1..(c + 1) PROVE (IF i <= c THEN s[i] ELSE n) \in Up(n) OBVIOUS
    <3>1. i <= c => s[i] \in Up(n - 1)
      <4> HIDE DEF Up
      <4> QED BY <1>3, <1>4 DEF Lists
    <3> QED BY <2>1, <3>1
  <2>4. ASSUME NEW i \in 1..(c + 1), NEW j \in 1..(c + 1), i < j
        PROVE  t[i] < t[j]
    <3>1. i <= c /\ i \in 1..c BY <1>4, <2>4
    <3>2. t[i] = s[i] /\ s[i] \in Up(n - 1)
      <4> HIDE DEF Up
      <4> QED BY <1>3, <3>1 DEF Lists
    <3>3. CASE j <= c
      <4>1. j \in 1..c BY <1>4, <3>3
      <4>2. DOMAIN s = 1..c BY <1>3 DEF Lists
      <4>3. s[i] < s[j] BY <1>3, <2>4, <3>1, <4>1, <4>2 DEF Lists
      <4> QED BY <3>2, <3>3, <4>3
    <3>4. CASE ~(j <= c) BY <3>2, <3>4
    <3> QED BY <3>3, <3>4
  <2>5. Lists(t, Up(n)) BY <2>2, <2>3, <2>4 DEF Lists
  <2> QED BY <2>5
<1> QED BY <1>5, <1>6

\* Live is finite and a set of rows.
LEMMA LiveRows ==
  ASSUME ApdFits(apd)
  PROVE  /\ apd.size \in Nat \ {0} /\ apd.size <= MaxRows /\ MaxRows \in Nat \ {0}
         /\ Live \subseteq 1..apd.size /\ Live \subseteq Rows /\ Rows \subseteq Slots
         /\ Live = {r \in 1..apd.size : r \notin apd.ignored}
         /\ IsFiniteSet(Live) /\ Cardinality(Live) \in Nat
<1>1. /\ apd.size \in Nat \ {0} /\ apd.size <= MaxRows /\ MaxRows \in Nat \ {0}
      /\ Live \subseteq 1..apd.size /\ Rows \subseteq Slots
      /\ Live = {r \in 1..apd.size : r \notin apd.ignored}
  BY BoundAssumption DEF ApdFits, Rows, Slots, Live
<1>2. Live \subseteq Rows BY <1>1 DEF Rows
<1>3. IsFiniteSet(Live) /\ Cardinality(Live) \in Nat
  <2>1. IsFiniteSet(1..apd.size) BY <1>1, FS_Interval
  <2> QED BY <1>1, <2>1, FS_Subset, FS_CardinalityType
<1> QED BY <1>1, <1>2, <1>3

\* What a trip to the server carries: a batch all rows that are not ignored, in order.
LEMMA TripLists ==
  ASSUME ApdFits(apd), NEW r
  PROVE  /\ ~Batch => Trip(r) = <<r>>
         /\ Batch => /\ Trip(r) \in Seq(Live) /\ Len(Trip(r)) \in Nat \ {0}
                     /\ \A i, j \in 1..Len(Trip(r)) : i < j => Trip(r)[i] < Trip(r)[j]
                     /\ \A i \in 1..Len(Trip(r)) : Trip(r)[i] \in Live
<1>1. ~Batch => Trip(r) = <<r>> BY DEF Trip
<1>2. ASSUME Batch
      PROVE  /\ Trip(r) \in Seq(Live) /\ Len(Trip(r)) \in Nat \ {0}
             /\ \A i, j \in 1..Len(Trip(r)) : i < j => Trip(r)[i] < Trip(r)[j]
             /\ \A i \in 1..Len(Trip(r)) : Trip(r)[i] \in Live
  <2>1. Lists(Trip(r), Live)
    <3>1. \E s : Lists(s, Live)
      <4>1. Live = {i \in 1..apd.size : i \notin apd.ignored} /\ apd.size \in Nat BY LiveRows
      <4>2. \E s : Lists(s, {i \in 1..apd.size : i \notin apd.ignored}) BY <4>1, ListExists
      <4> QED BY <4>1, <4>2
    <3>2. Trip(r) = InOrder(Live) BY <1>2 DEF Trip
    <3> QED BY <3>1, <3>2 DEF Lists, InOrder
  <2>2. Cardinality(Live) \in Nat \ {0}
    <3>1. Live # {} BY <1>2, LiveRows DEF Batch
    <3> QED BY <3>1, LiveRows, FS_EmptySet
  <2>3. Trip(r) \in [1..Cardinality(Live) -> Live] /\ DOMAIN Trip(r) = 1..Cardinality(Live)
    BY <2>1 DEF Lists
  <2>4. Trip(r) \in Seq(Live) /\ Len(Trip(r)) = Cardinality(Live) BY <2>2, <2>3
  <2> QED BY <2>1, <2>2, <2>3, <2>4 DEF Lists
<1> QED BY <1>1, <1>2

\* The search for the next row that is not ignored.
LEMMA FirstRowFound ==
  ASSUME NEW r \in Nat \ {0}, NEW last \in Nat
  PROVE  /\ FirstRow(r, last) = 0 => \A j \in r..last : j \in apd.ignored
         /\ FirstRow(r, last) # 0 =>
              /\ FirstRow(r, last) \in r..last /\ FirstRow(r, last) \notin apd.ignored
              /\ \A j \in r..last : j \notin apd.ignored => FirstRow(r, last) <= j
<1> DEFINE ok == {k \in r..last : k \notin apd.ignored}
<1>1. CASE ok = {} BY <1>1 DEF FirstRow
<1>2. CASE ok # {}
  <2>1. ok \in SUBSET Nat /\ 0 \notin ok OBVIOUS
  <2>2. FirstRow(r, last) = CHOOSE k \in ok : \A j \in ok : k <= j BY <1>2 DEF FirstRow
  <2>3. \E k \in ok : \A j \in ok : k <= j
    <3> HIDE DEF ok
    <3> QED BY <1>2, <2>1, LeastElement
  <2>4. FirstRow(r, last) \in ok /\ \A j \in ok : FirstRow(r, last) <= j BY <2>2, <2>3
  <2> QED BY <2>1, <2>4
<1> QED BY <1>1, <1>2

\* The parameters a row waits for are finitely many.
LEMMA FinitelyMany ==
  ASSUME NEW F \in SUBSET Params
  PROVE  /\ IsFiniteSet(F) /\ Cardinality(F) \in 0..NumParams
         /\ F # {} => Cardinality(F) > 0
<1>1. IsFiniteSet(Params) /\ Cardinality(Params) = NumParams BY BoundAssumption, FS_Interval DEF Params
<1>2. IsFiniteSet(F) /\ Cardinality(F) <= NumParams /\ Cardinality(F) \in Nat
  BY <1>1, FS_Subset, FS_CardinalityType
<1>3. F # {} => Cardinality(F) # 0 BY <1>2, FS_EmptySet
<1> QED BY <1>2, <1>3, BoundAssumption

--------------------
(* The helpers of the statement: what they change and what they keep.      *)

LEMMA FreePutKeeps ==
  ASSUME NEW s, StmtFits(s)
  PROVE  LET t == FreePut(s)
         IN  /\ StmtFits(t) /\ t.bufs = NoData
             /\ t.row = s.row /\ t.endRow = s.endRow /\ t.dae = s.dae /\ t.cep = s.cep
             /\ t.status = s.status
<1> DEFINE t == FreePut(s)
<1>1. t = [s EXCEPT !.bufs = NoData] BY DEF FreePut
<1>2. NoData \in [Params -> 0..MaxRows] BY BoundAssumption DEF NoData
<1>3. /\ t = [f \in StmtFields |-> t[f]] /\ t.bufs = NoData
      /\ \A f \in StmtFields \ {"bufs"} : t[f] = s[f]
  BY <1>1 DEF StmtFits, StmtFields
<1> HIDE DEF t
<1>4. /\ t.row = s.row /\ t.endRow = s.endRow /\ t.dae = s.dae /\ t.cep = s.cep
      /\ t.status = s.status /\ t.prepare = s.prepare /\ t.prepared = s.prepared /\ t.put = s.put
      /\ t.flagged = s.flagged
  BY <1>3 DEF StmtFields
<1>5. StmtFits(t) BY <1>2, <1>3, <1>4, Zenon DEF StmtFits
<1> QED BY <1>3, <1>4, <1>5 DEF t

\* What SC_free_params does to data at execution, with or without the buffers.
LEMMA AbandonKeeps ==
  ASSUME NEW s, StmtFits(s)
  PROVE  LET t == Abandon(s)
         IN  /\ StmtFits(t) /\ t.dae = -1 /\ t.cep = 0
             /\ t.row = s.row /\ t.endRow = s.endRow /\ t.bufs = s.bufs /\ t.flagged = s.flagged
             /\ t.status = s.status
<1> DEFINE t == Abandon(s)
<1>1. PICK no : no = FALSE /\ t = [s EXCEPT !.dae = -1, !.cep = 0, !.put = no] BY DEF Abandon
<1>2. /\ t = [f \in StmtFields |-> t[f]] /\ t.dae = -1 /\ t.cep = 0 /\ t.put = no
      /\ \A f \in StmtFields \ {"dae", "cep", "put"} : t[f] = s[f]
  BY <1>1 DEF StmtFits, StmtFields
<1> HIDE DEF t
<1>3. /\ t.row = s.row /\ t.endRow = s.endRow /\ t.bufs = s.bufs /\ t.flagged = s.flagged
      /\ t.status = s.status /\ t.prepare = s.prepare /\ t.prepared = s.prepared
  BY <1>2 DEF StmtFields
<1>4. -1 \in -1..NumParams /\ 0 \in 0..NumParams BY BoundAssumption
<1>5. StmtFits(t) BY <1>1, <1>2, <1>3, <1>4, Zenon DEF StmtFits
<1> QED BY <1>2, <1>3, <1>5 DEF t

LEMMA FreeDataKeeps ==
  ASSUME NEW s, StmtFits(s)
  PROVE  LET t == FreeData(s)
         IN  /\ StmtFits(t) /\ t.dae = -1 /\ t.cep = 0 /\ t.bufs = NoData
             /\ t.row = s.row /\ t.endRow = s.endRow /\ t.status = s.status
<1>1. FreeData(s) = Abandon(FreePut(s)) BY DEF FreeData, Abandon
<1> QED BY <1>1, FreePutKeeps, AbandonKeeps

LEMMA FreeAllKeeps ==
  ASSUME NEW s, StmtFits(s)
  PROVE  LET t == FreeAll(s)
         IN  StmtFits(t) /\ t.dae = -1 /\ t.cep = 0 /\ t.row = 0
<1> DEFINE b == FreeData(s)
           t == FreeAll(s)
<1>1. StmtFits(b) /\ b.dae = -1 /\ b.cep = 0 BY FreeDataKeeps
<1>2. t = [b EXCEPT !.row = 0, !.endRow = 0] BY DEF FreeAll
<1> HIDE DEF b, t
<1>3. /\ t = [f \in StmtFields |-> t[f]] /\ t.row = 0 /\ t.endRow = 0
      /\ \A f \in StmtFields \ {"row", "endRow"} : t[f] = b[f]
  BY <1>1, <1>2 DEF StmtFits, StmtFields
<1>4. /\ t.dae = b.dae /\ t.cep = b.cep /\ t.bufs = b.bufs /\ t.flagged = b.flagged
      /\ t.status = b.status /\ t.prepare = b.prepare /\ t.prepared = b.prepared /\ t.put = b.put
  BY <1>3 DEF StmtFields
<1>5. 0 \in 0..(MaxRows + 1) BY BoundAssumption
<1>6. StmtFits(t) BY <1>1, <1>3, <1>4, <1>5, Zenon DEF StmtFits
<1> QED BY <1>1, <1>3, <1>4, <1>6 DEF t

LEMMA RecycleKeeps ==
  ASSUME NEW s, StmtFits(s)
  PROVE  LET t == Recycle(s)
         IN  /\ StmtFits(t) /\ t.row = s.row /\ t.endRow = s.endRow
             /\ (t.dae = -1 /\ t.cep = 0) \/ (t.dae = s.dae /\ t.cep = s.cep)
<1>1. CASE s.status = "ALLOCATED" BY <1>1 DEF Recycle
<1>2. CASE s.status # "ALLOCATED"
  <2> DEFINE b == FreeData(s)
             t == Recycle(s)
  <2>1. /\ StmtFits(b) /\ b.dae = -1 /\ b.cep = 0 /\ b.row = s.row /\ b.endRow = s.endRow BY FreeDataKeeps
  <2>2. t = [b EXCEPT !.status = "READY"] BY <1>2 DEF Recycle
  <2> HIDE DEF b, t
  <2>3. /\ t = [f \in StmtFields |-> t[f]] /\ t.status = "READY"
        /\ \A f \in StmtFields \ {"status"} : t[f] = b[f]
    BY <2>1, <2>2 DEF StmtFits, StmtFields
  <2>4. /\ t.dae = b.dae /\ t.cep = b.cep /\ t.bufs = b.bufs /\ t.flagged = b.flagged
        /\ t.row = b.row /\ t.endRow = b.endRow /\ t.prepare = b.prepare
        /\ t.prepared = b.prepared /\ t.put = b.put
    BY <2>3 DEF StmtFields
  <2>5. StmtFits(t) BY <2>1, <2>3, <2>4, Zenon DEF StmtFits
  <2> QED BY <2>1, <2>4, <2>5 DEF t
<1> QED BY <1>1, <1>2

Truths == BOOLEAN

\* Another row, status or text leaves the data alone.
LEMMA OthersKeep ==
  ASSUME NEW s, StmtFits(s), NEW t, t = [f \in StmtFields |-> t[f]],
         t.row \in 0..(MaxRows + 1), t.prepare \in Truths, t.prepared \in Truths,
         t.status \in {"ALLOCATED", "READY", "DESCRIBED", "FINISHED", "EXECUTING"},
         \A f \in StmtFields \ {"row", "status", "prepare", "prepared"} : t[f] = s[f]
  PROVE  /\ StmtFits(t) /\ t.endRow = s.endRow /\ t.dae = s.dae /\ t.cep = s.cep
         /\ t.flagged = s.flagged /\ t.bufs = s.bufs
<1>1. /\ t.dae = s.dae /\ t.cep = s.cep /\ t.bufs = s.bufs /\ t.flagged = s.flagged
      /\ t.endRow = s.endRow /\ t.put = s.put
  BY DEF StmtFields
<1>2. StmtFits(t) BY <1>1, Zenon DEF StmtFits, Truths
<1> QED BY <1>1, <1>2

LEMMA DirectKeeps ==
  ASSUME NEW s, StmtFits(s)
  PROVE  LET t == [s EXCEPT !.prepare = FALSE, !.prepared = FALSE]
         IN  StmtFits(t) /\ t.row = s.row /\ t.endRow = s.endRow
<1> DEFINE t == [s EXCEPT !.prepare = FALSE, !.prepared = FALSE]
<1>1. PICK no : no \in Truths /\ t = [s EXCEPT !.prepare = no, !.prepared = no] BY Zenon DEF Truths
<1> HIDE DEF t
<1>2. /\ t = [f \in StmtFields |-> t[f]] /\ t.prepare = no /\ t.prepared = no
      /\ t.row = s.row /\ t.status = s.status
      /\ \A f \in StmtFields \ {"row", "status", "prepare", "prepared"} : t[f] = s[f]
  BY <1>1 DEF StmtFits, StmtFields
<1>3. /\ t.row \in 0..(MaxRows + 1)
      /\ t.status \in {"ALLOCATED", "READY", "DESCRIBED", "FINISHED", "EXECUTING"}
  BY <1>2 DEF StmtFits
<1>4. StmtFits(t) /\ t.endRow = s.endRow
  <2>1. t.prepare \in Truths /\ t.prepared \in Truths BY <1>1, <1>2
  <2> QED BY <1>2, <1>3, <2>1, OthersKeep
<1> QED BY <1>2, <1>4 DEF t

LEMMA RowKeeps ==
  ASSUME NEW s, StmtFits(s), NEW r \in 0..(MaxRows + 1)
  PROVE  LET t == [s EXCEPT !.row = r]
         IN  /\ StmtFits(t) /\ t.row = r /\ t.endRow = s.endRow /\ t.dae = s.dae /\ t.cep = s.cep
             /\ t.flagged = s.flagged /\ t.bufs = s.bufs
<1> DEFINE t == [s EXCEPT !.row = r]
<1>1. /\ t = [f \in StmtFields |-> t[f]] /\ t.row = r
      /\ \A f \in StmtFields \ {"row"} : t[f] = s[f]
  BY DEF StmtFits, StmtFields
<1> HIDE DEF t
<1>2. /\ t.dae = s.dae /\ t.cep = s.cep /\ t.bufs = s.bufs /\ t.flagged = s.flagged
      /\ t.endRow = s.endRow /\ t.put = s.put /\ t.status = s.status /\ t.prepare = s.prepare
      /\ t.prepared = s.prepared
  BY <1>1 DEF StmtFields
<1>3. StmtFits(t) BY <1>1, <1>2, Zenon DEF StmtFits
<1> QED BY <1>1, <1>2, <1>3 DEF t

\* SQLParamData hands out the next parameter; the rest is counted right.
LEMMA TokenCounts ==
  ASSUME NEW s, StmtFits(s), s.dae # 0,
         s.dae = Cardinality({p \in s.flagged : p > s.cep})
  PROVE  LET t == Token(s)
         IN  /\ StmtFits(t) /\ t.row = s.row /\ t.endRow = s.endRow /\ t.flagged = s.flagged
             /\ t.bufs = s.bufs /\ t.cep \in s.flagged /\ t.cep > s.cep
             /\ \A q \in s.flagged : q > s.cep => t.cep <= q
             /\ t.dae = Cardinality({p \in s.flagged : p > t.cep})
<1> DEFINE Left == {p \in s.flagged : p > s.cep}
           c == CHOOSE p \in s.flagged : p > s.cep /\ \A q \in s.flagged : q > s.cep => p <= q
           t == Token(s)
<1>1. /\ s.flagged \subseteq Params /\ s.flagged \subseteq Nat /\ s.cep \in Nat /\ s.dae \in Int
      /\ s = [f \in StmtFields |-> s[f]]
  BY BoundAssumption DEF StmtFits, Params
<1>2. Left \in SUBSET Params /\ Left \in SUBSET Nat BY <1>1
<1>3. s.dae = Cardinality(Left) /\ Left # {}
  <2>1. s.dae = Cardinality(Left) OBVIOUS
  <2> HIDE DEF Left
  <2> QED BY <1>2, <2>1, FS_EmptySet
<1>4. \E x \in Left : \A y \in Left : x <= y
  <2> HIDE DEF Left
  <2> QED BY <1>2, <1>3, LeastElement
<1>5. c \in s.flagged /\ c > s.cep /\ \A q \in s.flagged : q > s.cep => c <= q BY <1>4
<1> HIDE DEF c
<1>6. c \in Params /\ c \in 0..NumParams BY <1>1, <1>5, BoundAssumption DEF Params
<1>7. {p \in s.flagged : p > c} = Left \ {c} /\ c \in Left BY <1>1, <1>5
<1>8. IsFiniteSet(Left) /\ Cardinality(Left) \in 0..NumParams
  <2> HIDE DEF Left
  <2> QED BY <1>2, FinitelyMany
<1>9. Cardinality(Left \ {c}) = Cardinality(Left) - 1 /\ Cardinality(Left) # 0
  <2> HIDE DEF Left
  <2> QED BY <1>3, <1>7, <1>8, FS_RemoveElement
<1>10. PICK no : no = FALSE /\ t = [s EXCEPT !.dae = s.dae - 1, !.cep = c, !.put = no] BY DEF Token, c
<1> HIDE DEF t
<1>11. /\ t = [f \in StmtFields |-> t[f]] /\ t.dae = s.dae - 1 /\ t.cep = c /\ t.put = no
       /\ \A f \in StmtFields \ {"dae", "cep", "put"} : t[f] = s[f]
  BY <1>1, <1>10 DEF StmtFields
<1>12. /\ t.row = s.row /\ t.endRow = s.endRow /\ t.bufs = s.bufs /\ t.flagged = s.flagged
       /\ t.status = s.status /\ t.prepare = s.prepare /\ t.prepared = s.prepared
  BY <1>11 DEF StmtFields
<1>13. t.dae = Cardinality({p \in s.flagged : p > c}) /\ t.dae \in -1..NumParams
  <2>1. Cardinality({p \in s.flagged : p > c}) = Cardinality(Left \ {c}) BY <1>7
  <2> HIDE DEF Left
  <2>2. t.dae = Cardinality(Left \ {c}) BY <1>3, <1>9, <1>11
  <2>3. t.dae \in -1..NumParams BY <1>3, <1>8, <1>11, BoundAssumption
  <2> QED BY <2>1, <2>2, <2>3
<1>14. StmtFits(t) BY <1>6, <1>10, <1>11, <1>12, <1>13, Zenon DEF StmtFits
<1> QED BY <1>5, <1>11, <1>12, <1>13, <1>14 DEF t

--------------------
(* The outcomes of a step of an execution.                                 *)

\* The execution ends, with the rows handed out so far.
Stopped(code, from) ==
  /\ call' = "none" /\ phase' = "next" /\ ret' = code /\ sent' = from
  /\ odbc' \in {"allocated", "prepared", "executed"}
  /\ StmtFits(stmt') /\ stmt'.row \in {0, 1}

\* A statement with no data at execution.
Bare(s) == [s EXCEPT !.dae = -1, !.flagged = {}, !.bufs = NoData]

\* Row k of a statement like s goes to the server.
Started(s, k, from, who) ==
  /\ call' = who /\ phase' = "exec" /\ ret' = "none" /\ sent' = from \o Trip(k) /\ odbc' = odbc
  /\ StmtFits(stmt') /\ stmt'.row = k /\ stmt'.flagged = s.flagged /\ stmt'.bufs = s.bufs
  /\ stmt'.dae = s.dae /\ stmt'.cep = 0
  /\ stmt'.endRow = IF Batch THEN apd.size + 1 ELSE s.endRow

\* The application is asked for the data of row k.
Asked(s, k, from) ==
  /\ call' = "none" /\ phase' = "next" /\ ret' = "NEED_DATA" /\ sent' = from
  /\ StmtFits(stmt') /\ stmt'.row = k /\ stmt'.endRow = s.endRow
  /\ stmt'.flagged = Late(k) /\ stmt'.bufs = NoData
  /\ stmt'.dae = Cardinality({p \in stmt'.flagged : p > stmt'.cep})
  /\ \A q \in stmt'.flagged : ~(q < stmt'.cep)
  /\ \/ odbc' = "need_data" /\ stmt'.cep = 0
     \/ odbc' = "must_put" /\ stmt'.cep \in stmt'.flagged

LEMMA BareFields ==
  ASSUME NEW s, StmtFits(s)
  PROVE  /\ Bare(s).flagged = {} /\ Bare(s).dae = -1 /\ Bare(s).bufs = NoData
         /\ Bare(s).endRow = s.endRow
BY DEF StmtFits, StmtFields, Bare

LEMMA StartExecCases ==
  ASSUME NEW s, StmtFits(s), s.row \in Slots, ApdFits(apd), NEW from, NEW who,
         StartExec(s, from, who)
  PROVE  Stopped("ERROR", from) \/ Started(s, s.row, from, who)
<1>1. CASE Return([s EXCEPT !.cep = 0, !.row = 0], "ERROR", Fallen(s)) /\ sent' = from
  <2>1. stmt' = [s EXCEPT !.cep = 0, !.row = 0] /\ s = [f \in StmtFields |-> s[f]]
    BY <1>1 DEF Return, StmtFits
  <2>2. /\ stmt' = [f \in StmtFields |-> stmt'[f]] /\ stmt'.cep = 0 /\ stmt'.row = 0
        /\ \A f \in StmtFields \ {"cep", "row"} : stmt'[f] = s[f]
    BY <2>1 DEF StmtFields
  <2>3. /\ stmt'.endRow = s.endRow /\ stmt'.bufs = s.bufs /\ stmt'.flagged = s.flagged
        /\ stmt'.status = s.status /\ stmt'.prepare = s.prepare /\ stmt'.prepared = s.prepared
        /\ stmt'.put = s.put /\ stmt'.dae = s.dae
    BY <2>2 DEF StmtFields
  <2>4. 0 \in 0..(MaxRows + 1) /\ 0 \in 0..NumParams BY BoundAssumption
  <2>5. StmtFits(stmt') BY <2>2, <2>3, <2>4, Zenon DEF StmtFits
  <2>6. odbc' \in {"allocated", "prepared", "executed"} BY <1>1 DEF Return, Fallen
  <2> QED BY <1>1, <2>2, <2>5, <2>6 DEF Return, Stopped
<1>2. CASE /\ bound \/ ByBindMessage(s)
           /\ stmt' = [s EXCEPT !.cep = 0, !.status = "EXECUTING",
                                !.endRow = IF Batch THEN apd.size + 1 ELSE @]
           /\ call' = who /\ phase' = "exec" /\ armed' = cfg.timeout
           /\ sent' = from \o Trip(s.row) /\ ret' = "none"
           /\ UNCHANGED <<odbc, cancelReq>>
  <2> DEFINE e == IF Batch THEN apd.size + 1 ELSE s.endRow
  <2>1. stmt' = [s EXCEPT !.cep = 0, !.status = "EXECUTING", !.endRow = e] BY <1>2
  <2>2. e \in 0..(MaxRows + 1)
    <3>1. apd.size + 1 \in 0..(MaxRows + 1) /\ s.endRow \in 0..(MaxRows + 1) BY LiveRows DEF StmtFits
    <3> QED BY <3>1
  <2> HIDE DEF e
  <2>3. /\ stmt' = [f \in StmtFields |-> stmt'[f]] /\ stmt'.cep = 0 /\ stmt'.endRow = e
        /\ stmt'.status = "EXECUTING"
        /\ \A f \in StmtFields \ {"cep", "endRow", "status"} : stmt'[f] = s[f]
    BY <2>1 DEF StmtFields, StmtFits
  <2>4. /\ stmt'.row = s.row /\ stmt'.bufs = s.bufs /\ stmt'.flagged = s.flagged
        /\ stmt'.prepare = s.prepare /\ stmt'.prepared = s.prepared
        /\ stmt'.put = s.put /\ stmt'.dae = s.dae
    BY <2>3 DEF StmtFields
  <2>5. 0 \in 0..NumParams BY BoundAssumption
  <2>6. StmtFits(stmt') BY <2>2, <2>3, <2>4, <2>5, Zenon DEF StmtFits
  <2>7. Started(s, s.row, from, who) BY <1>2, <2>3, <2>4, <2>6 DEF Started, e
  <2> QED BY <2>7
<1> QED BY <1>1, <1>2, Zenon DEF StartExec

\* How far the search for the next row goes.
LEMMA LastRowFits ==
  ASSUME ApdFits(apd), NEW s, StmtFits(s)
  PROVE  LastRow(s) \in Nat \ {0} /\ LastRow(s) <= MaxRows + 1
BY LiveRows DEF LastRow, StmtFits

LEMMA RunRowCases ==
  ASSUME NEW s, StmtFits(s), s.row \in Slots, ApdFits(apd), NEW ps, NEW from, NEW who,
         RunRow(s, ps, from, who),
         NEW k, k = FirstRow(s.row, LastRow(s))
  PROVE  \/ k = 0 /\ Stopped("SUCCESS", from) /\ pstat' = ps
         \/ /\ k \in Slots /\ s.row <= k /\ k <= LastRow(s) /\ k \notin apd.ignored
            /\ \A j \in s.row..LastRow(s) : j \notin apd.ignored => k <= j
            /\ pstat' = [ps EXCEPT ![k] = "ERROR"]
            /\ \/ Stopped("ERROR", from)
               \/ Late(k) = {} /\ Started(Bare(s), k, from, who)
               \/ Late(k) # {} /\ k \in Rows /\ bound /\ Asked(s, k, from)
<1> DEFINE d == FreeData(s)
           n == IF Late(k) = {} THEN -1 ELSE Cardinality(Late(k))
           s1 == [d EXCEPT !.row = k, !.flagged = Late(k), !.dae = n]
<1>1. s.row \in Nat \ {0} /\ LastRow(s) \in Nat \ {0} /\ LastRow(s) <= MaxRows + 1
  BY LastRowFits, BoundAssumption DEF Slots
<1>2. CASE k = 0
  <2>1. stmt' = [s EXCEPT !.row = 0] /\ 0 \in 0..(MaxRows + 1) BY <1>2, BoundAssumption DEF RunRow, Return
  <2>2. StmtFits(stmt') /\ stmt'.row = 0 BY <2>1, RowKeeps
  <2>3. /\ call' = "none" /\ phase' = "next" /\ ret' = "SUCCESS" /\ sent' = from
        /\ odbc' = "executed" /\ pstat' = ps
    BY <1>2 DEF RunRow, Return
  <2> QED BY <1>2, <2>2, <2>3 DEF Stopped
<1>3. CASE k # 0
  <2>1. /\ k \in s.row..LastRow(s) /\ k \notin apd.ignored
        /\ \A j \in s.row..LastRow(s) : j \notin apd.ignored => k <= j
    BY <1>1, <1>3, FirstRowFound
  <2>2. k \in Slots /\ s.row <= k /\ k <= LastRow(s) /\ k \in 0..(MaxRows + 1)
    BY <1>1, <2>1, BoundAssumption DEF Slots
  <2>3. /\ pstat' = [ps EXCEPT ![k] = "ERROR"]
        /\ IF Late(k) = {} THEN StartExec(s1, from, who)
           ELSE /\ sent' = from
                /\ IF who = "ParamData" THEN Return(Token(s1), "NEED_DATA", "must_put")
                   ELSE Return(s1, "NEED_DATA", "need_data")
    BY <1>3, Zenon DEF RunRow, Late
  <2>4. /\ StmtFits(d) /\ d.cep = 0 /\ d.bufs = NoData /\ d.endRow = s.endRow BY FreeDataKeeps
  <2>5. /\ Late(k) \in SUBSET Params
        /\ Late(k) # {} => k \in Rows /\ bound
    BY DEF Late, ApdFits
  <2>6. n \in -1..NumParams /\ (Late(k) # {} => n # 0)
    <3>1. Cardinality(Late(k)) \in 0..NumParams /\ (Late(k) # {} => Cardinality(Late(k)) > 0)
      BY <2>5, FinitelyMany
    <3> QED BY <3>1, BoundAssumption
  <2> HIDE DEF n, d
  <2>7. /\ s1 = [f \in StmtFields |-> s1[f]] /\ s1.row = k /\ s1.flagged = Late(k) /\ s1.dae = n
        /\ \A f \in StmtFields \ {"row", "flagged", "dae"} : s1[f] = d[f]
    BY <2>4 DEF StmtFits, StmtFields
  <2> HIDE DEF s1
  <2>8. /\ s1.endRow = d.endRow /\ s1.bufs = d.bufs /\ s1.cep = d.cep
        /\ s1.status = d.status /\ s1.prepare = d.prepare /\ s1.prepared = d.prepared
        /\ s1.put = d.put
    BY <2>7 DEF StmtFields
  <2>9. StmtFits(s1) BY <2>2, <2>4, <2>5, <2>6, <2>7, <2>8, Zenon DEF StmtFits
  <2>10. s1.endRow = s.endRow /\ s1.bufs = NoData /\ s1.cep = 0 BY <2>4, <2>8
  <2>11. CASE Late(k) = {}
    <3>1. Stopped("ERROR", from) \/ Started(s1, k, from, who)
      BY <2>2, <2>3, <2>7, <2>9, <2>11, StartExecCases
    <3>2. ASSUME Started(s1, k, from, who)
          PROVE  Started(Bare(s), k, from, who)
      <4>1. s1.flagged = {} /\ s1.dae = -1 BY <2>7, <2>11 DEF n
      <4> QED BY <2>10, <3>2, <4>1, BareFields DEF Started
    <3> QED BY <2>1, <2>2, <2>3, <2>11, <3>1, <3>2
  <2>12. CASE Late(k) # {}
    <3>1. {p \in s1.flagged : p > s1.cep} = s1.flagged BY <2>5, <2>7, <2>10, BoundAssumption DEF Params
    <3>2. s1.dae = Cardinality({p \in s1.flagged : p > s1.cep}) /\ s1.dae # 0
      BY <2>6, <2>7, <2>12, <3>1 DEF n
    <3>3. \A q \in s1.flagged : q \in Nat /\ q > 0 BY <2>5, <2>7, BoundAssumption DEF Params
    <3>4. CASE who = "ParamData"
      <4> DEFINE t == Token(s1)
      <4>1. /\ StmtFits(t) /\ t.row = s1.row /\ t.endRow = s1.endRow /\ t.flagged = s1.flagged
            /\ t.bufs = s1.bufs /\ t.cep \in s1.flagged /\ t.cep > s1.cep
            /\ \A q \in s1.flagged : q > s1.cep => t.cep <= q
            /\ t.dae = Cardinality({p \in s1.flagged : p > t.cep})
        BY <2>9, <3>2, TokenCounts
      <4>2. Return(t, "NEED_DATA", "must_put") /\ sent' = from BY <2>3, <2>12, <3>4
      <4> HIDE DEF t
      <4>3. \A q \in t.flagged : ~(q < t.cep) BY <2>10, <3>3, <4>1
      <4>4. Asked(s, k, from) BY <2>7, <2>10, <4>1, <4>2, <4>3 DEF Asked, Return
      <4> QED BY <2>1, <2>2, <2>3, <2>5, <2>12, <4>4
    <3>5. CASE who # "ParamData"
      <4>1. Return(s1, "NEED_DATA", "need_data") /\ sent' = from BY <2>3, <2>12, <3>5
      <4>2. \A q \in s1.flagged : ~(q < s1.cep) BY <2>10, <3>3
      <4>3. Asked(s, k, from) BY <2>7, <2>9, <2>10, <3>2, <4>1, <4>2 DEF Asked, Return
      <4> QED BY <2>1, <2>2, <2>3, <2>5, <2>12, <4>3
    <3> QED BY <3>4, <3>5
  <2> QED BY <2>11, <2>12
<1> QED BY <1>2, <1>3

\* PGAPI_Execute: the row it starts from, and the status array it starts with.
LEMMA ExecuteCases ==
  ASSUME NEW s, StmtFits(s), ApdFits(apd), Execute(s)
  PROVE  /\ accepted' = {}
         /\ \/ \E t, ps :
                  /\ StmtFits(t) /\ t.row \in Slots /\ (s.row <= 1 => t.row = 1)
                  /\ t.endRow = s.endRow
                  /\ \/ ps = pstat
                     \/ ps = [r \in Slots |-> IF r <= LastRow(t) THEN "UNUSED" ELSE pstat[r]]
                  /\ t.row = 1 /\ ~Batch =>
                       ps = [r \in Slots |-> IF r <= LastRow(t) THEN "UNUSED" ELSE pstat[r]]
                  /\ RunRow(t, ps, << >>, "Execute")
            \/ Stopped("ERROR", << >>) /\ pstat' = pstat
<1> DEFINE s1 == IF s.prepare /\ s.status = "DESCRIBED" THEN [Recycle(s) EXCEPT !.row = 0] ELSE s
           s2 == IF s1.row <= 1 /\ ~s1.prepared THEN Recycle(s1) ELSE s1
           s3 == IF s2.row = 0 THEN [s2 EXCEPT !.row = 1] ELSE s2
           ps == IF s3.row = 1 /\ ~Batch
                 THEN [r \in Slots |-> IF r <= LastRow(s3) THEN "UNUSED" ELSE pstat[r]]
                 ELSE pstat
           sf == IF s1.status = "FINISHED" THEN s3 ELSE s1
<1>1. /\ accepted' = {}
      /\ \/ RunRow(s3, ps, << >>, "Execute")
         \/ /\ Return([sf EXCEPT !.row = 1], "ERROR", Fallen(s))
            /\ sent' = << >> /\ pstat' = pstat
  BY Zenon DEF Execute
<1>2. \A t : StmtFits(t) => t.row \in 0..(MaxRows + 1) BY DEF StmtFits
<1>3. MaxRows \in Nat /\ 0 \in 0..(MaxRows + 1) /\ 1 \in 0..(MaxRows + 1) BY BoundAssumption
<1>4. StmtFits(s1) /\ s1.endRow = s.endRow /\ (s.row <= 1 => s1.row <= 1)
  <2>1. StmtFits(Recycle(s)) /\ Recycle(s).endRow = s.endRow BY RecycleKeeps
  <2>2. /\ StmtFits([Recycle(s) EXCEPT !.row = 0]) /\ [Recycle(s) EXCEPT !.row = 0].row = 0
        /\ [Recycle(s) EXCEPT !.row = 0].endRow = s.endRow
    BY <1>3, <2>1, RowKeeps
  <2> QED BY <2>2
<1> HIDE DEF s1
<1>5. StmtFits(s2) /\ s2.endRow = s.endRow /\ (s.row <= 1 => s2.row <= 1) BY <1>4, RecycleKeeps
<1> HIDE DEF s2
<1>6. StmtFits(s3) /\ s3.endRow = s.endRow /\ (s.row <= 1 => s3.row = 1) /\ s3.row \in Slots
  <2>1. CASE s2.row = 0
    <3>1. StmtFits([s2 EXCEPT !.row = 1]) /\ [s2 EXCEPT !.row = 1].row = 1
          /\ [s2 EXCEPT !.row = 1].endRow = s2.endRow
      BY <1>3, <1>5, RowKeeps
    <3> QED BY <1>3, <1>5, <2>1, <3>1 DEF Slots
  <2>2. CASE s2.row # 0 BY <1>2, <1>3, <1>5, <2>2 DEF Slots
  <2> QED BY <2>1, <2>2
<1> HIDE DEF s3
<1>7. ps = pstat \/ ps = [r \in Slots |-> IF r <= LastRow(s3) THEN "UNUSED" ELSE pstat[r]] OBVIOUS
<1>8. s3.row = 1 /\ ~Batch =>
        ps = [r \in Slots |-> IF r <= LastRow(s3) THEN "UNUSED" ELSE pstat[r]]
  OBVIOUS
<1> HIDE DEF ps
<1>9. CASE RunRow(s3, ps, << >>, "Execute") BY <1>1, <1>6, <1>7, <1>8, <1>9
<1>10. CASE /\ Return([sf EXCEPT !.row = 1], "ERROR", Fallen(s))
            /\ sent' = << >> /\ pstat' = pstat
  <2>1. StmtFits(sf) BY <1>4, <1>6
  <2> HIDE DEF sf
  <2>2. StmtFits([sf EXCEPT !.row = 1]) /\ [sf EXCEPT !.row = 1].row = 1 BY <1>3, <2>1, RowKeeps
  <2>3. stmt' = [sf EXCEPT !.row = 1] /\ call' = "none" /\ phase' = "next" /\ ret' = "ERROR"
        /\ odbc' = Fallen(s)
    BY <1>10 DEF Return
  <2>4. StmtFits(stmt') /\ stmt'.row = 1 BY <2>2, <2>3
  <2> QED BY <1>1, <1>10, <2>3, <2>4 DEF Stopped, Fallen
<1> QED BY <1>1, <1>9, <1>10

--------------------
(* Types and data: nobody executes or waits.                               *)

LEMMA QuietData ==
  ASSUME call' = "none", odbc' \notin Waiting,
         odbc' = "cancelled" => stmt'.dae = -1 /\ stmt'.cep = 0
  PROVE  Data'
BY DEF Data, RunningData, AskingData, CancelledData, PutFirst, Running, Asking, Waiting

LEMMA StartedData ==
  ASSUME NEW s, NEW k, NEW from, NEW who, who # "none", Started(s, k, from, who),
         UNCHANGED <<cfg, apd, bound>>, s.flagged = Late(k),
         \A p \in s.flagged : s.bufs[p] = k,
         odbc # "must_put", odbc = "cancelled" => s.dae = -1
  PROVE  Data'
<1>1. /\ call' # "none" /\ stmt'.row = k /\ stmt'.flagged = s.flagged /\ stmt'.bufs = s.bufs
      /\ stmt'.dae = s.dae /\ stmt'.cep = 0 /\ odbc' = odbc
  BY DEF Started
<1>2. Late(k)' = Late(k) BY DEF Late
<1>3. RunningData' BY <1>1, <1>2 DEF RunningData, Late
<1>4. AskingData' /\ CancelledData' /\ PutFirst' BY <1>1 DEF AskingData, Asking, CancelledData, PutFirst
<1> QED BY <1>3, <1>4 DEF Data

LEMMA AskedData ==
  ASSUME NEW s, NEW k, NEW from, Asked(s, k, from), Late(k) # {}, k \in Rows, bound,
         UNCHANGED <<cfg, apd, bound>>, ApdFits(apd)
  PROVE  Data'
<1>1. /\ call' = "none" /\ stmt'.row = k
      /\ stmt'.flagged = Late(k) /\ stmt'.bufs = NoData
      /\ stmt'.dae = Cardinality({p \in stmt'.flagged : p > stmt'.cep})
      /\ \A q \in stmt'.flagged : ~(q < stmt'.cep)
      /\ \/ odbc' = "need_data" /\ stmt'.cep = 0
         \/ odbc' = "must_put" /\ stmt'.cep \in stmt'.flagged
  BY DEF Asked
<1>2. Late(k) = apd.daeOf[k] /\ Late(k) \subseteq Params BY DEF Late, ApdFits
<1>3. \A p \in Params : NoData[p] = 0 BY DEF NoData
<1>4. AskingData'
  <2>1. stmt'.row \in Rows /\ stmt'.flagged = apd'.daeOf[stmt'.row] /\ stmt'.flagged # {} BY <1>1, <1>2
  <2>2. \A p \in stmt'.flagged : p < stmt'.cep => stmt'.bufs[p] = stmt'.row BY <1>1
  <2>3. \A p \in stmt'.flagged : stmt'.bufs[p] = 0 BY <1>1, <1>2, <1>3
  <2>4. /\ odbc' = "need_data" => stmt'.cep = 0
        /\ odbc' # "need_data" => stmt'.cep \in stmt'.flagged
        /\ odbc' = "must_put" => stmt'.bufs[stmt'.cep] = 0
        /\ odbc' # "can_put"
    BY <1>1, <2>3
  <2> QED BY <1>1, <2>1, <2>2, <2>3, <2>4 DEF AskingData
<1>5. RunningData' /\ CancelledData' /\ PutFirst'
  BY <1>1 DEF RunningData, Running, CancelledData, PutFirst
<1> QED BY <1>4, <1>5 DEF Data

\* Nothing but the statement and where the call is.
Same == UNCHANGED <<cfg, apd, bound>>

\* Lists of rows stay lists of rows.
LEMMA TripTypes ==
  ASSUME ApdFits(apd), NEW k \in Slots, NEW from \in Seq(Slots)
  PROVE  from \o Trip(k) \in Seq(Slots)
<1>1. Live \subseteq Slots BY LiveRows
<1>2. Trip(k) \in Seq(Slots)
  <2>1. CASE Batch BY <1>1, <2>1, TripLists
  <2>2. CASE ~Batch
    <3>1. Trip(k) = <<k>> BY <2>2, TripLists
    <3> QED BY <3>1
  <2> QED BY <2>1, <2>2
<1> QED BY <1>2

\* What the status array can hold.
Words == {"none", "UNUSED", "ERROR", "SUCCESS", "INFO"}

LEMMA OutcomeFits ==
  ASSUME ApdFits(apd), bound \in BOOLEAN, cfg \in Configs, Same,
         odbc \in {"allocated", "prepared", "executed", "cancelled"} \cup Waiting,
         NEW s, NEW k \in Slots, NEW from \in Seq(Slots), NEW who \in {"Execute", "ParamData"},
         NEW code,
         Stopped(code, from) \/ Started(s, k, from, who) \/ Asked(s, k, from),
         accepted' \subseteq Slots, pstat' \in [Slots -> Words]
  PROVE  Fits'
<1>1. ApdFits(apd)' /\ (bound \in BOOLEAN)' /\ (cfg \in Configs)' BY DEF ApdFits, Same
<1>2. CASE Stopped(code, from)
  <2>1. /\ StmtFits(stmt') /\ call' = "none" /\ phase' = "next" /\ sent' = from
        /\ odbc' \in {"allocated", "prepared", "executed"}
    BY <1>2 DEF Stopped
  <2> QED BY <1>1, <2>1 DEF Fits, Words
<1>3. CASE Started(s, k, from, who)
  <2>1. /\ StmtFits(stmt') /\ call' = who /\ phase' = "exec" /\ sent' = from \o Trip(k)
        /\ odbc' = odbc /\ stmt'.row = k
    BY <1>3 DEF Started
  <2>2. sent' \in Seq(Slots) BY <2>1, TripTypes
  <2> QED BY <1>1, <2>1, <2>2 DEF Fits, Words
<1>4. CASE Asked(s, k, from)
  <2>1. /\ StmtFits(stmt') /\ call' = "none" /\ phase' = "next" /\ sent' = from
        /\ odbc' \in {"need_data", "must_put"}
    BY <1>4 DEF Asked
  <2> QED BY <1>1, <2>1 DEF Fits, Words, Waiting
<1> QED BY <1>2, <1>3, <1>4

LEMMA RunRowData ==
  ASSUME ApdFits(apd), bound \in BOOLEAN, cfg \in Configs, Same,
         odbc \in {"allocated", "prepared", "executed", "cancelled"} \cup Waiting,
         odbc # "must_put",
         NEW s, StmtFits(s), s.row \in Slots, NEW ps \in [Slots -> Words],
         NEW from \in Seq(Slots), NEW who \in {"Execute", "ParamData"},
         RunRow(s, ps, from, who), accepted' \subseteq Slots
  PROVE  Fits' /\ Data'
<1> DEFINE k == FirstRow(s.row, LastRow(s))
<1>1. \/ k = 0 /\ Stopped("SUCCESS", from) /\ pstat' = ps
      \/ /\ k \in Slots /\ pstat' = [ps EXCEPT ![k] = "ERROR"]
         /\ \/ Stopped("ERROR", from)
            \/ Late(k) = {} /\ Started(Bare(s), k, from, who)
            \/ Late(k) # {} /\ k \in Rows /\ bound /\ Asked(s, k, from)
  BY RunRowCases
<1> HIDE DEF k
<1>2. CASE k = 0 /\ Stopped("SUCCESS", from) /\ pstat' = ps
  <2>1. Fits' BY <1>2, OutcomeFits
  <2>2. Data' BY <1>2, QuietData DEF Stopped, Waiting
  <2> QED BY <2>1, <2>2
<1>3. CASE k \in Slots /\ pstat' = [ps EXCEPT ![k] = "ERROR"]
           /\ \/ Stopped("ERROR", from)
              \/ Late(k) = {} /\ Started(Bare(s), k, from, who)
              \/ Late(k) # {} /\ k \in Rows /\ bound /\ Asked(s, k, from)
  <2>1. pstat' \in [Slots -> Words] BY <1>3 DEF Words
  <2>2. ASSUME Stopped("ERROR", from) \/ Started(Bare(s), k, from, who) \/ Asked(s, k, from)
        PROVE  Fits'
    <3>1. k \in Slots BY <1>3
    <3>2. CASE Stopped("ERROR", from) BY <2>1, <3>1, <3>2, OutcomeFits
    <3>3. CASE Started(Bare(s), k, from, who)
      <4> DEFINE b == Bare(s)
      <4>1. Started(b, k, from, who) BY <3>3
      <4> HIDE DEF b
      <4> QED BY <2>1, <3>1, <4>1, OutcomeFits
    <3>4. CASE Asked(s, k, from) BY <2>1, <3>1, <3>4, OutcomeFits
    <3> QED BY <2>2, <3>2, <3>3, <3>4
  <2>3. CASE Stopped("ERROR", from) BY <2>2, <2>3, QuietData DEF Stopped, Waiting
  <2>4. CASE Late(k) = {} /\ Started(Bare(s), k, from, who)
    <3>1. Bare(s).flagged = Late(k) /\ Bare(s).dae = -1 /\ Bare(s).flagged = {} /\ who # "none"
      BY <2>4, BareFields
    <3>2. Data' BY <2>4, <3>1, StartedData DEF Same
    <3> QED BY <2>2, <2>4, <3>2
  <2>5. CASE Late(k) # {} /\ k \in Rows /\ bound /\ Asked(s, k, from) BY <2>2, <2>5, AskedData DEF Same
  <2> QED BY <1>3, <2>3, <2>4, <2>5
<1> QED BY <1>1, <1>2, <1>3

LEMMA ExecuteData ==
  ASSUME Fits, Data, Between, Same, NEW s, StmtFits(s), Execute(s)
  PROVE  Fits' /\ Data'
<1>1. /\ ApdFits(apd) /\ bound \in BOOLEAN /\ cfg \in Configs /\ pstat \in [Slots -> Words]
      /\ odbc \in {"allocated", "prepared", "executed", "cancelled"} \cup Waiting
      /\ odbc # "must_put" /\ << >> \in Seq(Slots)
  BY DEF Fits, Words, Between, Waiting
<1>2. /\ accepted' = {}
      /\ \/ \E t, ps :
               /\ StmtFits(t) /\ t.row \in Slots
               /\ \/ ps = pstat
                  \/ ps = [r \in Slots |-> IF r <= LastRow(t) THEN "UNUSED" ELSE pstat[r]]
               /\ RunRow(t, ps, << >>, "Execute")
         \/ Stopped("ERROR", << >>) /\ pstat' = pstat
  BY <1>1, ExecuteCases, Zenon
<1>3. accepted' \subseteq Slots BY <1>2
<1>4. ASSUME NEW t, NEW ps, StmtFits(t), t.row \in Slots,
             ps = pstat \/ ps = [r \in Slots |-> IF r <= LastRow(t) THEN "UNUSED" ELSE pstat[r]],
             RunRow(t, ps, << >>, "Execute")
      PROVE  Fits' /\ Data'
  <2>1. ps \in [Slots -> Words] BY <1>1, <1>4 DEF Words
  <2>2. "Execute" \in {"Execute", "ParamData"} OBVIOUS
  <2> QED BY <1>1, <1>3, <1>4, <2>1, <2>2, RunRowData
<1>5. CASE Stopped("ERROR", << >>) /\ pstat' = pstat
  <2>1. 1 \in Slots BY BoundAssumption DEF Slots
  <2>2. Fits' BY <1>1, <1>3, <1>5, <2>1, OutcomeFits
  <2>3. Data' BY <1>5, QuietData DEF Stopped, Waiting
  <2> QED BY <2>2, <2>3
<1> QED BY <1>2, <1>4, <1>5

--------------------
(* Types and data: every step keeps them.                                  *)

\* A step that leaves all but the statement and the descriptors of the call alone.
LEMMA CalmFits ==
  ASSUME Fits, ApdFits(apd'), bound' \in BOOLEAN, cfg' = cfg, StmtFits(stmt'), call' = "none",
         UNCHANGED phase,
         odbc' \in {"allocated", "prepared", "executed", "cancelled"} \cup Waiting,
         sent' = sent \/ sent' = << >>, accepted' = accepted \/ accepted' = {},
         pstat' = pstat \/ pstat' = [r \in Slots |-> "none"]
  PROVE  Fits'
<1>1. sent' \in Seq(Slots)
  <2>1. sent \in Seq(Slots) /\ << >> \in Seq(Slots) BY DEF Fits
  <2> QED BY <2>1
<1>2. accepted' \subseteq Slots BY DEF Fits
<1>3. pstat' \in [Slots -> {"none", "UNUSED", "ERROR", "SUCCESS", "INFO"}] BY DEF Fits
<1> QED BY <1>1, <1>2, <1>3 DEF Fits

LEMMA SetParamsData ==
  ASSUME DInv, NEW b \in Bindings, SetParams(b)
  PROVE  Fits' /\ Data'
<1>1. ApdFits(b)
  <2>1. /\ b \in Arrays /\ b.ignored \subseteq 1..b.size
        /\ \A r \in Rows : b.daeOf[r] \cap b.nullOf[r] = {}
    <3>1. /\ b \in Arrays
          /\ b.ignored \cup {r \in Rows : b.daeOf[r] # {}} \subseteq 1..b.size
          /\ \A r \in Rows : b.daeOf[r] \cap b.nullOf[r] = {}
      BY BindingAssumption, Zenon
    <3> QED BY <3>1
  <2>2. /\ b.size \in Rows /\ b.daeOf \in [Rows -> SUBSET Params]
        /\ b.nullOf \in [Rows -> SUBSET Params]
    BY <2>1 DEF Arrays
  <2> QED BY <2>1, <2>2 DEF ApdFits
<1>2. /\ call = "none" /\ odbc \notin Waiting /\ apd' = b /\ pstat' = [r \in Slots |-> "none"]
      /\ sent' = << >> /\ accepted' = {} /\ UNCHANGED <<cfg, stmt, bound, call, phase, odbc>>
  BY DEF SetParams, Between, Ready, callVars
<1>3. Fits' BY <1>1, <1>2, CalmFits DEF DInv, Fits
<1>4. Data' BY <1>2, QuietData DEF DInv, Data, CancelledData
<1> QED BY <1>3, <1>4

\* A step between two executions that moves data_at_exec and current_exec_param back or not.
LEMMA CalmData ==
  ASSUME DInv, Between, UNCHANGED <<cfg, apd, pstat, callVars>>, StmtFits(stmt'),
         bound' \in BOOLEAN, odbc' = odbc \/ odbc' \in {"allocated", "prepared"},
         sent' = sent \/ sent' = << >>, accepted' = accepted \/ accepted' = {},
         \/ stmt'.dae = -1 /\ stmt'.cep = 0
         \/ stmt'.dae = stmt.dae /\ stmt'.cep = stmt.cep
  PROVE  Fits' /\ Data'
<1>1. /\ call = "none" /\ call' = "none" /\ odbc \notin Waiting /\ phase' = phase /\ Fits
      /\ CancelledData
  BY DEF Between, Ready, callVars, DInv, Data
<1>2. ApdFits(apd') BY <1>1 DEF Fits
<1>3. odbc' \in {"allocated", "prepared", "executed", "cancelled"} \cup Waiting BY <1>1 DEF Fits
<1>4. Fits' BY <1>1, <1>2, <1>3, CalmFits
<1>5. odbc' \notin Waiting BY <1>1 DEF Waiting
<1>6. odbc' = "cancelled" => stmt'.dae = -1 /\ stmt'.cep = 0 BY <1>1 DEF CancelledData
<1> QED BY <1>1, <1>4, <1>5, <1>6, QuietData

LEMMA BindParameterData ==
  ASSUME DInv, BindParameter
  PROVE  Fits' /\ Data' /\ stmt'.row = stmt.row
<1> DEFINE s1 == FreePut(stmt)
<1>1. StmtFits(stmt) BY DEF DInv, Fits
<1>2. StmtFits(s1) /\ s1.dae = stmt.dae /\ s1.cep = stmt.cep /\ s1.row = stmt.row BY <1>1, FreePutKeeps
<1>3. stmt' = s1 \/ stmt' = Recycle(s1) BY DEF BindParameter
<1> HIDE DEF s1
<1>4. /\ StmtFits(stmt') /\ stmt'.row = stmt.row
      /\ \/ stmt'.dae = -1 /\ stmt'.cep = 0
         \/ stmt'.dae = stmt.dae /\ stmt'.cep = stmt.cep
  BY <1>2, <1>3, RecycleKeeps
<1>5. /\ Between /\ UNCHANGED <<cfg, apd, pstat, callVars, odbc, sent, accepted>>
      /\ bound' \in BOOLEAN
  BY Zenon DEF BindParameter, extend_parameter_bindings
<1> QED BY <1>4, <1>5, CalmData

LEMMA PrepareData ==
  ASSUME DInv, Prepare
  PROVE  Fits' /\ Data' /\ stmt'.row = stmt.row
<1>1. StmtFits(stmt) /\ bound \in BOOLEAN BY DEF DInv, Fits
<1>2. PICK s1, yes, no :
        /\ s1 = stmt \/ s1 = Recycle(stmt)
        /\ yes \in Truths /\ no \in Truths
        /\ stmt' = [s1 EXCEPT !.status = "READY", !.prepare = yes, !.prepared = no]
  BY Zenon DEF Prepare, Truths
<1>3. /\ StmtFits(s1) /\ s1.row = stmt.row
      /\ \/ s1.dae = -1 /\ s1.cep = 0
         \/ s1.dae = stmt.dae /\ s1.cep = stmt.cep
  BY <1>1, <1>2, RecycleKeeps
<1>4. /\ stmt' = [f \in StmtFields |-> stmt'[f]] /\ stmt'.status = "READY" /\ stmt'.row = s1.row
      /\ stmt'.prepare = yes /\ stmt'.prepared = no /\ stmt'.row \in 0..(MaxRows + 1)
      /\ \A f \in StmtFields \ {"status", "prepare", "prepared"} : stmt'[f] = s1[f]
  BY <1>2, <1>3 DEF StmtFits, StmtFields
<1>5. StmtFits(stmt') /\ stmt'.dae = s1.dae /\ stmt'.cep = s1.cep
  <2>1. /\ stmt'.prepare \in Truths /\ stmt'.prepared \in Truths
        /\ \A f \in StmtFields \ {"row", "status", "prepare", "prepared"} : stmt'[f] = s1[f]
    BY <1>2, <1>4
  <2>2. StmtFits(s1) /\ stmt' = [f \in StmtFields |-> stmt'[f]] /\ stmt'.row \in 0..(MaxRows + 1)
        /\ stmt'.status \in {"ALLOCATED", "READY", "DESCRIBED", "FINISHED", "EXECUTING"}
    BY <1>3, <1>4
  <2> QED BY <2>1, <2>2, OthersKeep
<1>6. /\ Between /\ UNCHANGED <<cfg, apd, bound, pstat, callVars, sent, accepted>>
      /\ odbc' = "prepared"
  BY DEF Prepare
<1> QED BY <1>1, <1>3, <1>4, <1>5, <1>6, CalmData

LEMMA DescribeData ==
  ASSUME DInv, Describe
  PROVE  Fits' /\ Data' /\ stmt'.row = stmt.row
<1>1. /\ StmtFits(stmt) /\ bound \in BOOLEAN
      /\ stmt.prepare \in Truths /\ stmt.prepared \in Truths /\ stmt.row \in 0..(MaxRows + 1)
      /\ stmt.status \in {"ALLOCATED", "READY", "DESCRIBED", "FINISHED", "EXECUTING"}
  BY Zenon DEF DInv, Fits, StmtFits, Truths
<1>2. PICK yes : /\ yes \in Truths
                 /\ \/ stmt' = [stmt EXCEPT !.prepared = yes]
                    \/ stmt' = [stmt EXCEPT !.status = "DESCRIBED"]
  BY Zenon DEF Describe, Truths
<1>3. /\ stmt' = [f \in StmtFields |-> stmt'[f]]
      /\ stmt'.row = stmt.row /\ stmt'.prepare = stmt.prepare
      /\ stmt'.prepared \in {yes, stmt.prepared} /\ stmt'.status \in {stmt.status, "DESCRIBED"}
      /\ \A f \in StmtFields \ {"status", "prepared"} : stmt'[f] = stmt[f]
  BY <1>1, <1>2 DEF StmtFits, StmtFields
<1>4. /\ stmt'.status \in {"ALLOCATED", "READY", "DESCRIBED", "FINISHED", "EXECUTING"}
      /\ stmt'.prepare \in Truths /\ stmt'.prepared \in Truths
  BY <1>1, <1>2, <1>3
<1>5. StmtFits(stmt') /\ stmt'.dae = stmt.dae /\ stmt'.cep = stmt.cep BY <1>1, <1>3, <1>4, OthersKeep
<1> QED BY <1>1, <1>3, <1>5, CalmData DEF Describe

LEMMA CloseData ==
  ASSUME DInv, CloseStmt \/ ResetParams
  PROVE  Fits' /\ Data' /\ stmt'.row \in {stmt.row, 0}
<1>1. StmtFits(stmt) /\ bound \in BOOLEAN BY DEF DInv, Fits
<1>2. CASE CloseStmt BY <1>1, <1>2, RecycleKeeps, CalmData DEF CloseStmt, Fallen
<1>3. CASE ResetParams
  <2>1. bound' \in BOOLEAN BY <1>3, Zenon DEF ResetParams
  <2> QED BY <1>1, <1>3, <2>1, FreeAllKeeps, CalmData DEF ResetParams
<1> QED BY <1>2, <1>3

LEMMA SQLExecuteData ==
  ASSUME DInv, SQLExecute \/ SQLExecDirect
  PROVE  Fits' /\ Data'
<1>1. StmtFits(stmt) /\ Fits /\ Data BY DEF DInv, Fits
<1>2. CASE SQLExecute
  <2> DEFINE s == [stmt EXCEPT !.row = 0]
  <2>1. StmtFits(s) BY <1>1, BoundAssumption, RowKeeps
  <2>2. Between /\ Same /\ Execute(s) BY <1>2 DEF SQLExecute, Same
  <2> HIDE DEF s
  <2> QED BY <1>1, <2>1, <2>2, ExecuteData
<1>3. CASE SQLExecDirect
  <2> DEFINE b == [stmt EXCEPT !.prepare = FALSE, !.prepared = FALSE]
             s == Recycle(b)
  <2>1. StmtFits(b) BY <1>1, DirectKeeps
  <2>2. StmtFits(s) BY <2>1, RecycleKeeps
  <2>3. Between /\ Same /\ Execute(s) BY <1>3 DEF SQLExecDirect, Same
  <2> HIDE DEF s
  <2> QED BY <1>1, <2>2, <2>3, ExecuteData
<1> QED BY <1>2, <1>3

LEMMA SQLParamDataData ==
  ASSUME DInv, SQLParamData
  PROVE  Fits' /\ Data'
<1>1. /\ Fits /\ StmtFits(stmt) /\ ApdFits(apd) /\ AskingData /\ CancelledData /\ PutFirst
      /\ RunningData /\ call = "none" /\ odbc \in {"need_data", "can_put", "cancelled"}
      /\ Same /\ UNCHANGED <<pstat, accepted>>
  BY DEF DInv, Data, Fits, SQLParamData, Ready, Same
<1>2. /\ accepted' \subseteq Slots /\ pstat' \in [Slots -> Words] /\ bound \in BOOLEAN
      /\ cfg \in Configs /\ sent \in Seq(Slots) /\ stmt.dae \in Int
      /\ odbc \in {"allocated", "prepared", "executed", "cancelled"} \cup Waiting
  BY <1>1 DEF Fits, Words, StmtFits
<1>3. CASE stmt.dae < 0
  <2>1. UNCHANGED <<stmt, call, phase, odbc, sent>> BY <1>3 DEF SQLParamData
  <2>2. ApdFits(apd') /\ bound' \in BOOLEAN /\ cfg' = cfg BY <1>1, <1>2 DEF Same
  <2>3. Fits' BY <1>1, <1>2, <2>1, <2>2, CalmFits
  <2>4. Data'
    BY <1>1, <2>1 DEF Data, RunningData, AskingData, CancelledData, PutFirst, Running, Asking, Late, Same
  <2> QED BY <2>3, <2>4
<1>4. ASSUME ~(stmt.dae < 0)
      PROVE  /\ Asking /\ odbc \in {"need_data", "can_put"}
             /\ bound /\ stmt.row \in Rows /\ stmt.row \in Slots
             /\ stmt.flagged = apd.daeOf[stmt.row]
             /\ stmt.flagged # {} /\ stmt.flagged \subseteq Params
             /\ stmt.dae = Cardinality({p \in stmt.flagged : p > stmt.cep})
             /\ \A p \in stmt.flagged : p < stmt.cep => stmt.bufs[p] = stmt.row
             /\ \A p \in stmt.flagged : p > stmt.cep => stmt.bufs[p] = 0
             /\ stmt.cep \in stmt.flagged => stmt.bufs[stmt.cep] = stmt.row
             /\ stmt.cep \notin stmt.flagged => stmt.cep = 0
  <2>1. odbc # "cancelled" BY <1>1, <1>4 DEF CancelledData
  <2>2. Asking /\ odbc \in {"need_data", "can_put"} BY <1>1, <2>1 DEF Asking, Waiting
  <2>3. /\ bound /\ stmt.row \in Rows /\ stmt.flagged = apd.daeOf[stmt.row] /\ stmt.flagged # {}
        /\ stmt.dae = Cardinality({p \in stmt.flagged : p > stmt.cep})
        /\ \A p \in stmt.flagged : p < stmt.cep => stmt.bufs[p] = stmt.row
        /\ \A p \in stmt.flagged : p > stmt.cep => stmt.bufs[p] = 0
        /\ odbc = "need_data" => stmt.cep = 0
        /\ odbc # "need_data" => stmt.cep \in stmt.flagged
        /\ odbc = "can_put" => stmt.bufs[stmt.cep] = stmt.row
    BY <1>1, <2>2 DEF AskingData
  <2>4. stmt.row \in Slots /\ stmt.flagged \subseteq Params /\ 0 \notin Params
    BY <1>1, <2>3, LiveRows DEF StmtFits, Params
  <2> QED BY <2>2, <2>3, <2>4
<1>5. CASE stmt.dae = 0
  <2>1. StartExec(stmt, sent, "ParamData") /\ ~(stmt.dae < 0) BY <1>2, <1>5 DEF SQLParamData
  <2>2. Stopped("ERROR", sent) \/ Started(stmt, stmt.row, sent, "ParamData")
    BY <1>1, <1>4, <2>1, StartExecCases
  <2>3. "ParamData" \in {"Execute", "ParamData"} OBVIOUS
  <2>4. CASE Stopped("ERROR", sent)
    <3>1. Fits' BY <1>1, <1>2, <1>4, <2>1, <2>3, <2>4, OutcomeFits
    <3>2. Data' BY <2>4, QuietData DEF Stopped, Waiting
    <3> QED BY <3>1, <3>2
  <2>5. CASE Started(stmt, stmt.row, sent, "ParamData")
    <3>1. Fits' BY <1>1, <1>2, <1>4, <2>1, <2>3, <2>5, OutcomeFits
    <3>2. {p \in stmt.flagged : p > stmt.cep} = {}
      <4> DEFINE F == {p \in stmt.flagged : p > stmt.cep}
      <4>1. F \in SUBSET Params /\ Cardinality(F) = 0 BY <1>4, <1>5, <2>1
      <4> HIDE DEF F
      <4>2. F = {} BY <4>1, FinitelyMany
      <4> QED BY <4>2 DEF F
    <3>3. \A p \in stmt.flagged : p \in Int /\ p > 0 BY <1>4, <2>1, BoundAssumption DEF Params
    <3>4. ASSUME NEW p \in stmt.flagged
          PROVE  stmt.bufs[p] = stmt.row
      <4>1. stmt.cep \in Int BY <1>1, BoundAssumption DEF StmtFits
      <4>2. ~(p > stmt.cep) BY <3>2
      <4>3. p < stmt.cep \/ p = stmt.cep BY <3>3, <4>1, <4>2
      <4> QED BY <1>4, <2>1, <4>3
    <3>5. stmt.flagged = Late(stmt.row) BY <1>4, <2>1 DEF Late
    <3>6. odbc # "must_put" /\ odbc # "cancelled" BY <1>4, <2>1
    <3>7. Data' BY <1>1, <2>5, <3>4, <3>5, <3>6, StartedData DEF Same
    <3> QED BY <3>1, <3>7
  <2> QED BY <2>2, <2>4, <2>5
<1>6. CASE ~(stmt.dae < 0) /\ stmt.dae # 0
  <2> DEFINE t == Token(stmt)
  <2>1. Return(t, "NEED_DATA", "must_put") /\ sent' = sent BY <1>6 DEF SQLParamData
  <2>2. /\ StmtFits(t) /\ t.row = stmt.row /\ t.flagged = stmt.flagged
        /\ t.bufs = stmt.bufs /\ t.cep \in stmt.flagged /\ t.cep > stmt.cep
        /\ \A q \in stmt.flagged : q > stmt.cep => t.cep <= q
        /\ t.dae = Cardinality({p \in stmt.flagged : p > t.cep})
    BY <1>1, <1>4, <1>6, TokenCounts
  <2> HIDE DEF t
  <2>3. /\ stmt' = t /\ call' = "none" /\ phase' = "next" /\ odbc' = "must_put" BY <2>1 DEF Return
  <2>4. Fits'
    <3>1. ApdFits(apd') /\ bound' \in BOOLEAN /\ cfg' = cfg BY <1>1, <1>2 DEF Same
    <3>2. StmtFits(stmt') /\ sent' \in Seq(Slots) BY <1>2, <2>1, <2>2, <2>3
    <3> QED BY <1>2, <2>3, <3>1, <3>2 DEF Fits, Words, Waiting, Same
  <2>5. stmt.cep \in Int /\ \A p \in stmt.flagged : p \in Int
    BY <1>1, <1>4, <1>6, BoundAssumption DEF StmtFits, Params
  <2>6. ASSUME NEW p \in stmt.flagged
        PROVE  /\ p < t.cep => stmt.bufs[p] = stmt.row
               /\ p >= t.cep => stmt.bufs[p] = 0
    <3>1. t.cep \in Int /\ p \in Int BY <2>2, <2>5
    <3>2. p < t.cep => p < stmt.cep \/ p = stmt.cep BY <2>2, <2>5, <3>1
    <3>3. p >= t.cep => p > stmt.cep BY <2>2, <2>5, <3>1
    <3> QED BY <1>4, <1>6, <3>2, <3>3
  <2>7. AskingData'
    <3>1. /\ bound' /\ stmt'.row \in Rows /\ stmt'.flagged = apd'.daeOf[stmt'.row]
          /\ stmt'.flagged # {}
          /\ stmt'.dae = Cardinality({p \in stmt'.flagged : p > stmt'.cep})
      BY <1>1, <1>4, <1>6, <2>2, <2>3 DEF Same
    <3>2. /\ \A p \in stmt'.flagged : p < stmt'.cep => stmt'.bufs[p] = stmt'.row
          /\ \A p \in stmt'.flagged : p > stmt'.cep => stmt'.bufs[p] = 0
          /\ stmt'.cep \in stmt'.flagged /\ stmt'.bufs[stmt'.cep] = 0
      BY <2>2, <2>3, <2>5, <2>6
    <3> QED BY <2>3, <3>1, <3>2 DEF AskingData
  <2>8. RunningData' /\ CancelledData' /\ PutFirst'
    BY <2>3 DEF RunningData, Running, CancelledData, PutFirst
  <2> QED BY <2>4, <2>7, <2>8 DEF Data
<1> QED BY <1>2, <1>3, <1>5, <1>6

LEMMA SQLPutDataData ==
  ASSUME DInv, SQLPutData
  PROVE  /\ Fits' /\ Data'
         /\ \/ UNCHANGED <<stmt, odbc>>
            \/ Asking /\ Asking' /\ stmt'.row = stmt.row /\ stmt'.endRow = stmt.endRow
<1>1. /\ Fits /\ StmtFits(stmt) /\ AskingData /\ CancelledData
      /\ RunningData /\ call = "none" /\ odbc \in {"must_put", "can_put", "cancelled"}
      /\ Same /\ UNCHANGED <<pstat, accepted, sent, call, phase>>
  BY DEF DInv, Data, Fits, SQLPutData, Ready, Same, callVars
<1>2. /\ stmt.row \in 0..(MaxRows + 1) /\ stmt.cep \in 0..NumParams /\ MaxRows \in Nat
      /\ stmt = [f \in StmtFields |-> stmt[f]]
      /\ stmt.bufs \in [Params -> 0..MaxRows]
  BY <1>1, BoundAssumption DEF StmtFits
<1>3. ApdFits(apd') /\ bound' \in BOOLEAN /\ cfg' = cfg BY <1>1 DEF Same, Fits
<1>4. CASE stmt.cep = 0
  <2>1. UNCHANGED <<stmt, odbc>> BY <1>4 DEF SQLPutData
  <2>2. Fits' BY <1>1, <1>3, <2>1, CalmFits DEF Fits
  <2>3. Data'
    BY <1>1, <2>1 DEF Data, RunningData, AskingData, CancelledData, PutFirst, Running, Asking, Late, Same
  <2> QED BY <2>1, <2>2, <2>3
<1>5. CASE stmt.cep # 0
  <2>1. Asking BY <1>1, <1>5 DEF CancelledData, Asking, Waiting
  <2>2. /\ bound /\ stmt.row \in Rows /\ stmt.flagged = apd.daeOf[stmt.row] /\ stmt.flagged # {}
        /\ stmt.dae = Cardinality({p \in stmt.flagged : p > stmt.cep})
        /\ \A p \in stmt.flagged : p < stmt.cep => stmt.bufs[p] = stmt.row
        /\ \A p \in stmt.flagged : p > stmt.cep => stmt.bufs[p] = 0
        /\ stmt.cep \in stmt.flagged
    BY <1>1, <1>5, <2>1 DEF AskingData
  <2>3. PICK yes : /\ yes \in Truths /\ odbc' = "can_put"
                   /\ stmt' = [stmt EXCEPT !.put = yes,
                                            !.bufs = [stmt.bufs EXCEPT ![stmt.cep] = stmt.row]]
    <3>1. /\ odbc' = "can_put"
          /\ stmt' = [stmt EXCEPT !.put = TRUE, !.bufs = [stmt.bufs EXCEPT ![stmt.cep] = stmt.row]]
      BY <1>5 DEF SQLPutData
    <3> QED BY <3>1, Zenon DEF Truths
  <2> DEFINE bufs == [stmt.bufs EXCEPT ![stmt.cep] = stmt.row]
  <2>4. stmt.flagged \subseteq Params /\ stmt.cep \in Params /\ stmt.row \in 0..MaxRows
    BY <1>1, <1>2, <2>2 DEF StmtFits, Rows
  <2>5. /\ bufs \in [Params -> 0..MaxRows] /\ bufs[stmt.cep] = stmt.row
        /\ \A p \in Params : p # stmt.cep => bufs[p] = stmt.bufs[p]
    BY <1>2, <2>4
  <2>6. stmt' = [stmt EXCEPT !.put = yes, !.bufs = bufs] BY <2>3
  <2> HIDE DEF bufs
  <2>7. /\ stmt' = [f \in StmtFields |-> stmt'[f]] /\ stmt'.put = yes /\ stmt'.bufs = bufs
        /\ \A f \in StmtFields \ {"put", "bufs"} : stmt'[f] = stmt[f]
    BY <1>2, <2>6 DEF StmtFields
  <2>8. /\ stmt'.row = stmt.row /\ stmt'.endRow = stmt.endRow /\ stmt'.dae = stmt.dae
        /\ stmt'.cep = stmt.cep /\ stmt'.flagged = stmt.flagged /\ stmt'.status = stmt.status
        /\ stmt'.prepare = stmt.prepare /\ stmt'.prepared = stmt.prepared
    BY <2>7 DEF StmtFields
  <2>9. StmtFits(stmt') BY <1>1, <2>3, <2>5, <2>7, <2>8, Zenon DEF StmtFits, Truths
  <2>10. /\ odbc' = "can_put"
         /\ odbc' \in {"allocated", "prepared", "executed", "cancelled"} \cup Waiting
    BY <2>3 DEF Waiting
  <2>11. Fits' BY <1>1, <1>3, <2>9, <2>10, CalmFits
  <2>12. AskingData'
    <3>1. /\ bound' /\ stmt'.row \in Rows /\ stmt'.flagged = apd'.daeOf[stmt'.row]
          /\ stmt'.flagged # {}
          /\ stmt'.dae = Cardinality({p \in stmt'.flagged : p > stmt'.cep})
      BY <1>1, <2>2, <2>8 DEF Same
    <3>2. stmt.cep \in Int /\ \A p \in stmt.flagged : p \in Int BY <1>2, <2>4, BoundAssumption DEF Params
    <3>3. \A p \in stmt.flagged : p # stmt.cep => bufs[p] = stmt.bufs[p] BY <2>4, <2>5
    <3>4. /\ \A p \in stmt.flagged : p < stmt.cep => p # stmt.cep
          /\ \A p \in stmt.flagged : p > stmt.cep => p # stmt.cep
      BY <3>2
    <3>5. /\ \A p \in stmt'.flagged : p < stmt'.cep => stmt'.bufs[p] = stmt'.row
          /\ \A p \in stmt'.flagged : p > stmt'.cep => stmt'.bufs[p] = 0
          /\ stmt'.cep \in stmt'.flagged /\ stmt'.bufs[stmt'.cep] = stmt'.row
      BY <2>2, <2>5, <2>7, <2>8, <3>3, <3>4
    <3> QED BY <2>10, <3>1, <3>5 DEF AskingData
  <2>13. RunningData' /\ CancelledData' /\ PutFirst'
    BY <1>1, <2>10 DEF RunningData, Running, CancelledData, PutFirst
  <2>14. Asking' BY <1>1, <2>10 DEF Asking, Waiting
  <2> QED BY <2>1, <2>8, <2>11, <2>12, <2>13, <2>14 DEF Data
<1> QED BY <1>4, <1>5

\* What a reply leaves of the statement.
LEMMA ReplyStmt ==
  ASSUME StmtFits(stmt), NEW t, NEW r \in 0..(MaxRows + 1), NEW b \in Truths,
         t = [stmt EXCEPT !.status = "FINISHED", !.prepared = b, !.row = r]
  PROVE  /\ StmtFits(t) /\ t.row = r /\ t.endRow = stmt.endRow /\ t.dae = stmt.dae
         /\ t.cep = stmt.cep /\ t.flagged = stmt.flagged /\ t.bufs = stmt.bufs
<1>1. /\ t = [f \in StmtFields |-> t[f]] /\ t.status = "FINISHED" /\ t.prepared = b /\ t.row = r
      /\ t.prepare = stmt.prepare
      /\ \A f \in StmtFields \ {"row", "status", "prepare", "prepared"} : t[f] = stmt[f]
  BY DEF StmtFits, StmtFields
<1>2. stmt.prepare \in Truths BY Zenon DEF StmtFits, Truths
<1>3. /\ t.prepare \in Truths /\ t.prepared \in Truths /\ t.row \in 0..(MaxRows + 1)
      /\ t.status \in {"ALLOCATED", "READY", "DESCRIBED", "FINISHED", "EXECUTING"}
  BY <1>1, <1>2
<1>4. /\ StmtFits(t) /\ t.endRow = stmt.endRow /\ t.dae = stmt.dae
      /\ t.cep = stmt.cep /\ t.flagged = stmt.flagged /\ t.bufs = stmt.bufs
  <2>1. /\ StmtFits(stmt) /\ t = [f \in StmtFields |-> t[f]]
        /\ \A f \in StmtFields \ {"row", "status", "prepare", "prepared"} : t[f] = stmt[f]
    BY <1>1
  <2> QED BY ONLY <1>3, <2>1, OthersKeep
<1> QED BY <1>1, <1>4

\* A reply ends the execution, or the next row is looked for.
Replied(kind) ==
  \/ /\ AtEnd /\ stmt'.row = 0 /\ call' = "none" /\ phase' = "next" /\ ret' = kind
     /\ odbc' = "executed"
  \/ /\ ~AtEnd /\ stmt'.row = stmt.row + 1 /\ call' = call /\ phase' = "next" /\ ret' = ret
     /\ odbc' = odbc

LEMMA ReplyOkCases ==
  ASSUME Fits, NEW kind, ReplyOk(kind)
  PROVE  /\ StmtFits(stmt') /\ Replied(kind)
         /\ stmt'.endRow = stmt.endRow /\ stmt'.dae = stmt.dae /\ stmt'.cep = stmt.cep
<1>1. StmtFits(stmt) /\ MaxRows \in Nat /\ stmt.row \in Nat BY BoundAssumption DEF Fits, StmtFits
<1>2. PICK b : b \in Truths /\ b = (stmt.prepared \/ (stmt.prepare /\ cfg.named)) BY Zenon DEF Truths
<1> DEFINE s1 == [stmt EXCEPT !.status = "FINISHED", !.prepared = b]
<1>3. /\ call # "none"
      /\ IF AtEnd THEN Return([s1 EXCEPT !.row = 0], kind, "executed")
         ELSE /\ stmt' = [s1 EXCEPT !.row = @ + 1]
              /\ phase' = "next" /\ armed' = FALSE /\ cancelReq' = FALSE
              /\ UNCHANGED <<call, ret, odbc>>
  BY <1>2, Zenon DEF ReplyOk
<1>4. CASE AtEnd
  <2>1. /\ stmt' = [stmt EXCEPT !.status = "FINISHED", !.prepared = b, !.row = 0]
        /\ call' = "none" /\ phase' = "next" /\ ret' = kind /\ odbc' = "executed"
    BY <1>3, <1>4 DEF Return
  <2>2. 0 \in 0..(MaxRows + 1) BY <1>1
  <2>3. /\ StmtFits(stmt') /\ stmt'.row = 0
        /\ stmt'.endRow = stmt.endRow /\ stmt'.dae = stmt.dae /\ stmt'.cep = stmt.cep
    BY <1>1, <1>2, <2>1, <2>2, ReplyStmt
  <2> QED BY <1>4, <2>1, <2>3 DEF Replied
<1>5. CASE ~AtEnd
  <2>1. s1.row = stmt.row BY <1>1 DEF StmtFits, StmtFields
  <2>2. /\ stmt' = [stmt EXCEPT !.status = "FINISHED", !.prepared = b, !.row = stmt.row + 1]
        /\ call' = call /\ phase' = "next" /\ ret' = ret /\ odbc' = odbc
    BY <1>3, <1>5, <2>1
  <2>3. stmt.row + 1 \in 0..(MaxRows + 1)
    <3>1. ApdFits(apd) BY DEF Fits
    <3>2. LastRow(stmt) \in Nat /\ LastRow(stmt) <= MaxRows + 1 BY <1>1, <3>1, LastRowFits
    <3>3. ~(stmt.row >= LastRow(stmt)) BY <1>5 DEF AtEnd
    <3> QED BY <1>1, <3>2, <3>3
  <2>4. /\ StmtFits(stmt') /\ stmt'.row = stmt.row + 1
        /\ stmt'.endRow = stmt.endRow /\ stmt'.dae = stmt.dae /\ stmt'.cep = stmt.cep
    BY <1>1, <1>2, <2>2, <2>3, ReplyStmt
  <2> QED BY <1>5, <2>2, <2>4 DEF Replied
<1> QED BY <1>4, <1>5

LEMMA ReplyOkData ==
  ASSUME DInv, NEW kind \in {"SUCCESS", "INFO"}, ReplyOk(kind)
  PROVE  Fits' /\ Data'
<1>1. Fits /\ CancelledData /\ call # "none" /\ PutFirst /\ stmt.row \in Slots /\ ApdFits(apd)
  BY DEF DInv, Data, Fits, ReplyOk
<1>2. /\ StmtFits(stmt') /\ Replied(kind)
      /\ stmt'.endRow = stmt.endRow /\ stmt'.dae = stmt.dae /\ stmt'.cep = stmt.cep
  BY <1>1, ReplyOkCases
<1>3. ApdFits(apd') /\ bound' \in BOOLEAN /\ cfg' \in Configs /\ sent' \in Seq(Slots)
  BY <1>1 DEF ReplyOk, Fits
<1>4. pstat' \in [Slots -> Words] BY <1>1 DEF ReplyOk, Done, Fits, Words
<1>5. accepted' \subseteq Slots
  <2>1. Carried \subseteq Slots BY <1>1, LiveRows DEF Carried
  <2> QED BY <1>1, <2>1 DEF ReplyOk, Done, Fits
<1>6. CASE AtEnd
  <2>1. call' = "none" /\ phase' = "next" /\ odbc' = "executed" BY <1>2, <1>6 DEF Replied
  <2>2. Fits' BY <1>2, <1>3, <1>4, <1>5, <2>1 DEF Fits, Words
  <2>3. Data' BY <2>1, QuietData DEF Waiting
  <2> QED BY <2>2, <2>3
<1>7. CASE ~AtEnd
  <2>1. /\ stmt'.row = stmt.row + 1 /\ call' = call /\ phase' = "next" /\ odbc' = odbc
    BY <1>2, <1>7 DEF Replied
  <2>2. stmt'.row \in Slots BY <1>1, <1>2, <2>1, BoundAssumption DEF StmtFits, Slots
  <2>3. Fits' BY <1>1, <1>2, <1>3, <1>4, <1>5, <2>1, <2>2 DEF Fits, Words
  <2>4. Data'
    BY <1>1, <1>2, <2>1 DEF Data, RunningData, Running, AskingData, Asking, CancelledData, PutFirst
  <2> QED BY <2>3, <2>4
<1> QED BY <1>6, <1>7

LEMMA ReplyErrorCases ==
  ASSUME Fits, ReplyError
  PROVE  Stopped("ERROR", sent) /\ stmt'.row = 0
<1>1. StmtFits(stmt) /\ 0 \in 0..(MaxRows + 1) BY BoundAssumption DEF Fits
<1>2. PICK p : /\ p \in Truths
               /\ Return([stmt EXCEPT !.status = "FINISHED", !.row = 0, !.prepared = p],
                         "ERROR", Fallen(stmt))
  <2>1. PICK p \in {stmt.prepared, stmt.prepare /\ cfg.named} :
              Return([stmt EXCEPT !.status = "FINISHED", !.row = 0, !.prepared = p],
                     "ERROR", Fallen(stmt))
    BY Zenon DEF ReplyError
  <2>2. p \in Truths BY <1>1, <2>1, Zenon DEF StmtFits, Truths
  <2> QED BY <2>1, <2>2
<1>3. /\ stmt' = [stmt EXCEPT !.status = "FINISHED", !.row = 0, !.prepared = p]
      /\ call' = "none" /\ phase' = "next" /\ ret' = "ERROR" /\ odbc' = Fallen(stmt)
  BY <1>2 DEF Return
<1>4. stmt' = [stmt EXCEPT !.status = "FINISHED", !.prepared = p, !.row = 0]
  BY <1>1, <1>3 DEF StmtFits, StmtFields
<1>5. StmtFits(stmt') /\ stmt'.row = 0 BY <1>1, <1>2, <1>4, ReplyStmt
<1>6. sent' = sent BY DEF ReplyError
<1> QED BY <1>3, <1>5, <1>6 DEF Stopped, Fallen

LEMMA ReplyErrorData ==
  ASSUME DInv, ReplyError
  PROVE  Fits' /\ Data'
<1>1. Fits /\ Stopped("ERROR", sent) /\ Same /\ UNCHANGED <<pstat, accepted>>
  BY ReplyErrorCases DEF DInv, ReplyError, Same
<1>2. /\ ApdFits(apd) /\ bound \in BOOLEAN /\ cfg \in Configs /\ sent \in Seq(Slots)
      /\ accepted' \subseteq Slots /\ pstat' \in [Slots -> Words]
      /\ odbc \in {"allocated", "prepared", "executed", "cancelled"} \cup Waiting
      /\ 1 \in Slots /\ "Execute" \in {"Execute", "ParamData"}
  BY <1>1, BoundAssumption DEF Fits, Words, Slots
<1>3. Fits' BY <1>1, <1>2, OutcomeFits
<1>4. Data' BY <1>1, QuietData DEF Stopped, Waiting
<1> QED BY <1>3, <1>4

LEMMA NextRowData ==
  ASSUME DInv, NextRow
  PROVE  Fits' /\ Data'
<1>1. /\ Fits /\ PutFirst /\ call # "none" /\ Same /\ accepted' = accepted
      /\ RunRow(stmt, pstat, sent, call)
  BY DEF DInv, Data, NextRow, Same
<1>2. /\ ApdFits(apd) /\ bound \in BOOLEAN /\ cfg \in Configs /\ sent \in Seq(Slots)
      /\ accepted' \subseteq Slots /\ pstat \in [Slots -> Words] /\ StmtFits(stmt)
      /\ odbc \in {"allocated", "prepared", "executed", "cancelled"} \cup Waiting
      /\ stmt.row \in Slots /\ call \in {"Execute", "ParamData"}
  BY <1>1 DEF Fits, Words
<1>3. odbc # "must_put" BY <1>1 DEF PutFirst
<1> QED BY <1>1, <1>2, <1>3, RunRowData

\* SQLCancel in the other thread, and the timer.
LEMMA CancelData ==
  ASSUME DInv, Cancel \/ TimerFires
  PROVE  Fits' /\ Data'
<1>1. Fits /\ Data /\ StmtFits(stmt) BY DEF DInv, Fits
<1>2. CASE UNCHANGED <<cfg, stmt, apd, bound, pstat, call, phase, odbc, sent, accepted, ret>>
  <2>1. Fits' BY <1>1, <1>2 DEF Fits
  <2>2. Data'
    BY <1>1, <1>2 DEF Data, RunningData, AskingData, CancelledData, PutFirst, Running, Asking, Late
  <2> QED BY <2>1, <2>2
<1>3. CASE CancelLock
  <2>1. /\ call = "none" /\ call' = "none" /\ phase' = phase /\ stmt' = Abandon(stmt)
        /\ odbc' = (IF odbc \in Waiting THEN "cancelled" ELSE odbc)
        /\ UNCHANGED <<cfg, apd, bound, pstat, sent, accepted>>
    BY <1>3 DEF CancelLock, Ready, callVars
  <2>2. StmtFits(stmt') /\ stmt'.dae = -1 /\ stmt'.cep = 0 BY <1>1, <2>1, AbandonKeeps
  <2>3. /\ odbc' \in {"allocated", "prepared", "executed", "cancelled"} \cup Waiting
        /\ odbc' \notin Waiting
    BY <1>1, <2>1 DEF Fits, Waiting
  <2>4. ApdFits(apd') /\ bound' \in BOOLEAN BY <1>1, <2>1 DEF Fits
  <2>5. Fits' BY <1>1, <2>1, <2>2, <2>3, <2>4, CalmFits
  <2>6. Data' BY <2>1, <2>2, <2>3, QuietData
  <2> QED BY <2>5, <2>6
<1>4. CASE CancelReadData \/ CancelReadStatus \/ CancelSend \/ TimerFires
  BY <1>2, <1>4 DEF CancelReadData, CancelReadStatus, CancelSend, TimerFires, callVars
<1> QED BY <1>3, <1>4 DEF Cancel

\* The flags of the call and what it returns.
LEMMA RestKept ==
  ASSUME DInv, Next
  PROVE  Rest'
<1>1. /\ armed \in BOOLEAN /\ stuck \in BOOLEAN /\ cancelReq \in BOOLEAN
      /\ canc \in {"idle", "read_status", "lock", "send"}
      /\ ret \in {"none", "NEED_DATA", "SUCCESS", "INFO", "ERROR"}
      /\ cfg \in Configs
  BY Zenon DEF DInv, Rest, Fits
<1>2. cfg.timeout \in BOOLEAN BY <1>1, ConfigAssumption
<1>3. ASSUME NEW s, NEW code \in {"NEED_DATA", "SUCCESS", "INFO", "ERROR"}, NEW where,
             Return(s, code, where), UNCHANGED <<stuck, canc>>
      PROVE  Rest'
  <2>1. ret' \in {"none", "NEED_DATA", "SUCCESS", "INFO", "ERROR"} BY <1>3 DEF Return
  <2> QED BY <1>1, <1>3, <2>1, Zenon DEF Return, Rest
<1>4. ASSUME NEW s, NEW from, NEW who, StartExec(s, from, who), UNCHANGED <<stuck, canc>>
      PROVE  Rest'
  <2>1. \/ Return([s EXCEPT !.cep = 0, !.row = 0], "ERROR", Fallen(s))
        \/ armed' = cfg.timeout /\ ret' = "none" /\ cancelReq' = cancelReq
    BY <1>4, Zenon DEF StartExec
  <2>2. CASE armed' = cfg.timeout /\ ret' = "none" /\ cancelReq' = cancelReq
    <3>1. ret' \in {"none", "NEED_DATA", "SUCCESS", "INFO", "ERROR"} BY <2>2
    <3> QED BY <1>1, <1>2, <1>4, <2>2, <3>1, Zenon DEF Rest
  <2> QED BY <1>3, <1>4, <2>1, <2>2
<1>5. ASSUME NEW s, NEW ps, NEW from, NEW who, RunRow(s, ps, from, who), UNCHANGED <<stuck, canc>>
      PROVE  Rest'
  <2> DEFINE k == FirstRow(s.row, LastRow(s))
             s1 == [FreeData(s) EXCEPT !.row = k, !.flagged = Late(k),
                        !.dae = IF Late(k) = {} THEN -1 ELSE Cardinality(Late(k))]
  <2>1. \/ Return([s EXCEPT !.row = 0], "SUCCESS", "executed")
        \/ StartExec(s1, from, who)
        \/ Return(Token(s1), "NEED_DATA", "must_put")
        \/ Return(s1, "NEED_DATA", "need_data")
    BY <1>5, Zenon DEF RunRow, Late
  <2> HIDE DEF k, s1
  <2> QED BY <1>3, <1>4, <1>5, <2>1
<1>6. ASSUME NEW s, Execute(s), UNCHANGED <<stuck, canc>>
      PROVE  Rest'
  <2>1. \/ \E t, ps : RunRow(t, ps, << >>, "Execute")
        \/ \E t, where : Return(t, "ERROR", where)
    BY <1>6, Zenon DEF Execute
  <2> QED BY <1>3, <1>5, <1>6, <2>1
<1>7. ASSUME ret' \in {ret, "none", "ERROR"}, UNCHANGED <<armed, stuck, cancelReq, canc>>
      PROVE  Rest'
  <2>1. ret' \in {"none", "NEED_DATA", "SUCCESS", "INFO", "ERROR"} BY <1>1, <1>7
  <2> QED BY <1>1, <1>7, <2>1, Zenon DEF Rest
<1>8. CASE App
  <2>1. CASE \E b \in Bindings : SetParams(b) BY <1>7, <2>1 DEF SetParams, callVars
  <2>2. CASE BindParameter \/ ResetParams \/ Prepare \/ Describe \/ CloseStmt \/ SQLPutData
    BY <1>7, <2>2 DEF BindParameter, ResetParams, Prepare, Describe, CloseStmt, SQLPutData, callVars
  <2>3. CASE SQLExecute \/ SQLExecDirect BY <1>6, <2>3 DEF SQLExecute, SQLExecDirect
  <2>4. CASE SQLParamData
    <3>1. /\ UNCHANGED <<stuck, canc>>
          /\ \/ ret' = "ERROR" /\ UNCHANGED <<armed, cancelReq>>
             \/ StartExec(stmt, sent, "ParamData")
             \/ Return(Token(stmt), "NEED_DATA", "must_put")
      BY <2>4, Zenon DEF SQLParamData
    <3> QED BY <1>3, <1>4, <1>7, <3>1
  <2> QED BY <1>8, <2>1, <2>2, <2>3, <2>4, Zenon DEF App
<1>9. CASE Reply
  <2>1. ASSUME NEW kind \in {"SUCCESS", "INFO"}, ReplyOk(kind)
        PROVE  Rest'
    <3>1. /\ UNCHANGED <<stuck, canc>>
          /\ \/ \E t : Return(t, kind, "executed")
             \/ armed' = FALSE /\ cancelReq' = FALSE /\ ret' = ret
      BY <2>1, Zenon DEF ReplyOk
    <3>2. CASE \E t : Return(t, kind, "executed") BY <1>3, <3>1, <3>2
    <3>3. CASE armed' = FALSE /\ cancelReq' = FALSE /\ ret' = ret BY <1>1, <3>1, <3>3, Zenon DEF Rest
    <3> QED BY <3>1, <3>2, <3>3
  <2>2. CASE ReplyError
    <3>1. UNCHANGED <<stuck, canc>> /\ \E t : Return(t, "ERROR", Fallen(stmt))
      BY <2>2, Zenon DEF ReplyError
    <3> QED BY <1>3, <3>1
  <2> QED BY <1>9, <2>1, <2>2 DEF Reply
<1>10. CASE NextRow BY <1>5, <1>10 DEF NextRow
<1>11. CASE TimerFires
  <2>1. armed' = FALSE /\ stuck' \in BOOLEAN /\ cancelReq' \in BOOLEAN /\ UNCHANGED <<canc, ret>>
    BY <1>1, <1>11, Zenon DEF TimerFires
  <2> QED BY <1>1, <2>1, Zenon DEF Rest
<1>12. CASE Cancel
  <2>1. /\ armed' = armed /\ stuck' = stuck /\ ret' = ret /\ cancelReq' \in BOOLEAN
    BY <1>1, <1>12, Zenon DEF Cancel, CancelReadData, CancelReadStatus, CancelSend, CancelLock, callVars
  <2>2. canc' \in {"idle", "read_status", "lock", "send"}
    BY <1>12 DEF Cancel, CancelReadData, CancelReadStatus, CancelSend, CancelLock
  <2> QED BY <1>1, <2>1, <2>2, Zenon DEF Rest
<1> QED BY <1>8, <1>9, <1>10, <1>11, <1>12 DEF Next

LEMMA DInvInit ==
  ASSUME Init
  PROVE  DInv
<1>1. /\ MaxRows \in Nat \ {0} /\ NumParams \in Nat \ {0} /\ 1 \in Rows
      /\ NoData \in [Params -> 0..MaxRows]
  BY BoundAssumption DEF Rows, NoData
<1>2. PICK no : /\ no = FALSE
                /\ stmt = [status |-> "ALLOCATED", prepare |-> no, prepared |-> no, row |-> 0,
                           endRow |-> 0, dae |-> -1, cep |-> 0, put |-> no, flagged |-> {},
                           bufs |-> NoData]
  BY Zenon DEF Init
<1>3. /\ stmt = [f \in StmtFields |-> stmt[f]] /\ stmt.status = "ALLOCATED" /\ stmt.prepare = no
      /\ stmt.prepared = no /\ stmt.row = 0 /\ stmt.endRow = 0 /\ stmt.dae = -1 /\ stmt.cep = 0
      /\ stmt.put = no /\ stmt.flagged = {} /\ stmt.bufs = NoData
  BY <1>2 DEF StmtFields
<1>4. /\ stmt.row \in 0..(MaxRows + 1) /\ stmt.endRow \in 0..(MaxRows + 1)
      /\ stmt.dae \in -1..NumParams /\ stmt.cep \in 0..NumParams
      /\ stmt.flagged \in SUBSET Params /\ stmt.bufs \in [Params -> 0..MaxRows]
      /\ stmt.status \in {"ALLOCATED", "READY", "DESCRIBED", "FINISHED", "EXECUTING"}
  BY <1>1, <1>3
<1>5. StmtFits(stmt) BY <1>2, <1>3, <1>4, Zenon DEF StmtFits
<1>6. ApdFits(apd)
  <2>1. /\ apd = [size |-> 1, ignored |-> {}, daeOf |-> [r \in Rows |-> {}],
                  nullOf |-> [r \in Rows |-> {}]]
    BY DEF Init
  <2>2. apd \in Arrays BY <1>1, <2>1 DEF Arrays
  <2> QED BY <1>1, <2>1, <2>2 DEF ApdFits
<1>7. bound \in BOOLEAN BY Zenon DEF Init
<1>8. Fits BY <1>5, <1>6, <1>7 DEF Init, Fits
<1>9. Rest
  <2>1. canc \in {"idle", "read_status", "lock", "send"}
        /\ ret \in {"none", "NEED_DATA", "SUCCESS", "INFO", "ERROR"}
    BY DEF Init
  <2> QED BY <2>1, Zenon DEF Init, Rest
<1>10. Data BY DEF Init, Data, RunningData, AskingData, CancelledData, PutFirst, Running, Asking, Waiting
<1> QED BY <1>8, <1>9, <1>10 DEF DInv

LEMMA DInvStep ==
  ASSUME DInv, [Next]_vars
  PROVE  DInv'
<1>1. CASE Next
  <2>1. Rest' BY <1>1, RestKept
  <2>2. CASE App
    BY <2>1, <2>2, SetParamsData, BindParameterData, PrepareData, DescribeData, CloseData, SQLExecuteData,
      SQLParamDataData, SQLPutDataData, Zenon DEF App, DInv
  <2>3. CASE Reply BY <2>1, <2>3, ReplyOkData, ReplyErrorData DEF Reply, DInv
  <2>4. CASE NextRow BY <2>1, <2>4, NextRowData DEF DInv
  <2>5. CASE TimerFires \/ Cancel BY <2>1, <2>5, CancelData, Zenon DEF DInv
  <2> QED BY <1>1, <2>2, <2>3, <2>4, <2>5 DEF Next
<1>2. CASE UNCHANGED vars
  <2>1. Fits' BY <1>2 DEF vars, callVars, DInv, Fits
  <2>2. Rest' BY <1>2, Zenon DEF vars, callVars, DInv, Rest
  <2>3. Data'
    BY <1>2 DEF vars, callVars, DInv, Data, RunningData, AskingData, CancelledData, PutFirst, Running,
      Asking, Late
  <2> QED BY <2>1, <2>2, <2>3 DEF DInv
<1> QED BY <1>1, <1>2

--------------------
(* Own values.                                                             *)

\* What a step may do to the settings and the arrays.
LEMMA OnlySetParams ==
  ASSUME [Next]_vars
  PROVE  (\E b \in Bindings : SetParams(b)) \/ UNCHANGED <<cfg, apd>>
BY DEF Next, App, Reply, Cancel, BindParameter, ResetParams, Prepare, Describe, SQLExecute, SQLExecDirect,
  SQLParamData, SQLPutData, CloseStmt, ReplyOk, ReplyError, NextRow, TimerFires, CancelReadData,
  CancelReadStatus, CancelSend, CancelLock, vars

LEMMA BatchDataInit ==
  ASSUME Init
  PROVE  BatchData
<1>1. /\ apd.daeOf = [r \in Rows |-> {}] /\ apd.nullOf = [r \in Rows |-> {}] /\ apd.size = 1
      /\ 1 \in Rows
  BY BoundAssumption DEF Init, Rows
<1>2. \A r \in 1..1 : r = 1 OBVIOUS
<1> QED BY <1>1, <1>2 DEF BatchData

LEMMA BatchDataStep ==
  ASSUME DataPrudent, BatchData, [Next]_vars
  PROVE  BatchData'
<1>1. CASE \E b \in Bindings : SetParams(b)
  <2>1. PICK b \in Bindings : SetParams(b) BY <1>1
  <2>2. /\ "batch_dae" \notin Risky /\ "null_in_batch" \notin Risky BY DEF DataPrudent
  <2>3. cfg.batch => \A r \in Rows : b.daeOf[r] = {} BY <2>1, <2>2, Zenon DEF SetParams
  <2>4. cfg.batch =>
          \A p \in Binary, r \in 1..b.size : p \in b.nullOf[r] <=> p \in b.nullOf[1]
    BY <2>1, <2>2, Zenon DEF SetParams
  <2>5. cfg' = cfg /\ apd' = b BY <2>1 DEF SetParams
  <2> QED BY <2>3, <2>4, <2>5, Zenon DEF BatchData
<1>2. CASE UNCHANGED <<cfg, apd>> BY <1>2, Zenon DEF BatchData
<1> QED BY <1>1, <1>2, OnlySetParams

\* What ResolveOneParam takes.
LEMMA ResolveFrom ==
  ASSUME NEW r, NEW p
  PROVE  /\ p \in stmt.flagged => Resolve(r, p) = [from |-> "put", row |-> stmt.bufs[p]]
         /\ p \notin stmt.flagged /\ p \in apd.nullOf[r] => Resolve(r, p) = Null
         /\ p \notin stmt.flagged /\ p \notin apd.nullOf[r] =>
              Resolve(r, p) = [from |-> "app", row |-> r]
BY DEF Resolve

LEMMA OwnDataHolds ==
  ASSUME DInv, BatchData
  PROVE  OwnData
<1>1. /\ RunningData /\ AskingData /\ PutFirst /\ ApdFits(apd) /\ StmtFits(stmt) BY DEF DInv, Data, Fits
<1>2. odbc = "must_put" => stmt.bufs[stmt.cep] = 0 BY <1>1 DEF PutFirst, AskingData, Asking, Waiting
<1>3. ASSUME call # "none", phase = "exec", bound, NEW r \in Carried \cap Rows, NEW p \in Params
      PROVE  LET v == RowValues(r)[p]
             IN  /\ v.from = "null" <=> p \in apd.nullOf[r]
                 /\ v.from = "put" <=> p \in apd.daeOf[r]
                 /\ v # Null => v.row = r /\ (p \in Binary => InBinary(p))
  <2>1. /\ stmt.flagged = Late(stmt.row) /\ \A q \in stmt.flagged : stmt.bufs[q] = stmt.row
    BY <1>1, <1>3 DEF RunningData, Running
  <2>2. r \in Rows /\ apd.daeOf[r] \cap apd.nullOf[r] = {} BY <1>1, <1>3 DEF ApdFits
  <2>3. \A i : RowValues(i)[p] = Resolve(i, p) BY <1>3 DEF RowValues
  <2>4. /\ p \in stmt.flagged <=> p \in apd.daeOf[r]
        /\ p \in stmt.flagged => stmt.bufs[p] = r
        /\ p \in Binary /\ Resolve(r, p) # Null => InBinary(p)
    <3>1. CASE ~Batch
      <4>1. r = stmt.row BY <1>3, <3>1 DEF Carried
      <4>2. stmt.flagged = apd.daeOf[r] BY <1>3, <2>1, <2>2, <4>1 DEF Late
      <4>3. Trip(stmt.row) = <<r>> BY <1>1, <3>1, <4>1, TripLists
      <4>4. Len(<<r>>) = 1 /\ <<r>>[1] = r OBVIOUS
      <4>5. p \in Binary /\ Resolve(r, p) # Null => InBinary(p) BY <2>3, <4>3, <4>4 DEF InBinary
      <4> QED BY <2>1, <4>1, <4>2, <4>5
    <3>2. CASE Batch
      <4>1. /\ \A i \in Rows : apd.daeOf[i] = {}
            /\ \A q \in Binary, i \in 1..apd.size : q \in apd.nullOf[i] <=> q \in apd.nullOf[1]
        BY <3>2, Zenon DEF Batch, BatchData
      <4>2. stmt.flagged = {} BY <2>1, <4>1 DEF Late
      <4>3. r \in 1..apd.size BY <1>1, <1>3, <3>2, LiveRows DEF Carried
      <4> DEFINE last == Trip(stmt.row)[Len(Trip(stmt.row))]
      <4>4. last \in 1..apd.size
        <5>1. Len(Trip(stmt.row)) \in 1..Len(Trip(stmt.row)) BY <1>1, <3>2, TripLists
        <5> QED BY <1>1, <3>2, <5>1, TripLists, LiveRows
      <4>5. ASSUME p \in Binary, Resolve(r, p) # Null
            PROVE  InBinary(p)
        <5>1. p \notin apd.nullOf[r] BY <4>2, <4>5, ResolveFrom
        <5>2. p \notin apd.nullOf[last] BY <4>1, <4>3, <4>4, <4>5, <5>1
        <5>3. Resolve(last, p) = [from |-> "app", row |-> last] BY <4>2, <5>2, ResolveFrom
        <5>4. Resolve(last, p) # Null BY <5>3 DEF Null
        <5> QED BY <2>3, <4>5, <5>4 DEF InBinary
      <4> QED BY <2>2, <4>1, <4>2, <4>5
    <3> QED BY <3>1, <3>2
  <2>5. CASE p \in stmt.flagged
    <3>1. Resolve(r, p) = [from |-> "put", row |-> r] BY <2>4, <2>5, ResolveFrom
    <3>2. Resolve(r, p) # Null BY <3>1 DEF Null
    <3> QED BY <2>2, <2>3, <2>4, <2>5, <3>1, <3>2
  <2>6. CASE p \notin stmt.flagged /\ p \in apd.nullOf[r]
    <3>1. Resolve(r, p) = Null /\ Null.from = "null" BY <2>6, ResolveFrom DEF Null
    <3> QED BY <2>3, <2>4, <2>6, <3>1
  <2>7. CASE p \notin stmt.flagged /\ p \notin apd.nullOf[r]
    <3>1. Resolve(r, p) = [from |-> "app", row |-> r] BY <2>7, ResolveFrom
    <3>2. Resolve(r, p) # Null BY <3>1 DEF Null
    <3> QED BY <2>3, <2>4, <2>7, <3>1, <3>2
  <2> QED BY <2>5, <2>6, <2>7
<1> QED BY <1>2, <1>3 DEF OwnData

LEMMA CounterExactHolds ==
  ASSUME DInv
  PROVE  CounterExact
BY DEF DInv, Data, AskingData, Asking, CounterExact

--------------------
(* The rows of an execution, in order.                                     *)

LEMMA AppendOrdered ==
  ASSUME ApdFits(apd), NEW from \in Seq(Slots), Ordered(from), NEW k \in Live, Before(from, k)
  PROVE  LET t == from \o <<k>>
         IN  Ordered(t) /\ \A i \in 1..Len(t) : t[i] <= k
<1> DEFINE t == from \o <<k>>
           n == Len(from)
<1>1. n \in Nat /\ Len(t) = n + 1 /\ t[n + 1] = k /\ \A i \in 1..n : t[i] = from[i] OBVIOUS
<1>2. k \in Int /\ Live \subseteq Int /\ \A x \in Live : x < k => x <= k BY LiveRows DEF Rows
<1> HIDE DEF t
<1>3. ASSUME NEW i \in 1..(n + 1)
      PROVE  /\ t[i] \in Live /\ t[i] <= k
             /\ i # n + 1 => i \in 1..n /\ t[i] = from[i] /\ t[i] < k
             /\ (i = n + 1 => t[i] = k)
  <2>1. CASE i = n + 1 BY <1>1, <1>2, <2>1
  <2>2. CASE i # n + 1
    <3>1. i \in 1..n BY <1>1, <1>3, <2>2
    <3>2. t[i] = from[i] /\ from[i] \in Live /\ from[i] < k BY <1>1, <3>1 DEF Ordered, Before
    <3>3. t[i] \in Live /\ t[i] < k BY <3>2
    <3>4. t[i] <= k BY <1>2, <3>3
    <3> QED BY <2>2, <3>1, <3>2, <3>3, <3>4
  <2> QED BY <2>1, <2>2
<1>4. ASSUME NEW i \in 1..(n + 1), NEW j \in 1..(n + 1), i < j
      PROVE  t[i] < t[j]
  <2>1. i # n + 1 BY <1>1, <1>4
  <2>2. CASE j = n + 1 BY <1>3, <2>1, <2>2
  <2>3. CASE j # n + 1
    <3>1. i \in 1..n /\ j \in 1..n /\ t[i] = from[i] /\ t[j] = from[j] BY <1>3, <2>1, <2>3
    <3> QED BY <1>4, <3>1 DEF Ordered
  <2> QED BY <2>2, <2>3
<1>5. 1..Len(t) = 1..(n + 1) BY <1>1
<1>6. Ordered(t) BY <1>3, <1>4, <1>5 DEF Ordered
<1> QED BY <1>3, <1>5, <1>6 DEF t

LEMMA StartedRows ==
  ASSUME ApdFits(apd), Same, NEW s, NEW k \in Live, NEW from \in Seq(Slots), NEW who,
         who # "none", Started(s, k, from, who),
         Ordered(from), Before(from, k), accepted' = Below(k),
         Batch => from = << >> /\ accepted' = {}, s.endRow = 0 \/ Batch, ~Batch => Matches'
  PROVE  RInv'
<1>1. /\ call' = who /\ phase' = "exec" /\ ret' = "none" /\ sent' = from \o Trip(k)
      /\ stmt'.row = k /\ stmt'.endRow = IF Batch THEN apd.size + 1 ELSE s.endRow
  BY DEF Started
<1>2. Batch' = Batch /\ Live' = Live /\ \A i : Below(i)' = Below(i) BY DEF Batch, Live, Below, Same
<1>3. Ordered(sent') /\ (~Batch => \A i \in 1..Len(sent') : sent'[i] <= k)
  <2>1. CASE Batch
    <3>1. sent' = Trip(k) /\ Trip(k) \in Seq(Live) BY <1>1, <2>1, TripLists
    <3> QED BY <2>1, <3>1, TripLists DEF Ordered
  <2>2. CASE ~Batch
    <3>1. sent' = from \o <<k>> BY <1>1, <2>2, TripLists
    <3> QED BY <3>1, AppendOrdered
  <2> QED BY <2>1, <2>2
<1>4. SentRows' BY <1>2, <1>3 DEF SentRows, Ordered
<1>5. RunningRows' BY <1>1, <1>2, <1>3 DEF RunningRows
<1>6. EndKnown' BY <1>1, <1>2 DEF EndKnown
<1>7. PassingRows' /\ AskingRows' BY <1>1 DEF PassingRows, Passing, AskingRows, Asking
<1>8. Complete' BY <1>1 DEF Complete, Well
<1>9. Statuses' BY <1>1, <1>2 DEF Statuses, Well
<1>10. stmt'.row <= MaxRows BY <1>1, LiveRows DEF Rows
<1> QED BY <1>4, <1>5, <1>6, <1>7, <1>8, <1>9, <1>10 DEF RInv

LEMMA AskedRows ==
  ASSUME ApdFits(apd), Same, NEW s, NEW k \in Live, NEW from, Asked(s, k, from),
         Ordered(from), Before(from, k), accepted' = Below(k),
         Batch => from = << >> /\ accepted' = {}, s.endRow = 0 \/ Batch, ~Batch => Matches'
  PROVE  RInv'
<1>1. /\ call' = "none" /\ ret' = "NEED_DATA" /\ sent' = from
      /\ stmt'.row = k /\ stmt'.endRow = s.endRow
  BY DEF Asked
<1>2. Batch' = Batch /\ Live' = Live /\ \A i : Below(i)' = Below(i) BY DEF Batch, Live, Below, Same
<1>3. SentRows' BY <1>1, <1>2 DEF SentRows, Ordered
<1>4. AskingRows' BY <1>1, <1>2 DEF AskingRows, Before
<1>5. EndKnown' BY <1>1, <1>2 DEF EndKnown
<1>6. PassingRows' /\ RunningRows' BY <1>1 DEF PassingRows, Passing, RunningRows, Running
<1>7. Complete' BY <1>1 DEF Complete, Well
<1>8. Statuses' BY <1>1, <1>2 DEF Statuses, Well
<1>9. stmt'.row <= MaxRows BY <1>1, LiveRows DEF Rows
<1> QED BY <1>3, <1>4, <1>5, <1>6, <1>7, <1>8, <1>9 DEF RInv

LEMMA StoppedRows ==
  ASSUME ApdFits(apd), Same, NEW from, NEW code, Stopped(code, from),
         Ordered(from), code \in Well => accepted' = Live,
         ~Batch /\ from # << >> => Matches', Batch /\ code \in Well /\ from # << >> => Matches'
  PROVE  RInv'
<1>1. /\ call' = "none" /\ ret' = code /\ sent' = from /\ stmt'.row \in {0, 1}
      /\ odbc' \notin Waiting
  BY DEF Stopped, Waiting
<1>2. Batch' = Batch /\ Live' = Live BY DEF Batch, Live, Same
<1>3. SentRows' BY <1>1, <1>2 DEF SentRows, Ordered
<1>4. AskingRows' /\ EndKnown' /\ PassingRows' /\ RunningRows'
  BY <1>1 DEF AskingRows, Asking, EndKnown, PassingRows, Passing, RunningRows, Running
<1>5. Complete' BY <1>1, <1>2 DEF Complete
<1>6. Statuses' BY <1>1, <1>2 DEF Statuses, Asking
<1>7. stmt'.row <= MaxRows BY <1>1, BoundAssumption
<1> QED BY <1>3, <1>4, <1>5, <1>6, <1>7 DEF RInv

\* next_param_row finds the next row that is not ignored, or all are done.
LEMMA RunRowRows ==
  ASSUME ApdFits(apd), Same, NEW s, StmtFits(s), s.row \in Slots, NEW ps \in [Slots -> Words],
         NEW from \in Seq(Slots), NEW who \in {"Execute", "ParamData"}, RunRow(s, ps, from, who),
         Ordered(from), Before(from, s.row), accepted' = Below(s.row),
         Batch => from = << >> /\ s.row = 1,
         s.endRow = 0 \/ (Batch /\ FirstRow(1, s.endRow) # 0),
         ~Batch => \A r \in 1..apd.size : ps[r] \in Well <=> r \in accepted'
  PROVE  RInv'
<1> DEFINE k == FirstRow(s.row, LastRow(s))
<1>1. \/ k = 0 /\ Stopped("SUCCESS", from) /\ pstat' = ps
      \/ /\ k \in Slots /\ s.row <= k /\ k <= LastRow(s) /\ k \notin apd.ignored
         /\ \A j \in s.row..LastRow(s) : j \notin apd.ignored => k <= j
         /\ pstat' = [ps EXCEPT ![k] = "ERROR"]
         /\ \/ Stopped("ERROR", from)
            \/ Late(k) = {} /\ Started(Bare(s), k, from, who)
            \/ Late(k) # {} /\ k \in Rows /\ bound /\ Asked(s, k, from)
  <2>1. ApdFits(apd) /\ StmtFits(s) /\ s.row \in Slots OBVIOUS
  <2>2. RunRow(s, ps, from, who) OBVIOUS
  <2>3. k = FirstRow(s.row, LastRow(s)) OBVIOUS
  <2> HIDE DEF k
  <2> QED BY ONLY <2>1, <2>2, <2>3, RunRowCases, SMTT(60)
<1>2. /\ s.row \in Nat \ {0} /\ LastRow(s) \in Nat \ {0} /\ s.endRow \in Nat
      /\ s.endRow = 0 => LastRow(s) = apd.size
      /\ s.endRow # 0 => LastRow(s) = s.endRow
  <2>1. s.row \in Nat \ {0} /\ s.endRow \in Nat BY BoundAssumption DEF Slots, StmtFits
  <2>2. /\ LastRow(s) \in Nat \ {0}
        /\ s.endRow = 0 => LastRow(s) = apd.size
        /\ s.endRow # 0 => LastRow(s) = s.endRow
    BY LastRowFits DEF LastRow
  <2> QED BY <2>1, <2>2
<1>3. /\ Live \subseteq 1..apd.size /\ apd.size \in Nat /\ 1..apd.size \subseteq Slots
      /\ Live = {r \in 1..apd.size : r \notin apd.ignored}
  BY LiveRows DEF Rows
<1>4. Batch' = Batch /\ apd' = apd /\ \A r : Live' = Live BY DEF Batch, Live, Same
<1>5. CASE k = 0 /\ Stopped("SUCCESS", from) /\ pstat' = ps
  <2>1. s.endRow = 0 BY <1>2, <1>5
  <2>2. \A j \in s.row..apd.size : j \in apd.ignored BY <1>2, <1>5, <2>1, FirstRowFound
  <2>3. ASSUME NEW j \in Live
        PROVE  j < s.row
    <3>1. j \in 1..apd.size /\ j \notin apd.ignored BY <1>3
    <3>2. j \notin s.row..apd.size BY <2>2, <3>1
    <3> QED BY <1>2, <1>3, <3>1, <3>2
  <2>4. accepted' = Live BY <2>3 DEF Below
  <2>5. ~Batch => Matches' BY <1>4, <1>5 DEF Matches
  <2> QED BY <1>5, <2>4, <2>5, StoppedRows
<1>6. ASSUME k \in Slots, s.row <= k, k <= LastRow(s), k \notin apd.ignored,
             \A j \in s.row..LastRow(s) : j \notin apd.ignored => k <= j,
             pstat' = [ps EXCEPT ![k] = "ERROR"],
             \/ Stopped("ERROR", from)
             \/ Late(k) = {} /\ Started(Bare(s), k, from, who)
             \/ Late(k) # {} /\ k \in Rows /\ bound /\ Asked(s, k, from)
      PROVE  RInv'
  <2> HIDE DEF k
  <2>1. k \in Nat \ {0} BY <1>6, BoundAssumption DEF Slots
  <2>2. k <= apd.size
    <3>1. CASE s.endRow = 0 BY <1>2, <1>6, <3>1
    <3>2. CASE Batch
      <4>1. PICK i \in 1..apd.size : i \notin apd.ignored BY <3>2 DEF Batch
      <4>2. s.row = 1 BY <3>2
      <4>3. i <= LastRow(s) => k <= i BY <1>2, <1>3, <1>6, <4>1, <4>2
      <4> QED BY <1>2, <1>3, <1>6, <2>1, <4>3
    <3> QED BY <3>1, <3>2
  <2>3. k \in Live BY <1>3, <1>6, <2>1, <2>2
  <2>4. ASSUME NEW j \in Live
        PROVE  j < k <=> j < s.row
    <3>1. j \in Nat \ {0} /\ j \notin apd.ignored BY <1>3
    <3>2. j \in s.row..LastRow(s) => k <= j BY <1>6, <3>1
    <3> QED BY <1>2, <1>6, <2>1, <3>1, <3>2
  <2>5. accepted' = Below(k) BY <2>4 DEF Below
  <2>6. Before(from, k)
    <3>1. \A i \in 1..Len(from) : from[i] \in Live /\ from[i] < s.row BY DEF Ordered, Before
    <3> QED BY <2>4, <3>1 DEF Before
  <2>7. Batch => accepted' = {}
    <3>1. Batch => \A j \in Live : ~(j < s.row) BY <1>3
    <3> QED BY <3>1 DEF Below
  <2>8. ~Batch => Matches'
    <3> SUFFICES ASSUME ~Batch, NEW r \in 1..apd.size
                 PROVE  pstat'[r] \in Well <=> r \in accepted'
      BY <1>4 DEF Matches
    <3>1. ps[r] \in Well <=> r \in accepted' OBVIOUS
    <3>2. CASE r = k
      <4>1. pstat'[r] = "ERROR" /\ r \notin accepted' BY <1>6, <2>1, <2>5, <3>2 DEF Below
      <4> QED BY <4>1 DEF Well
    <3>3. CASE r # k
      <4>1. pstat'[r] = ps[r] BY <1>3, <1>6, <3>3
      <4> QED BY <3>1, <4>1
    <3> QED BY <3>2, <3>3
  <2>9. CASE Stopped("ERROR", from)
    <3>1. "ERROR" \notin Well BY DEF Well
    <3> QED BY <2>8, <2>9, <3>1, StoppedRows
  <2>10. CASE Started(Bare(s), k, from, who)
    <3>1. Bare(s).endRow = 0 \/ Batch BY BareFields
    <3>2. who # "none" OBVIOUS
    <3> DEFINE b == Bare(s)
    <3>3. Started(b, k, from, who) /\ (b.endRow = 0 \/ Batch) BY <2>10, <3>1
    <3> HIDE DEF b
    <3> QED BY <2>3, <2>5, <2>6, <2>7, <2>8, <3>2, <3>3, StartedRows
  <2>11. CASE Asked(s, k, from)
    <3>1. s.endRow = 0 \/ Batch OBVIOUS
    <3> QED BY <2>3, <2>5, <2>6, <2>7, <2>8, <2>11, <3>1, AskedRows
  <2> QED BY <1>6, <2>9, <2>10, <2>11
<1> QED BY <1>1, <1>5, <1>6

LEMMA ExecuteRows ==
  ASSUME RowsPrudent, DInv, Same, EndRowClean, NEW s, StmtFits(s), s.row <= 1,
         s.endRow = stmt.endRow, Execute(s)
  PROVE  RInv'
<1>1. /\ ApdFits(apd) /\ pstat \in [Slots -> Words] /\ "end_row" \notin Risky
  BY DEF DInv, Fits, Words, RowsPrudent
<1>2. s.endRow = 0 \/ (Batch /\ FirstRow(1, s.endRow) # 0) BY <1>1, Zenon DEF EndRowClean
<1>3. << >> \in Seq(Slots) /\ Ordered(<< >>) /\ \A k : Before(<< >>, k) BY DEF Ordered, Before
<1>4. /\ accepted' = {}
      /\ \/ \E t, ps :
               /\ StmtFits(t) /\ t.row \in Slots /\ t.row = 1 /\ t.endRow = s.endRow
               /\ \/ ps = pstat
                  \/ ps = [r \in Slots |-> IF r <= LastRow(t) THEN "UNUSED" ELSE pstat[r]]
               /\ ~Batch =>
                    ps = [r \in Slots |-> IF r <= LastRow(t) THEN "UNUSED" ELSE pstat[r]]
               /\ RunRow(t, ps, << >>, "Execute")
         \/ Stopped("ERROR", << >>) /\ pstat' = pstat
  BY <1>1, ExecuteCases, Zenon
<1>5. ASSUME NEW t, NEW ps, StmtFits(t), t.row \in Slots, t.row = 1, t.endRow = s.endRow,
             ps = pstat \/ ps = [r \in Slots |-> IF r <= LastRow(t) THEN "UNUSED" ELSE pstat[r]],
             ~Batch => ps = [r \in Slots |-> IF r <= LastRow(t) THEN "UNUSED" ELSE pstat[r]],
             RunRow(t, ps, << >>, "Execute")
      PROVE  RInv'
  <2>1. ps \in [Slots -> Words] BY <1>1, <1>5 DEF Words
  <2>2. Below(t.row) = {}
    <3>1. \A j \in Live : ~(j < 1) BY <1>1, LiveRows
    <3> QED BY <1>5, <3>1 DEF Below
  <2>3. ~Batch => \A r \in 1..apd.size : ps[r] \in Well <=> r \in accepted'
    <3> SUFFICES ASSUME ~Batch, NEW r \in 1..apd.size
                 PROVE  ps[r] \notin Well
      BY <1>4
    <3>1. LastRow(t) = apd.size BY <1>2, <1>5 DEF LastRow
    <3>2. r \in Slots /\ r <= apd.size BY <1>1, LiveRows DEF Rows
    <3>3. ps[r] = "UNUSED" BY <1>5, <3>1, <3>2
    <3> QED BY <3>3 DEF Well
  <2>4. accepted' = Below(t.row) /\ "Execute" \in {"Execute", "ParamData"} BY <1>4, <2>2
  <2>5. t.endRow = 0 \/ (Batch /\ FirstRow(1, t.endRow) # 0) BY <1>2, <1>5
  <2> DEFINE from == << >>
  <2>6. /\ from \in Seq(Slots) /\ RunRow(t, ps, from, "Execute") /\ Ordered(from) /\ from = << >>
        /\ Before(from, t.row)
    BY <1>3, <1>5
  <2> HIDE DEF from
  <2> QED BY <1>1, <1>5, <2>1, <2>3, <2>4, <2>5, <2>6, RunRowRows
<1>6. CASE Stopped("ERROR", << >>) /\ pstat' = pstat
  <2>1. "ERROR" \notin Well BY DEF Well
  <2> DEFINE from == << >>
  <2>2. Stopped("ERROR", from) /\ Ordered(from) /\ from = << >> BY <1>3, <1>6
  <2> HIDE DEF from
  <2> QED BY <1>1, <2>1, <2>2, StoppedRows
<1> QED BY <1>4, <1>5, <1>6

--------------------
(* The rows: every step keeps them.                                        *)

\* A step between two executions, or one that forgets the last one.
LEMMA CalmRows ==
  ASSUME RInv, call' = "none", odbc' \notin Waiting, stmt'.row <= MaxRows,
         \/ UNCHANGED <<cfg, apd, sent, accepted, pstat>> /\ ret' \in {ret, "none", "ERROR"}
         \/ sent' = << >> /\ ret' = "none"
  PROVE  RInv'
<1>1. RunningRows' /\ PassingRows' /\ AskingRows' /\ EndKnown'
  BY DEF RunningRows, Running, PassingRows, Passing, AskingRows, Asking, EndKnown
<1>2. CASE sent' = << >> /\ ret' = "none"
  <2>1. SentRows' BY <1>2 DEF SentRows, Ordered
  <2>2. Complete' /\ Statuses' BY <1>2 DEF Complete, Statuses, Well, Asking
  <2> QED BY <1>1, <2>1, <2>2 DEF RInv
<1>3. CASE UNCHANGED <<cfg, apd, sent, accepted, pstat>> /\ ret' \in {ret, "none", "ERROR"}
  <2>1. Batch' = Batch /\ Live' = Live BY <1>3 DEF Batch, Live
  <2>2. SentRows' BY <1>3, <2>1 DEF RInv, SentRows, Ordered
  <2>3. Complete' BY <1>3, <2>1 DEF RInv, Complete, Well
  <2>4. Matches' = Matches BY <1>3 DEF Matches
  <2>5. Statuses' BY <1>3, <2>1, <2>4 DEF RInv, Statuses, Asking, Well
  <2> QED BY <1>1, <2>2, <2>3, <2>5 DEF RInv
<1> QED BY <1>2, <1>3

LEMMA BetweenRows ==
  ASSUME DInv, RInv,
         \/ \E b \in Bindings : SetParams(b)
         \/ BindParameter \/ ResetParams \/ Prepare \/ Describe \/ CloseStmt
  PROVE  RInv'
<1>1. stmt.row <= MaxRows /\ 0 <= MaxRows BY BoundAssumption DEF RInv
<1>2. CASE \E b \in Bindings : SetParams(b)
  BY <1>1, <1>2, CalmRows DEF SetParams, Between, Ready, callVars
<1>3. CASE BindParameter
  BY <1>1, <1>3, BindParameterData, CalmRows DEF BindParameter, Between, Ready, callVars
<1>4. CASE ResetParams
  <2>1. stmt'.row \in {stmt.row, 0} BY <1>4, CloseData
  <2> QED BY <1>1, <1>4, <2>1, CalmRows DEF ResetParams, Between, Ready, callVars
<1>5. CASE Prepare
  <2>1. stmt'.row <= MaxRows BY <1>1, <1>5, PrepareData
  <2>2. call' = "none" /\ odbc' = "prepared" /\ ret' = "none"
        /\ UNCHANGED <<cfg, apd, sent, accepted, pstat>>
    BY <1>5 DEF Prepare, Between, Ready, callVars
  <2> QED BY <2>1, <2>2, CalmRows DEF Waiting
<1>6. CASE Describe
  <2>1. stmt'.row <= MaxRows BY <1>1, <1>6, DescribeData
  <2>2. call' = "none" /\ odbc' \notin Waiting /\ UNCHANGED <<cfg, apd, sent, accepted, pstat, ret>>
    BY <1>6 DEF Describe, Between, Ready, callVars
  <2> QED BY <2>1, <2>2, CalmRows
<1>7. CASE CloseStmt
  <2>1. stmt'.row \in {stmt.row, 0} BY <1>7, CloseData
  <2>2. call' = "none" /\ odbc' = Fallen(stmt) /\ ret' = "none"
        /\ UNCHANGED <<cfg, apd, sent, accepted, pstat>>
    BY <1>7 DEF CloseStmt, Between, Ready, callVars
  <2>3. odbc' \notin Waiting BY <2>2 DEF Waiting, Fallen
  <2> QED BY <1>1, <2>1, <2>2, <2>3, CalmRows
<1> QED BY <1>2, <1>3, <1>4, <1>5, <1>6, <1>7

LEMMA SQLExecuteRows ==
  ASSUME RowsPrudent, DInv, RInv, SQLExecute \/ SQLExecDirect
  PROVE  RInv'
<1>1. StmtFits(stmt) /\ 0 \in 0..(MaxRows + 1) BY BoundAssumption DEF DInv, Fits
<1>2. CASE SQLExecute
  <2> DEFINE s == [stmt EXCEPT !.row = 0]
  <2>1. StmtFits(s) /\ s.row = 0 /\ s.endRow = stmt.endRow BY <1>1, RowKeeps
  <2>2. EndRowClean /\ Same /\ Execute(s) BY <1>2 DEF SQLExecute, Same
  <2> HIDE DEF s
  <2>3. s.row <= 1 BY <2>1
  <2> QED BY <2>1, <2>2, <2>3, ExecuteRows
<1>3. CASE SQLExecDirect
  <2> DEFINE b == [stmt EXCEPT !.prepare = FALSE, !.prepared = FALSE]
             s == Recycle(b)
  <2>1. StmtFits(b) /\ b.row = stmt.row /\ b.endRow = stmt.endRow BY <1>1, DirectKeeps
  <2>2. StmtFits(s) /\ s.row = b.row /\ s.endRow = b.endRow BY <2>1, RecycleKeeps
  <2>3. EndRowClean /\ Same /\ Execute(s) /\ stmt.row <= 1 BY <1>3 DEF SQLExecDirect, Same, RowsPrudent
  <2> HIDE DEF s, b
  <2> QED BY <2>1, <2>2, <2>3, ExecuteRows
<1> QED BY <1>2, <1>3

\* The application goes on with the parameters of its row.
LEMMA StillAsking ==
  ASSUME RInv, Asking, Asking', Same, UNCHANGED <<sent, accepted, pstat>>,
         stmt'.row = stmt.row, stmt'.endRow = stmt.endRow, ret' \in {ret, "NEED_DATA"}
  PROVE  RInv'
<1>1. Batch' = Batch /\ Live' = Live /\ \A i : Below(i)' = Below(i) BY DEF Batch, Live, Below, Same
<1>2. SentRows' /\ EndKnown' BY <1>1 DEF RInv, SentRows, Ordered, EndKnown
<1>3. AskingRows' BY <1>1 DEF RInv, AskingRows, Before
<1>4. RunningRows' /\ PassingRows' BY DEF RunningRows, Running, PassingRows, Passing, Asking
<1>5. Complete' BY <1>1 DEF RInv, Complete, Well, Asking
<1>6. Matches' = Matches BY DEF Matches, Same
<1>7. Statuses' BY <1>1, <1>6 DEF RInv, Statuses, Well
<1>8. stmt'.row <= MaxRows BY DEF RInv
<1> QED BY <1>2, <1>3, <1>4, <1>5, <1>7, <1>8 DEF RInv

LEMMA SQLParamDataRows ==
  ASSUME DInv, RInv, SQLParamData
  PROVE  RInv'
<1>1. /\ StmtFits(stmt) /\ ApdFits(apd) /\ AskingData /\ CancelledData /\ sent \in Seq(Slots)
      /\ call = "none" /\ odbc \in {"need_data", "can_put", "cancelled"} /\ stmt.dae \in Int
      /\ Same /\ UNCHANGED <<pstat, accepted>>
  BY DEF DInv, Data, Fits, StmtFits, SQLParamData, Ready, Same
<1>2. CASE stmt.dae < 0
  <2>1. odbc = "cancelled"
    <3> SUFFICES ASSUME odbc # "cancelled" PROVE FALSE OBVIOUS
    <3>1. Asking BY <1>1 DEF Asking, Waiting
    <3>2. stmt.dae = Cardinality({p \in stmt.flagged : p > stmt.cep}) BY <1>1, <3>1 DEF AskingData
    <3> DEFINE F == {p \in stmt.flagged : p > stmt.cep}
    <3>3. F \in SUBSET Params BY <1>1 DEF StmtFits
    <3>4. stmt.dae = Cardinality(F) BY <3>2
    <3> HIDE DEF F
    <3>5. Cardinality(F) \in 0..NumParams BY <3>3, FinitelyMany
    <3> QED BY <1>2, <3>4, <3>5
  <2>2. ret' = "ERROR" /\ UNCHANGED <<stmt, call, phase, odbc, sent>> BY <1>2 DEF SQLParamData
  <2>3. stmt'.row <= MaxRows BY <2>2 DEF RInv
  <2> QED BY <1>1, <2>1, <2>2, <2>3, CalmRows DEF Waiting, Same
<1>3. ASSUME ~(stmt.dae < 0)
      PROVE  /\ Asking /\ AskingRows /\ SentRows /\ (stmt.endRow = 0 \/ Batch)
             /\ (~Batch => Matches) /\ stmt.row \in Slots
  <2>1. Asking BY <1>1, <1>3 DEF CancelledData, Asking, Waiting
  <2>2. AskingRows /\ SentRows /\ (stmt.endRow = 0 \/ Batch) /\ (~Batch => Matches)
    BY <2>1 DEF RInv, EndKnown, Statuses
  <2>3. stmt.row \in Slots BY <1>1, <2>1, LiveRows DEF AskingData
  <2> QED BY <2>1, <2>2, <2>3
<1>4. ~Batch => (Matches => Matches') BY <1>1 DEF Matches, Same
<1>5. CASE stmt.dae = 0
  <2>1. StartExec(stmt, sent, "ParamData") /\ ~(stmt.dae < 0) BY <1>1, <1>5 DEF SQLParamData
  <2>2. /\ Asking /\ AskingRows /\ Ordered(sent) /\ (stmt.endRow = 0 \/ Batch)
        /\ (~Batch => Matches') /\ stmt.row \in Slots
    BY <1>3, <1>4, <2>1 DEF SentRows
  <2>3. Stopped("ERROR", sent) \/ Started(stmt, stmt.row, sent, "ParamData")
    BY <1>1, <2>1, <2>2, StartExecCases
  <2>4. CASE Stopped("ERROR", sent)
    <3>1. "ERROR" \notin Well BY DEF Well
    <3> QED BY <1>1, <2>2, <2>4, <3>1, StoppedRows
  <2>5. CASE Started(stmt, stmt.row, sent, "ParamData")
    <3>1. /\ stmt.row \in Live /\ accepted' = Below(stmt.row) /\ Before(sent, stmt.row)
          /\ Batch => sent = << >> /\ accepted' = {}
      BY <1>1, <2>2 DEF AskingRows
    <3>2. "ParamData" # "none" OBVIOUS
    <3> QED BY <1>1, <2>2, <2>5, <3>1, <3>2, StartedRows
  <2> QED BY <2>3, <2>4, <2>5
<1>6. CASE ~(stmt.dae < 0) /\ stmt.dae # 0
  <2> DEFINE t == Token(stmt)
  <2>1. Return(t, "NEED_DATA", "must_put") /\ sent' = sent BY <1>6 DEF SQLParamData
  <2>2. Asking /\ stmt.dae = Cardinality({p \in stmt.flagged : p > stmt.cep})
    BY <1>1, <1>3, <1>6 DEF AskingData
  <2>3. t.row = stmt.row /\ t.endRow = stmt.endRow BY <1>1, <1>6, <2>2, TokenCounts
  <2> HIDE DEF t
  <2>4. stmt' = t /\ call' = "none" /\ odbc' = "must_put" /\ ret' = "NEED_DATA" BY <2>1 DEF Return
  <2>5. Asking' BY <2>4 DEF Asking, Waiting
  <2> QED BY <1>1, <2>1, <2>2, <2>3, <2>4, <2>5, StillAsking
<1> QED BY <1>1, <1>2, <1>5, <1>6

\* Nothing that the rows depend on.
LEMMA SameRows ==
  ASSUME RInv, UNCHANGED <<cfg, stmt, apd, pstat, call, phase, odbc, sent, accepted, ret>>
  PROVE  RInv'
<1>1. Batch' = Batch /\ Live' = Live /\ \A i : Below(i)' = Below(i) BY DEF Batch, Live, Below
<1>2. Running' = Running /\ Passing' = Passing /\ Asking' = Asking /\ Matches' = Matches
  BY DEF Running, Passing, Asking, Matches
<1>3. SentRows' /\ EndKnown' /\ RunningRows'
  BY <1>1, <1>2 DEF RInv, SentRows, Ordered, EndKnown, RunningRows
<1>4. PassingRows' /\ AskingRows' BY <1>1, <1>2 DEF RInv, PassingRows, AskingRows, Before
<1>5. Complete' BY <1>1 DEF RInv, Complete
<1>6. Statuses' /\ stmt'.row <= MaxRows BY <1>1, <1>2 DEF RInv, Statuses
<1> QED BY <1>3, <1>4, <1>5, <1>6 DEF RInv

LEMMA SQLPutDataRows ==
  ASSUME DInv, RInv, SQLPutData
  PROVE  RInv'
<1>1. UNCHANGED <<cfg, apd, bound, pstat, call, phase, sent, accepted, ret>> BY DEF SQLPutData, callVars
<1>2. CASE UNCHANGED <<stmt, odbc>> BY <1>1, <1>2, SameRows
<1>3. CASE Asking /\ Asking' /\ stmt'.row = stmt.row /\ stmt'.endRow = stmt.endRow
  BY <1>1, <1>3, StillAsking DEF Same
<1> QED BY <1>2, <1>3, SQLPutDataData

\* What a reply makes of the status array and of the rows that are carried out.
LEMMA DoneMatches ==
  ASSUME Fits, NEW kind \in {"SUCCESS", "INFO"}, Done(kind), Same, Batch => accepted = {},
         ~Batch => Matches
  PROVE  Matches'
<1>1. ApdFits(apd) /\ 1..apd.size \subseteq Slots /\ apd.size \in Nat BY LiveRows DEF Fits, Rows
<1>2. /\ pstat' = [r \in Slots |->
                     IF r \in Carried THEN kind
                     ELSE IF Batch /\ r <= apd.size THEN "UNUSED" ELSE pstat[r]]
      /\ accepted' = accepted \cup Carried
  BY DEF Done
<1>3. ASSUME NEW r \in 1..apd.size
      PROVE  pstat'[r] \in Well <=> r \in accepted'
  <2>1. pstat'[r] = IF r \in Carried THEN kind ELSE IF Batch THEN "UNUSED" ELSE pstat[r] BY <1>1, <1>2
  <2>2. CASE r \in Carried BY <1>2, <2>1, <2>2 DEF Well
  <2>3. CASE r \notin Carried /\ Batch BY <1>2, <2>1, <2>3 DEF Well
  <2>4. CASE r \notin Carried /\ ~Batch
    <3>1. pstat[r] \in Well <=> r \in accepted BY <2>4 DEF Matches
    <3> QED BY <1>2, <2>1, <2>4, <3>1
  <2> QED BY <2>2, <2>3, <2>4
<1> QED BY <1>3 DEF Matches, Same

LEMMA ReplyOkRows ==
  ASSUME DInv, RInv, NEW kind \in {"SUCCESS", "INFO"}, ReplyOk(kind)
  PROVE  RInv'
<1>1. /\ Fits /\ ApdFits(apd) /\ call # "none" /\ Running /\ Same /\ sent' = sent /\ Done(kind)
      /\ RunningRows /\ SentRows /\ EndKnown
  BY DEF DInv, Fits, ReplyOk, Running, Same, RInv
<1>2. /\ StmtFits(stmt') /\ Replied(kind) /\ stmt'.endRow = stmt.endRow BY <1>1, ReplyOkCases
<1>3. /\ stmt.row \in Live /\ (stmt.endRow = 0 \/ Batch)
      /\ Batch => accepted = {}
      /\ ~Batch => /\ accepted = Below(stmt.row)
                   /\ \A i \in 1..Len(sent) : sent[i] <= stmt.row
      /\ ~Batch => Matches
  BY <1>1 DEF RunningRows, EndKnown, RInv, Statuses
<1>4. Matches' BY <1>1, <1>3, DoneMatches
<1>5. Batch' = Batch /\ Live' = Live /\ \A i : Below(i)' = Below(i) BY <1>1 DEF Batch, Live, Below, Same
<1>6. accepted' = accepted \cup Carried BY <1>1 DEF Done
<1>7. /\ Live \subseteq 1..apd.size /\ apd.size \in Nat /\ apd.size <= MaxRows /\ MaxRows \in Nat
  BY <1>1, LiveRows
<1>8. stmt.row \in 1..apd.size /\ \A j \in Live : j \in Int
  <2>1. stmt.row \in Live BY <1>3
  <2>2. stmt.row \in 1..apd.size BY <1>7, <2>1, Zenon
  <2>3. \A j \in 1..apd.size : j \in Int BY ONLY <1>7
  <2> QED BY <1>7, <2>2, <2>3, Zenon
<1>9. CASE AtEnd
  <2>1. Stopped(kind, sent) BY <1>1, <1>2, <1>9 DEF Replied, Stopped
  <2>2. accepted' = Live
    <3>1. CASE Batch BY <1>3, <1>6, <3>1 DEF Carried
    <3>2. CASE ~Batch
      <4>1. stmt.row >= apd.size BY <1>3, <1>9, <3>2 DEF AtEnd, LastRow
      <4>2. \A j \in Live : j < stmt.row \/ j = stmt.row
        <5>1. \A j \in 1..apd.size : j < stmt.row \/ j = stmt.row BY ONLY <1>7, <1>8, <4>1
        <5> QED BY <1>7, <5>1
      <4> QED BY <1>3, <1>6, <3>2, <4>2 DEF Carried, Below
    <3> QED BY <3>1, <3>2
  <2> QED BY <1>1, <1>4, <2>1, <2>2, StoppedRows DEF SentRows
<1>10. CASE ~AtEnd
  <2>1. /\ stmt'.row = stmt.row + 1 /\ call' = call /\ phase' = "next" /\ ret' = ret
        /\ odbc' = odbc
    BY <1>2, <1>10 DEF Replied
  <2>2. ~Batch /\ stmt.endRow = 0 /\ stmt.row < apd.size
    <3>1. ~Batch /\ stmt.endRow = 0 BY <1>3, <1>10 DEF AtEnd
    <3>2. ~(stmt.row >= apd.size) BY <1>10, <3>1 DEF AtEnd, LastRow
    <3>3. stmt.row < apd.size BY ONLY <1>7, <1>8, <3>2
    <3> QED BY <3>1, <3>3
  <2>3. stmt.row \in 1..apd.size /\ stmt.row + 1 \in 1..apd.size BY ONLY <1>7, <1>8, <2>2
  <2>4. accepted' = Below(stmt.row + 1)
    <3>1. \A j \in Live : j < stmt.row + 1 <=> j < stmt.row \/ j = stmt.row BY <1>7, <2>3
    <3> QED BY <1>3, <1>6, <2>2, <3>1 DEF Carried, Below
  <2>5. Before(sent, stmt.row + 1)
    <3>1. \A i \in 1..Len(sent) : sent[i] \in Live /\ sent[i] <= stmt.row
      BY <1>1, <1>3, <2>2 DEF SentRows, Ordered
    <3>2. \A j \in Live : j <= stmt.row => j < stmt.row + 1 BY ONLY <1>8
    <3> QED BY <3>1, <3>2 DEF Before
  <2>6. PassingRows' BY <1>1, <1>5, <2>1, <2>2, <2>3, <2>4, <2>5 DEF PassingRows, Before, Same
  <2>7. RunningRows' /\ AskingRows' BY <1>1, <2>1 DEF RunningRows, Running, AskingRows, Asking
  <2>8. SentRows' /\ EndKnown' BY <1>1, <1>2, <1>5, <2>2 DEF SentRows, Ordered, EndKnown
  <2>9. Complete' BY <1>1, <2>1 DEF RInv, Complete, Well
  <2>10. Statuses' BY <1>4 DEF Statuses
  <2>11. stmt'.row <= MaxRows BY <1>7, <2>1, <2>3
  <2> QED BY <2>6, <2>7, <2>8, <2>9, <2>10, <2>11 DEF RInv
<1> QED BY <1>9, <1>10

LEMMA ReplyErrorRows ==
  ASSUME DInv, RInv, ReplyError
  PROVE  RInv'
<1>1. /\ Fits /\ ApdFits(apd) /\ Stopped("ERROR", sent) /\ Same /\ UNCHANGED <<pstat, accepted>>
      /\ Ordered(sent) /\ (~Batch => Matches)
  BY ReplyErrorCases DEF DInv, Fits, ReplyError, Same, RInv, SentRows, Statuses
<1>2. ~Batch => Matches' BY <1>1 DEF Matches, Same
<1>3. "ERROR" \notin Well BY DEF Well
<1> QED BY <1>1, <1>2, <1>3, StoppedRows

LEMMA NextRowRows ==
  ASSUME DInv, RInv, NextRow
  PROVE  RInv'
<1>1. /\ Fits /\ Passing /\ Same /\ accepted' = accepted /\ RunRow(stmt, pstat, sent, call)
      /\ PassingRows /\ SentRows /\ EndKnown
  BY DEF DInv, NextRow, Passing, Same, RInv
<1>2. /\ ApdFits(apd) /\ sent \in Seq(Slots) /\ pstat \in [Slots -> Words] /\ StmtFits(stmt)
      /\ stmt.row \in Slots /\ call \in {"Execute", "ParamData"}
  BY <1>1 DEF Fits, Words, Passing
<1>3. /\ ~Batch /\ accepted' = Below(stmt.row) /\ Before(sent, stmt.row) /\ Ordered(sent)
      /\ stmt.endRow = 0
  BY <1>1 DEF PassingRows, Before, SentRows, EndKnown, Passing
<1>4. \A r \in 1..apd.size : pstat[r] \in Well <=> r \in accepted'
  BY <1>1, <1>3 DEF RInv, Statuses, Matches, Passing
<1> QED BY <1>1, <1>2, <1>3, <1>4, RunRowRows

LEMMA CancelRows ==
  ASSUME DInv, RInv, Cancel \/ TimerFires
  PROVE  RInv'
<1>1. CASE CancelLock
  <2>1. /\ call' = "none" /\ stmt' = Abandon(stmt)
        /\ odbc' = (IF odbc \in Waiting THEN "cancelled" ELSE odbc)
        /\ UNCHANGED <<cfg, apd, pstat, sent, accepted, ret>>
    BY <1>1 DEF CancelLock, Ready, callVars
  <2>2. stmt'.row = stmt.row BY <2>1, AbandonKeeps DEF DInv, Fits
  <2>3. odbc' \notin Waiting /\ stmt'.row <= MaxRows BY <2>1, <2>2 DEF Waiting, RInv
  <2> QED BY <2>1, <2>3, CalmRows
<1>2. CASE CancelReadData \/ CancelReadStatus \/ CancelSend \/ TimerFires
  BY <1>2, SameRows DEF CancelReadData, CancelReadStatus, CancelSend, TimerFires, callVars
<1> QED BY <1>1, <1>2 DEF Cancel

LEMMA RInvInit ==
  ASSUME Init
  PROVE  RInv
<1>1. sent = << >> /\ call = "none" /\ odbc \notin Waiting /\ ret = "none" /\ 0 <= MaxRows
  BY BoundAssumption DEF Init, Waiting
<1>2. stmt.row = 0 BY Zenon DEF Init
<1> QED
  BY <1>1, <1>2 DEF RInv, SentRows, Ordered, EndKnown, RunningRows, Running, PassingRows, Passing,
    AskingRows, Asking, Complete, Statuses, Well

LEMMA RInvStep ==
  ASSUME RowsPrudent, DInv, RInv, [Next]_vars
  PROVE  RInv'
<1>1. CASE App BY <1>1, BetweenRows, SQLExecuteRows, SQLParamDataRows, SQLPutDataRows, Zenon DEF App
<1>2. CASE Reply BY <1>2, ReplyOkRows, ReplyErrorRows DEF Reply
<1>3. CASE NextRow BY <1>3, NextRowRows
<1>4. CASE TimerFires \/ Cancel BY <1>4, CancelRows, Zenon
<1>5. CASE UNCHANGED vars BY <1>5, SameRows DEF vars, callVars
<1> QED BY <1>1, <1>2, <1>3, <1>4, <1>5 DEF Next

--------------------
(* The theorems.                                                           *)

LEMMA DInvAlways == Spec => []DInv
<1>1. Init => DInv BY DInvInit
<1>2. DInv /\ [Next]_vars => DInv' BY DInvStep
<1> QED BY <1>1, <1>2, PTL DEF Spec

LEMMA RInvAlways ==
  ASSUME RowsPrudent
  PROVE  Spec => []RInv
<1>1. Init => RInv BY RInvInit
<1>2. DInv /\ RInv /\ [Next]_vars => RInv' BY RInvStep
<1> QED BY <1>1, <1>2, DInvAlways, PTL DEF Spec

\* With an application that keeps its batches and its direct executions apart, no counter
\* of an execution leaves the arrays it indexes, however the calls, the replies, the timer
\* and SQLCancel interleave (exec_current_row, exec_end_row, data_at_exec,
\* current_exec_param of execute.c).
THEOREM TypeCorrect ==
  ASSUME RowsPrudent
  PROVE  Spec => []TypeOK
<1>1. ASSUME DInv, RInv
      PROVE  TypeOK
  <2>1. StmtFits(stmt) /\ stmt.row <= MaxRows /\ MaxRows \in Nat
    BY <1>1, BoundAssumption DEF DInv, Fits, RInv
  <2>2. stmt.row \in 0..MaxRows BY <2>1 DEF StmtFits
  <2>3. stmt \in StmtType
    <3> DEFINE t == [status |-> stmt.status, prepare |-> stmt.prepare,
                     prepared |-> stmt.prepared, row |-> stmt.row, endRow |-> stmt.endRow,
                     dae |-> stmt.dae, cep |-> stmt.cep, put |-> stmt.put,
                     flagged |-> stmt.flagged, bufs |-> stmt.bufs]
    <3>1. stmt = t
      <4>1. stmt = [f \in StmtFields |-> stmt[f]] BY <2>1 DEF StmtFits
      <4>2. t = [f \in StmtFields |-> stmt[f]] BY DEF StmtFields
      <4> QED BY <4>1, <4>2
    <3>2. t \in StmtType BY <2>1, <2>2, Zenon DEF StmtFits, StmtType
    <3> QED BY <3>1, <3>2
  <2>4. apd \in Arrays BY <1>1 DEF DInv, Fits, ApdFits
  <2> QED BY <1>1, <2>3, <2>4, Zenon DEF DInv, Fits, Rest, TypeOK
<1> QED BY <1>1, DInvAlways, RInvAlways, PTL

\* SQLParamData executes exactly after the last parameter the application was asked for,
\* whatever the application does between its calls (data_at_exec, PGAPI_ParamData).
THEOREM CountsRight == Spec => []CounterExact
BY DInvAlways, CounterExactHolds, PTL

\* Every row that reaches the server carries its own values, if UseBatchProtocol is used
\* without data at execution and with uniform NULLs (SC_free_params, PGAPI_PutData,
\* ResolveOneParam, build_libpq_bind_params_batch).
THEOREM OwnValues ==
  ASSUME DataPrudent
  PROVE  Spec => []OwnData
<1>1. Init => BatchData BY BatchDataInit
<1>2. BatchData /\ [Next]_vars => BatchData' BY BatchDataStep
<1>3. DInv /\ BatchData => OwnData BY OwnDataHolds
<1> QED BY <1>1, <1>2, <1>3, DInvAlways, PTL DEF Spec

\* One execution sends the rows that are not ignored, in order and once each, and success
\* means that all of them were carried out (PGAPI_Execute, PGAPI_ParamData).
THEOREM RowsInOrder ==
  ASSUME RowsPrudent
  PROVE  Spec => []RowsExact
<1>1. ASSUME DInv, RInv
      PROVE  RowsExact
  <2>1. /\ \A i \in 1..Len(sent) : sent[i] \in Live
        /\ \A i, j \in 1..Len(sent) : i < j => sent[i] < sent[j]
        /\ ret \in {"SUCCESS", "INFO"} => accepted = Live
    BY <1>1 DEF RInv, SentRows, Ordered, Complete, Well
  <2>2. \A r \in Live : r <= apd.size /\ r \notin apd.ignored
    <3>1. Live \subseteq 1..apd.size /\ apd.size \in Nat BY <1>1, LiveRows DEF DInv, Fits
    <3> QED BY <3>1 DEF Live
  <2> QED BY <2>1, <2>2 DEF RowsExact
<1> QED BY <1>1, DInvAlways, RInvAlways, PTL

\* When the call returns the status array says success for the rows that were carried out
\* and for no others (SetIPDField, the param_status_ptr code of PGAPI_Execute).
THEOREM StatusHonest ==
  ASSUME RowsPrudent
  PROVE  Spec => []StatusTruth
<1>1. ASSUME RInv
      PROVE  StatusTruth
  BY <1>1 DEF RInv, Statuses, Matches, Well, StatusTruth
<1> QED BY <1>1, RInvAlways, PTL

--------------------
(* Bulk operations (BulkOps): rowsets of any size, any columns with data   *)
(* at execution, any number of operations, of an application that neither  *)
(* cancels while its data are awaited nor leaves out the bookmark.         *)

BulkPrudent == "cancel" \notin RiskyCalls /\ "no_bookmark" \notin RiskyCalls

--------------------
(* The inductive invariant.                                                *)

\* The values of autocommit; SwitchValues says all that the types need of them.
Switch == BOOLEAN
Operations == [op : Nat, nrow : Int, end_row : Int, processed : Nat, auto_commit_needed : Switch]
Outcomes == {"SUCCESS", "ERROR"}

Results == [op : Nat, row : Int, outcome : Outcomes]

Flags ==
  /\ ac \in Switch /\ want \in Switch
  /\ pc \in {"idle", "rows", "need", "dequeue"}
  /\ retcode \in Outcomes \cup {"NEED_DATA"}
  /\ ops \in Nat
OperationKnown == cdata \in Operations
Executed == done \in Seq(Results)
Types == Flags /\ OperationKnown /\ Executed

\* The row at hand waits for its data, or has been executed and its callback has run.
RowWaits == callbacks = Enqueued(cdata.nrow)
RowRan == callbacks = <<[func |-> "spos_callback", row |-> cdata.nrow, data |-> cdata]>>

Queue ==
  /\ pc \in {"idle", "rows"} => callbacks = <<>>
  /\ pc = "need" => RowWaits
  /\ pc = "dequeue" => RowWaits \/ RowRan
  /\ pc \in {"rows", "dequeue"} => retcode \in Outcomes

\* The rows so far: consecutive, and only the last one may have failed.
DoneInOrder ==
  \A i \in 1..Len(done) :
    /\ i > 1 => done[i].row = done[i - 1].row + 1
    /\ i < Len(done) => done[i].outcome = "SUCCESS"

\* All rows before the one at hand are done.
UpToHere ==
  /\ cdata.processed = Len(done)
  /\ Len(done) > 0 => done[Len(done)].row = cdata.nrow - 1 /\ done[Len(done)].outcome = "SUCCESS"

Counted ==
  /\ pc = "idle" => cdata.processed = Len(done)
  /\ pc = "rows" /\ retcode = "ERROR" => cdata.processed = Len(done)
  /\ pc = "rows" /\ retcode # "ERROR" => UpToHere
  /\ pc = "need" => UpToHere
  /\ pc = "dequeue" /\ RowWaits => UpToHere
  /\ pc = "dequeue" /\ RowRan =>
       /\ Len(done) = cdata.processed + 1
       /\ done[Len(done)].row = cdata.nrow /\ done[Len(done)].outcome = retcode

Delegates ==
  /\ pc \in {"idle", "rows"} \/ (pc = "dequeue" /\ RowRan) => live = {} /\ delegate = NoDelegate
  /\ pc = "need" \/ (pc = "dequeue" /\ RowWaits) => live = {[op |-> cdata.op, row |-> cdata.nrow]}

Autocommit ==
  /\ pc = "idle" => ac = want
  /\ pc # "idle" => ac = FALSE /\ cdata.auto_commit_needed = want

BulkInv == Types /\ Queue /\ DoneInOrder /\ Counted /\ Delegates /\ Autocommit

--------------------
(* The initial states, and the steps, conjunct by conjunct.                *)

\* Autocommit is on or off.
LEMMA SwitchValues == TRUE \in Switch /\ FALSE \in Switch
  BY DEF Switch

\* No operation is one whose rows are none.
LEMMA NoOperation == NoOp \in Operations
  BY DEF NoOp, Operations, Switch

\* An operation that goes on to another row, or only counts one, is one.
LEMMA GoesOn == ASSUME NEW d \in Operations, NEW p \in Nat, NEW r \in Int
                PROVE  /\ [d EXCEPT !.processed = p] \in Operations
                       /\ [d EXCEPT !.processed = p, !.nrow = r] \in Operations
<1>1. [d EXCEPT !.processed = p] \in Operations BY DEF Operations
<1>2. [d EXCEPT !.processed = p, !.nrow = r] \in Operations BY DEF Operations
<1> QED BY <1>1, <1>2

\* A connection that has only just been given a statement satisfies the invariant.
LEMMA InitIInv == BulkInit => BulkInv
<1> SUFFICES ASSUME BulkInit PROVE BulkInv OBVIOUS
<1> USE DEF BulkInit
<1>1. Types
  BY RowsAssumption DEF Types, Flags, OperationKnown, Executed, NoOp, Operations, Outcomes, Results, Switch
<1>2. Queue /\ DoneInOrder /\ Counted BY DEF Queue, DoneInOrder, Counted, UpToHere, NoOp, Outcomes
<1>3. Delegates /\ Autocommit BY DEF Delegates, Autocommit
<1> QED BY <1>1, <1>2, <1>3 DEF BulkInv

\* The outcomes of rows and of calls are those of the C functions.
LEMMA StepFlags == BulkInv /\ [BulkNext]_bulkVars => Flags'
<1> SUFFICES ASSUME Flags, [BulkNext]_bulkVars PROVE Flags' BY DEF BulkInv, Types
<1>1. ac' \in Switch
  <2>1. ac' \in {TRUE, FALSE, ac}
    BY DEF BulkNext, bulkVars, PGAPI_SetPos, PGAPI_BulkOperations, RowRefused, RowNow, RowLate, RowsEnd,
      Restored, PGAPI_ParamData, ParamDataExecutes, dequeueNeedDataCallback, PGAPI_Cancel
  <2> QED BY <2>1, SwitchValues DEF Flags
<1>2. want' = want
  BY DEF BulkNext, bulkVars, PGAPI_SetPos, PGAPI_BulkOperations, RowRefused, RowNow, RowLate, RowsEnd,
    PGAPI_ParamData, ParamDataExecutes, dequeueNeedDataCallback, PGAPI_Cancel
<1>3. ops' \in Nat
  BY DEF Flags, BulkNext, bulkVars, PGAPI_SetPos, PGAPI_BulkOperations, RowRefused, RowNow, RowLate,
    RowsEnd, PGAPI_ParamData, ParamDataExecutes, dequeueNeedDataCallback, PGAPI_Cancel
<1>4. pc' \in {"idle", "rows", "need", "dequeue"}
  BY DEF Flags, BulkNext, bulkVars, PGAPI_SetPos, PGAPI_BulkOperations, RowRefused, RowNow, RowLate,
    RowsEnd, PGAPI_ParamData, ParamDataExecutes, dequeueNeedDataCallback, PGAPI_Cancel
<1>5. retcode' \in Outcomes \cup {"NEED_DATA"}
  BY DEF Flags, Outcomes, BulkNext, bulkVars, PGAPI_SetPos, PGAPI_BulkOperations, RowRefused, RowNow,
    RowLate, RowsEnd, PGAPI_ParamData, ParamDataExecutes, dequeueNeedDataCallback, PGAPI_Cancel
<1> QED BY <1>1, <1>2, <1>3, <1>4, <1>5 DEF Flags

\* The operation that is running is one, or none with the count of the last.
LEMMA StepRunning == BulkInv /\ [BulkNext]_bulkVars => OperationKnown'
<1> SUFFICES ASSUME Flags, OperationKnown, Queue, [BulkNext]_bulkVars PROVE OperationKnown'
  BY DEF BulkInv, Types
<1> USE DEF OperationKnown
<1>a. cdata.nrow \in Int /\ cdata.nrow + 1 \in Int /\ cdata.processed + 1 \in Nat /\ cdata.processed \in Nat
  BY DEF Operations
<1>b. ASSUME NEW first \in Int, NEW last \in Int PROVE Begun(first, last) \in Operations
  BY <1>b DEF Begun, Operations, Flags
<1>1. ASSUME NEW irow \in 0..RowsetSize, PGAPI_SetPos(irow) PROVE OperationKnown'
  <2>1. cdata' = Begun(0, RowsetSize - 1) \/ cdata' = Begun(irow - 1, irow - 1) BY <1>1 DEF PGAPI_SetPos
  <2> QED BY <2>1, <1>b, RowsAssumption
<1>2. ASSUME NEW bookmark \in BOOLEAN, PGAPI_BulkOperations(bookmark) PROVE OperationKnown'
  <2>1. cdata' = NoOp \/ cdata' = Begun(0, RowsetSize - 1) BY <1>2 DEF PGAPI_BulkOperations
  <2> QED BY <2>1, <1>b, NoOperation, RowsAssumption
<1>3. CASE RowRefused BY <1>3, <1>a, GoesOn DEF RowRefused
<1>4. ASSUME NEW outcome \in Outcomes, RowNow(outcome) PROVE OperationKnown'
  <2>1. \/ cdata' = [cdata EXCEPT !.processed = @ + 1, !.nrow = cdata.nrow]
        \/ cdata' = [cdata EXCEPT !.processed = @ + 1, !.nrow = cdata.nrow + 1]
    BY <1>4 DEF RowNow
  <2> QED BY <2>1, <1>a, GoesOn
<1>5. CASE RowLate \/ PGAPI_ParamData \/ UNCHANGED bulkVars BY <1>5 DEF RowLate, PGAPI_ParamData, bulkVars
<1>6. CASE RowsEnd BY <1>6, <1>a, NoOperation, GoesOn DEF RowsEnd
<1>7. ASSUME NEW outcome \in Outcomes, ParamDataExecutes(outcome) PROVE OperationKnown'
  BY <1>7 DEF ParamDataExecutes
<1>8. CASE dequeueNeedDataCallback
  <2>1. Head(callbacks).data = cdata
    BY <1>8 DEF dequeueNeedDataCallback, Queue, RowWaits, RowRan, Enqueued
  <2>2. \/ cdata' = cdata
        \/ cdata' = [cdata EXCEPT !.processed = @ + 1, !.nrow = cdata.nrow]
        \/ cdata' = [cdata EXCEPT !.processed = @ + 1, !.nrow = cdata.nrow + 1]
    BY <1>8, <2>1 DEF dequeueNeedDataCallback, Resumed
  <2> QED BY <2>2, <1>a, GoesOn
<1>9. CASE PGAPI_Cancel BY <1>9, NoOperation DEF PGAPI_Cancel
<1> QED BY <1>1, <1>2, <1>3, <1>4, <1>5, <1>6, <1>7, <1>8, <1>9 DEF BulkNext, Outcomes

\* The rows that are done have outcomes.
LEMMA StepExecuted == BulkInv /\ [BulkNext]_bulkVars => Executed'
<1> SUFFICES ASSUME Flags, OperationKnown, Executed, Queue, [BulkNext]_bulkVars PROVE Executed'
  BY DEF BulkInv, Types
<1> USE DEF Executed
<1>1. ASSUME NEW irow \in 0..RowsetSize, PGAPI_SetPos(irow) PROVE Executed' BY <1>1 DEF PGAPI_SetPos
<1>2. ASSUME NEW bookmark \in BOOLEAN, PGAPI_BulkOperations(bookmark) PROVE Executed'
  BY <1>2 DEF PGAPI_BulkOperations
<1>3. CASE RowRefused BY <1>3 DEF RowRefused, Results, OperationKnown, Operations, Outcomes
<1>4. ASSUME NEW outcome \in Outcomes, RowNow(outcome) PROVE Executed'
  BY <1>4 DEF RowNow, RowDone, Results, OperationKnown, Operations
<1>5. CASE RowLate \/ RowsEnd \/ PGAPI_ParamData \/ PGAPI_Cancel \/ UNCHANGED bulkVars
  BY <1>5 DEF RowLate, RowsEnd, PGAPI_ParamData, PGAPI_Cancel, bulkVars
<1>6. ASSUME NEW outcome \in Outcomes, ParamDataExecutes(outcome) PROVE Executed'
  BY <1>6 DEF ParamDataExecutes
<1>7. CASE dequeueNeedDataCallback
  <2>1. /\ Head(callbacks).data = cdata /\ Head(callbacks).row = cdata.nrow
        /\ retcode \in Outcomes
    BY <1>7 DEF dequeueNeedDataCallback, Queue, RowWaits, RowRan, Enqueued
  <2>2. \/ done' = done
        \/ done' = Append(done, [op |-> cdata.op, row |-> cdata.nrow, outcome |-> retcode])
    BY <1>7, <2>1 DEF dequeueNeedDataCallback, AfterRow, RowDone
  <2>3. [op |-> cdata.op, row |-> cdata.nrow, outcome |-> retcode] \in Results
    BY <2>1 DEF Results, OperationKnown, Operations
  <2> QED BY <2>2, <2>3
<1> QED BY <1>1, <1>2, <1>3, <1>4, <1>5, <1>6, <1>7 DEF BulkNext, Outcomes

\* The queue holds what the row at hand has put there, and nothing between rows.
LEMMA StepQueue == BulkPrudent /\ BulkInv /\ [BulkNext]_bulkVars => Queue'
<1> SUFFICES ASSUME BulkPrudent, Flags, Queue, [BulkNext]_bulkVars PROVE Queue' BY DEF BulkInv, Types
<1> USE DEF Queue, Outcomes
<1>1. ASSUME NEW irow \in 0..RowsetSize, PGAPI_SetPos(irow) PROVE Queue' BY <1>1 DEF PGAPI_SetPos
<1>2. ASSUME NEW bookmark \in BOOLEAN, PGAPI_BulkOperations(bookmark) PROVE Queue'
  BY <1>2 DEF PGAPI_BulkOperations, BulkPrudent
<1>3. CASE RowRefused BY <1>3 DEF RowRefused
<1>4. ASSUME NEW outcome \in Outcomes, RowNow(outcome) PROVE Queue' BY <1>4 DEF RowNow
<1>5. CASE RowLate
  <2>1. callbacks' = Enqueued(cdata.nrow) /\ cdata' = cdata /\ pc' = "need" BY <1>5 DEF RowLate, Enqueued
  <2> QED BY <2>1 DEF RowWaits, Enqueued
<1>6. CASE RowsEnd BY <1>6 DEF RowsEnd
<1>7. CASE PGAPI_ParamData \/ UNCHANGED bulkVars
  BY <1>7 DEF PGAPI_ParamData, bulkVars, RowWaits, RowRan, Enqueued
<1>8. ASSUME NEW outcome \in Outcomes, ParamDataExecutes(outcome) PROVE Queue'
  BY <1>8 DEF ParamDataExecutes, RowWaits, Enqueued
<1>9. CASE dequeueNeedDataCallback
  <2>1. CASE RowWaits
    <3>1. /\ pc' = pc /\ pc = "dequeue" /\ cdata' = cdata /\ retcode' = retcode
          /\ callbacks' = <<[func |-> "spos_callback", row |-> cdata.nrow, data |-> cdata]>>
      BY <1>9, <2>1 DEF dequeueNeedDataCallback, RowWaits, Enqueued
    <3> QED BY <3>1 DEF RowRan
  <2>2. CASE RowRan
    <3>1. pc' = "rows" /\ callbacks' = <<>> /\ retcode' = retcode /\ pc = "dequeue"
      BY <1>9, <2>2 DEF dequeueNeedDataCallback, RowRan
    <3> QED BY <3>1
  <2> QED BY <1>9, <2>1, <2>2 DEF dequeueNeedDataCallback
<1>10. CASE PGAPI_Cancel BY <1>10 DEF PGAPI_Cancel, BulkPrudent
<1> QED BY <1>1, <1>2, <1>3, <1>4, <1>5, <1>6, <1>7, <1>8, <1>9, <1>10 DEF BulkNext

\* One more row, the one at hand, keeps the order when all before it are done.
LEMMA OneMoreRow ==
  ASSUME OperationKnown, Executed, DoneInOrder, UpToHere, NEW outcome \in Outcomes,
         done' = Append(done, [op |-> cdata.op, row |-> cdata.nrow, outcome |-> outcome])
  PROVE  /\ DoneInOrder'
         /\ Len(done') = cdata.processed + 1
         /\ done'[Len(done')].row = cdata.nrow /\ done'[Len(done')].outcome = outcome
<1>1. done \in Seq(Results) /\ Len(done) \in Nat /\ cdata.nrow \in Int
  BY DEF Executed, OperationKnown, Operations
<1>2. /\ Len(done') = Len(done) + 1
      /\ \A i \in 1..Len(done) : done'[i] = done[i]
      /\ done'[Len(done) + 1] = [op |-> cdata.op, row |-> cdata.nrow, outcome |-> outcome]
  BY <1>1
<1>3. ASSUME NEW i \in 1..Len(done')
      PROVE  /\ i > 1 => done'[i].row = done'[i - 1].row + 1
             /\ i < Len(done') => done'[i].outcome = "SUCCESS"
  <2>1. CASE i \in 1..Len(done) BY <2>1, <1>1, <1>2 DEF DoneInOrder, UpToHere
  <2>2. CASE i = Len(done) + 1 BY <2>2, <1>1, <1>2 DEF UpToHere
  <2> QED BY <2>1, <2>2, <1>1, <1>2
<1>4. cdata.processed = Len(done) BY DEF UpToHere
<1> QED BY <1>1, <1>2, <1>3, <1>4 DEF DoneInOrder

\* What the first callback of a row does, and what the second one does.
LEMMA CallbackRuns ==
  ASSUME BulkInv, dequeueNeedDataCallback
  PROVE  \/ /\ RowWaits /\ RowRan' /\ ~RowWaits' /\ UNCHANGED <<pc, cdata, retcode>>
            /\ done' = Append(done, [op |-> cdata.op, row |-> cdata.nrow, outcome |-> retcode])
            /\ live' = live \ {[op |-> cdata.op, row |-> cdata.nrow]} /\ delegate' = NoDelegate
         \/ /\ RowRan /\ ~RowWaits /\ pc' = "rows" /\ cdata' = Resumed(cdata, retcode) /\ UNCHANGED <<retcode, done, live, delegate>>
<1> USE DEF BulkInv
<1>1. pc = "dequeue" /\ (RowWaits \/ RowRan) BY DEF dequeueNeedDataCallback, Queue
<1>2. CASE RowWaits
  <2>1. /\ Len(callbacks) = 2 /\ Head(callbacks) = [func |-> "pos_callback", row |-> cdata.nrow, data |-> cdata]
        /\ Tail(callbacks) = <<[func |-> "spos_callback", row |-> cdata.nrow, data |-> cdata]>>
    BY <1>2 DEF RowWaits, Enqueued
  <2>2. /\ UNCHANGED <<pc, cdata, retcode>> /\ callbacks' = <<[func |-> "spos_callback", row |-> cdata.nrow, data |-> cdata]>>
        /\ AfterRow(Head(callbacks))
    BY <2>1 DEF dequeueNeedDataCallback
  <2>3. RowRan' /\ ~RowWaits' BY <2>2 DEF RowRan, RowWaits, Enqueued
  <2> QED BY <1>2, <2>1, <2>2, <2>3 DEF AfterRow, RowDone
<1>3. CASE RowRan
  <2>1. Head(callbacks) = [func |-> "spos_callback", row |-> cdata.nrow, data |-> cdata]
    BY <1>3 DEF RowRan
  <2>2. ~RowWaits BY <1>3 DEF RowRan, RowWaits, Enqueued
  <2> QED BY <1>3, <2>1, <2>2 DEF dequeueNeedDataCallback
<1> QED BY <1>1, <1>2, <1>3

\* The rows that are done stay consecutive, and the count of them exact.
LEMMA StepCounted == BulkPrudent /\ BulkInv /\ [BulkNext]_bulkVars => DoneInOrder' /\ Counted'
<1> SUFFICES ASSUME BulkPrudent, BulkInv, [BulkNext]_bulkVars PROVE DoneInOrder' /\ Counted' OBVIOUS
<1>a. OperationKnown /\ Executed /\ DoneInOrder /\ Counted /\ Queue /\ Flags BY DEF BulkInv, Types
<1>b. cdata.nrow \in Int /\ cdata.processed \in Nat /\ done \in Seq(Results)
  BY <1>a DEF OperationKnown, Executed, Operations
<1>c. OperationKnown' BY StepRunning
<1>1. ASSUME NEW irow \in 0..RowsetSize, PGAPI_SetPos(irow) PROVE DoneInOrder' /\ Counted'
  <2>1. done' = <<>> /\ pc' = "rows" /\ retcode' = "SUCCESS" /\ cdata'.processed = 0
    BY <1>1 DEF PGAPI_SetPos, Begun
  <2> QED BY <2>1 DEF DoneInOrder, Counted, UpToHere
<1>2. ASSUME NEW bookmark \in BOOLEAN, PGAPI_BulkOperations(bookmark) PROVE DoneInOrder' /\ Counted'
  <2>1. done' = <<>> /\ pc' = "rows" /\ retcode' = "SUCCESS" /\ cdata'.processed = 0
    BY <1>2 DEF PGAPI_BulkOperations, Begun, BulkPrudent
  <2> QED BY <2>1 DEF DoneInOrder, Counted, UpToHere
<1>3. CASE RowRefused
  <2>1. UpToHere /\ pc' = "rows" /\ retcode' = "ERROR" /\ cdata'.processed = cdata.processed + 1
    BY <1>3, <1>a DEF RowRefused, Counted, OperationKnown, Operations
  <2>2. DoneInOrder' /\ Len(done') = cdata.processed + 1
    BY <1>3, <1>a, <2>1, OneMoreRow DEF RowRefused, Outcomes
  <2> QED BY <2>1, <2>2 DEF Counted
<1>4. ASSUME NEW outcome \in Outcomes, RowNow(outcome) PROVE DoneInOrder' /\ Counted'
  <2>1. /\ UpToHere /\ pc' = "rows" /\ retcode' = outcome /\ cdata'.processed = cdata.processed + 1
        /\ outcome # "ERROR" => cdata'.nrow = cdata.nrow + 1
        /\ done' = Append(done, [op |-> cdata.op, row |-> cdata.nrow, outcome |-> outcome])
    BY <1>4, <1>a DEF RowNow, RowDone, Counted, OperationKnown, Operations
  <2>2. /\ DoneInOrder' /\ Len(done') = cdata.processed + 1
        /\ done'[Len(done')].row = cdata.nrow /\ done'[Len(done')].outcome = outcome
    BY <1>a, <2>1, OneMoreRow
  <2>3. CASE outcome = "ERROR" BY <2>1, <2>2, <2>3 DEF Counted
  <2>4. CASE outcome # "ERROR"
    <3>1. UpToHere' BY <2>1, <2>2, <2>4, <1>b DEF UpToHere, Outcomes
    <3> QED BY <2>1, <2>2, <2>4, <3>1 DEF Counted
  <2> QED BY <2>3, <2>4
<1>5. CASE RowLate
  <2>1. UpToHere /\ UNCHANGED <<cdata, done>> /\ pc' = "need" BY <1>5, <1>a DEF RowLate, Counted
  <2> QED BY <2>1, <1>a DEF DoneInOrder, Counted, UpToHere
<1>6. CASE RowsEnd
  <2>1. callbacks = <<>> /\ cdata.processed = Len(done)
    BY <1>6, <1>a DEF RowsEnd, Queue, Counted, UpToHere
  <2>2. done' = done /\ pc' = "idle" /\ cdata'.processed = cdata.processed BY <1>6, <2>1 DEF RowsEnd, NoOp
  <2> QED BY <2>1, <2>2, <1>a DEF DoneInOrder, Counted
<1>7. CASE PGAPI_ParamData
  <2>1. UNCHANGED <<pc, cdata, done, retcode, callbacks>> /\ pc = "need" BY <1>7 DEF PGAPI_ParamData
  <2> QED BY <2>1, <1>a DEF DoneInOrder, Counted, UpToHere
<1>8. ASSUME NEW outcome \in Outcomes, ParamDataExecutes(outcome) PROVE DoneInOrder' /\ Counted'
  <2>1. pc = "need" /\ pc' = "dequeue" /\ UNCHANGED <<cdata, done, callbacks>>
    BY <1>8 DEF ParamDataExecutes
  <2>2. UpToHere /\ RowWaits /\ ~RowRan BY <2>1, <1>a DEF Counted, Queue, RowWaits, RowRan, Enqueued
  <2>3. UpToHere' /\ ~RowRan' BY <2>1, <2>2 DEF UpToHere, RowRan
  <2> QED BY <2>1, <2>3, <1>a DEF DoneInOrder, Counted
<1>9. CASE dequeueNeedDataCallback
  <2>a. pc = "dequeue" /\ retcode \in Outcomes BY <1>9, <1>a DEF dequeueNeedDataCallback, Queue
  <2>1. CASE /\ RowWaits /\ RowRan' /\ ~RowWaits' /\ UNCHANGED <<pc, cdata, retcode>>
             /\ done' = Append(done, [op |-> cdata.op, row |-> cdata.nrow, outcome |-> retcode])
    <3>1. UpToHere BY <2>1, <2>a, <1>a DEF Counted
    <3>2. /\ DoneInOrder' /\ Len(done') = cdata.processed + 1
          /\ done'[Len(done')].row = cdata.nrow /\ done'[Len(done')].outcome = retcode
      BY <2>1, <2>a, <3>1, <1>a, OneMoreRow
    <3> QED BY <2>1, <2>a, <3>2 DEF Counted
  <2>2. CASE RowRan /\ ~RowWaits /\ pc' = "rows" /\ cdata' = Resumed(cdata, retcode) /\ UNCHANGED <<retcode, done>>
    <3>1. /\ Len(done) = cdata.processed + 1
          /\ done[Len(done)].row = cdata.nrow /\ done[Len(done)].outcome = retcode
      BY <2>2, <2>a, <1>a DEF Counted
    <3>2. cdata'.processed = cdata.processed + 1 /\ (retcode # "ERROR" => cdata'.nrow = cdata.nrow + 1)
      BY <2>2, <1>a DEF Resumed, OperationKnown, Operations
    <3>3. retcode # "ERROR" => UpToHere' BY <2>2, <2>a, <3>1, <3>2, <1>b DEF UpToHere, Outcomes
    <3>4. DoneInOrder' BY <2>2, <1>a DEF DoneInOrder
    <3> QED BY <2>2, <2>a, <3>1, <3>2, <3>3, <3>4 DEF Counted
  <2> QED BY <1>9, <2>1, <2>2, CallbackRuns
<1>10. CASE PGAPI_Cancel BY <1>10, <1>a DEF PGAPI_Cancel, BulkPrudent, DoneInOrder, Counted
<1>11. CASE UNCHANGED bulkVars
  BY <1>11, <1>a DEF bulkVars, DoneInOrder, Counted, UpToHere, RowWaits, RowRan, Enqueued
<1> QED BY <1>1, <1>2, <1>3, <1>4, <1>5, <1>6, <1>7, <1>8, <1>9, <1>10, <1>11 DEF BulkNext, Outcomes

\* A row that waits has a delegate of its own, and no other exists.
LEMMA StepDelegates == BulkPrudent /\ BulkInv /\ [BulkNext]_bulkVars => Delegates'
<1> SUFFICES ASSUME BulkPrudent, BulkInv, [BulkNext]_bulkVars PROVE Delegates' OBVIOUS
<1>a. Delegates /\ Queue BY DEF BulkInv
<1>1. ASSUME NEW irow \in 0..RowsetSize, PGAPI_SetPos(irow) PROVE Delegates'
  BY <1>1, <1>a DEF PGAPI_SetPos, Delegates
<1>2. ASSUME NEW bookmark \in BOOLEAN, PGAPI_BulkOperations(bookmark) PROVE Delegates'
  BY <1>2, <1>a DEF PGAPI_BulkOperations, Delegates, BulkPrudent
<1>3. CASE RowRefused BY <1>3, <1>a DEF RowRefused, Delegates
<1>4. ASSUME NEW outcome \in Outcomes, RowNow(outcome) PROVE Delegates'
  BY <1>4, <1>a DEF RowNow, RowDone, Delegates
<1>5. CASE RowLate BY <1>5, <1>a DEF RowLate, Delegates
<1>6. CASE RowsEnd
  <2>1. pc' = "idle" /\ live = {} /\ delegate = NoDelegate /\ UNCHANGED <<live, delegate>>
    BY <1>6, <1>a DEF RowsEnd, Queue, Delegates
  <2> QED BY <2>1 DEF Delegates
<1>7. CASE PGAPI_ParamData BY <1>7, <1>a DEF PGAPI_ParamData, Delegates
<1>8. ASSUME NEW outcome \in Outcomes, ParamDataExecutes(outcome) PROVE Delegates'
  <2>1. RowWaits /\ ~RowRan /\ pc = "need" /\ pc' = "dequeue" /\ UNCHANGED <<cdata, callbacks, live, delegate>>
    BY <1>8, <1>a DEF ParamDataExecutes, Queue, RowWaits, RowRan, Enqueued
  <2>2. RowWaits' /\ ~RowRan' BY <2>1 DEF RowWaits, RowRan, Enqueued
  <2> QED BY <2>1, <2>2, <1>a DEF Delegates
<1>9. CASE dequeueNeedDataCallback
  <2>1. pc = "dequeue" BY <1>9 DEF dequeueNeedDataCallback
  <2> QED BY <1>9, <2>1, <1>a, CallbackRuns DEF Delegates
<1>10. CASE PGAPI_Cancel
  <2>1. UNCHANGED live /\ pc = "idle" /\ pc' = "idle" /\ delegate' = [NoDelegate EXCEPT !.data_at_exec = -1]
    BY <1>10, <1>a DEF PGAPI_Cancel, BulkPrudent, Delegates
  <2>2. delegate' = NoDelegate BY <2>1 DEF NoDelegate
  <2> QED BY <2>1, <2>2, <1>a DEF Delegates
<1>11. CASE UNCHANGED bulkVars BY <1>11, <1>a DEF bulkVars, Delegates, RowWaits, RowRan, Enqueued
<1> QED BY <1>1, <1>2, <1>3, <1>4, <1>5, <1>6, <1>7, <1>8, <1>9, <1>10, <1>11 DEF BulkNext, Outcomes

\* Autocommit is off during an operation, which knows what it was before.
LEMMA StepAutocommit == BulkPrudent /\ BulkInv /\ [BulkNext]_bulkVars => Autocommit'
<1> SUFFICES ASSUME BulkPrudent, BulkInv, [BulkNext]_bulkVars PROVE Autocommit' OBVIOUS
<1>a. Autocommit /\ Queue /\ Flags /\ OperationKnown BY DEF BulkInv, Types
<1>1. ASSUME NEW irow \in 0..RowsetSize, PGAPI_SetPos(irow) PROVE Autocommit'
  BY <1>1, <1>a DEF PGAPI_SetPos, Autocommit, Begun
<1>2. ASSUME NEW bookmark \in BOOLEAN, PGAPI_BulkOperations(bookmark) PROVE Autocommit'
  BY <1>2, <1>a DEF PGAPI_BulkOperations, Autocommit, Begun, BulkPrudent
<1>3. CASE RowRefused BY <1>3, <1>a DEF RowRefused, Autocommit, OperationKnown, Operations
<1>4. ASSUME NEW outcome \in Outcomes, RowNow(outcome) PROVE Autocommit'
  BY <1>4, <1>a DEF RowNow, Autocommit, OperationKnown, Operations
<1>5. CASE RowLate \/ PGAPI_ParamData BY <1>5, <1>a DEF RowLate, PGAPI_ParamData, Autocommit
<1>6. CASE RowsEnd
  <2>1. pc' = "idle" /\ UNCHANGED want /\ ac' = Restored /\ ac = FALSE /\ cdata.auto_commit_needed = want
    BY <1>6, <1>a DEF RowsEnd, Queue, Autocommit
  <2>2. ac' = want' BY <2>1, <1>a DEF Restored, Flags, Switch
  <2> QED BY <2>1, <2>2 DEF Autocommit
<1>7. ASSUME NEW outcome \in Outcomes, ParamDataExecutes(outcome) PROVE Autocommit'
  BY <1>7, <1>a DEF ParamDataExecutes, Autocommit
<1>8. CASE dequeueNeedDataCallback
  <2>1. pc = "dequeue" /\ UNCHANGED <<ac, want>> /\ pc' \in {"dequeue", "rows"}
    BY <1>8 DEF dequeueNeedDataCallback
  <2>2. cdata' = cdata \/ cdata' = Resumed(cdata, retcode) BY <1>8, CallbackRuns
  <2>3. cdata'.auto_commit_needed = cdata.auto_commit_needed
    BY <2>2, <1>a DEF Resumed, OperationKnown, Operations
  <2> QED BY <2>1, <2>3, <1>a DEF Autocommit
<1>9. CASE PGAPI_Cancel BY <1>9, <1>a DEF PGAPI_Cancel, BulkPrudent, Autocommit
<1>10. CASE UNCHANGED bulkVars BY <1>10, <1>a DEF bulkVars, Autocommit
<1> QED BY <1>1, <1>2, <1>3, <1>4, <1>5, <1>6, <1>7, <1>8, <1>9, <1>10 DEF BulkNext, Outcomes

\* All conjuncts together: BulkInv is inductive.
LEMMA StepIInv == BulkPrudent /\ BulkInv /\ [BulkNext]_bulkVars => BulkInv'
  BY StepFlags, StepRunning, StepExecuted, StepQueue, StepCounted, StepDelegates, StepAutocommit DEF
    BulkInv, Types

--------------------
(* The theorems.                                                           *)

\* SQLSetPos and SQLBulkOperations execute each row once and in order up to the
\* first error, report their number, and run no callback of another operation:
\* for every rowset and every choice of rows with data at execution.
THEOREM EachRowOnce == ASSUME BulkPrudent PROVE BulkSpec => []RowsOnce
<1>1. BulkInv => RowsOnce
  <2> SUFFICES ASSUME BulkInv PROVE RowsOnce OBVIOUS
  <2>1. \A i \in DOMAIN callbacks : callbacks[i].data.op = cdata.op
    BY DEF BulkInv, Types, Flags, Queue, RowWaits, RowRan, Enqueued
  <2>2. DOMAIN done = 1..Len(done) BY DEF BulkInv, Types, Executed
  <2> QED BY <2>1, <2>2 DEF RowsOnce, BulkInv, DoneInOrder, Counted
<1>2. BulkInv /\ [BulkNext]_bulkVars => BulkInv' BY StepIInv
<1> QED BY <1>1, <1>2, InitIInv, PTL DEF BulkSpec

\* After every operation, whichever row failed or waited for data, autocommit is
\* what the application has set and no delegate statement is left.
THEOREM AutocommitRestored == ASSUME BulkPrudent PROVE BulkSpec => []AutocommitBack
<1>1. BulkInv => AutocommitBack BY DEF BulkInv, Autocommit, Delegates, AutocommitBack
<1>2. BulkInv /\ [BulkNext]_bulkVars => BulkInv' BY StepIInv
<1> QED BY <1>1, <1>2, InitIInv, PTL DEF BulkSpec
=============================================================================
