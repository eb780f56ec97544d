--------------------------- MODULE Caches_proofs ---------------------------
(* Proofs about the two caches of the driver that connections or statements       *)
(* share.                                                                         *)
(*                                                                                *)
(* ColInfo, for any tables, statements and FROM lists and any size of the cache:  *)
(* the reference counts are the numbers of TABLE_INFOs that point to an entry,    *)
(* and so nothing in use is freed or filled anew and nothing is lost.             *)
(*                                                                                *)
(* Autobalance, for every set of threads and nodes and every DSN: first the types *)
(* and the nodes of the tables, then the lock discipline (the double-checked      *)
(* initialisation, the read-write locks of the two tables) and what it gives to a *)
(* thread that walks a table.                                                     *)
EXTENDS Autobalance, ColInfo, FiniteSetTheorems, WellFoundedInduction, TLAPS

--------------------
(* The cache of table definitions.                                         *)

PCs0 == {"idle", "look", "ask", "store", "missing", "found"}
Infos == [live : BOOLEAN, table : Tables \cup {None}, ver : Versions, refcnt : Nat, acc_time : 0 .. MaxTime]
TableInfos == [table : Tables, known : BOOLEAN, coli : Structs \cup {0}, colatt : BOOLEAN]
Statements ==
  [pc : PCs0, query : Queries \cup {<< >>}, parsed : BOOLEAN, k : Nat, colatt : BOOLEAN, byoid : BOOLEAN, got : Versions]
TISeqs == {q \in Seq(TableInfos) : Len(q) <= MaxTables}

InfoTypes ==
  /\ srv \in [Tables -> Versions] /\ changes \in 0 .. MaxChanges
  /\ ent \in [Structs -> Infos] /\ arr \in Seq(Structs)
  /\ allocated \in Nat /\ Len(arr) <= allocated
  /\ ti \in [Stmts -> TISeqs] /\ stm \in [Stmts -> Statements]
  /\ \A s \in Stmts : IF stm[s].pc = "idle" THEN stm[s].k = 0 ELSE stm[s].k \in DOMAIN ti[s]


\* What the TABLE_INFOs T of the statements say of entry e.
RefsOf(T, e) == {r \in Stmts \X (1 .. MaxTables) : r[2] \in DOMAIN T[r[1]] /\ T[r[1]][r[2]].coli = e}

\* The reference counts are right.
Counted(E, T) == \A e \in Structs : E[e].refcnt = Cardinality(RefsOf(T, e))
Owned(E, T) ==
  \A s \in Stmts : \A i \in DOMAIN T[s] :
    T[s][i].coli # 0 => E[T[s][i].coli].live /\ E[T[s][i].coli].table = T[s][i].table

\* What is in the cache, and what is out of it.
Inside(E, A) == \A e \in ToSet(A) : E[e].live
Outside(E, T, A) ==
  \A e \in Structs : e \notin ToSet(A) => E[e].acc_time = 0 /\ (E[e].live => RefsOf(T, e) # {})
UpToDate(E, A, V) == \A e \in ToSet(A) : E[e].table # None => E[e].ver = V[E[e].table]


\* A statement that looks its tables up.
Asks(s) == stm[s].pc \in {"ask", "store"}
LookInv(s) ==
  /\ stm[s].pc \in {"look", "found"} => Wti(s).coli \in ToSet(arr) \cup {0}
  /\ stm[s].pc = "found" => Wti(s).coli # 0
  /\ Asks(s) => Wti(s).coli = 0
  /\ stm[s].pc = "store" => stm[s].got = srv[Wti(s).table]
  /\ stm[s].pc # "idle" /\ ~stm[s].colatt => \A i \in DOMAIN ti[s] : i > stm[s].k => ti[s][i].coli = 0

\* One that asks by oid is the only one to ask for its table, which the cache has not.
ByOid(s) ==
  Asks(s) /\ stm[s].byoid =>
    /\ \A e \in ToSet(arr) : ent[e].table # Wti(s).table
    /\ \A o \in Stmts \ {s} : Asks(o) => Wti(o).table # Wti(s).table

CacheInv ==
  /\ InfoTypes
  /\ Counted(ent, ti) /\ Owned(ent, ti) /\ Inside(ent, arr) /\ Outside(ent, ti, arr) /\ UpToDate(ent, arr, srv)
  /\ \A s \in Stmts : LookInv(s)
  /\ \A s \in Stmts : ByOid(s)


\* The TABLE_INFOs of a statement.
LEMMA InfosOf ==
  ASSUME NEW T \in [Stmts -> TISeqs], NEW s \in Stmts
  PROVE  /\ T[s] \in Seq(TableInfos) /\ Len(T[s]) \in Nat /\ Len(T[s]) <= MaxTables
         /\ DOMAIN T[s] = 1 .. Len(T[s]) /\ DOMAIN T[s] \subseteq 1 .. MaxTables
         /\ \A i \in DOMAIN T[s] : T[s][i] \in TableInfos
<1>1. T[s] \in Seq(TableInfos) /\ Len(T[s]) <= MaxTables BY DEF TISeqs
<1>2. MaxTables \in Nat BY SizeAssumption
<1> QED BY <1>1, <1>2

\* Its TABLE_INFO i.
LEMMA ColiOf ==
  ASSUME NEW T \in [Stmts -> TISeqs], NEW s \in Stmts, NEW i \in DOMAIN T[s]
  PROVE  /\ T[s][i].coli \in Structs \cup {0} /\ T[s][i].table \in Tables /\ i \in Nat
         /\ T[s][i].known \in BOOLEAN /\ T[s][i].colatt \in BOOLEAN
<1>1. PICK w \in TableInfos : w = T[s][i] BY InfosOf
<1>2. w.coli \in Structs \cup {0} /\ w.table \in Tables /\ w.known \in BOOLEAN /\ w.colatt \in BOOLEAN
  BY Zenon DEF TableInfos
<1>3. i \in Nat BY InfosOf
<1> QED BY <1>1, <1>2, <1>3, Zenon

\* There are finitely many references.
LEMMA RefsFinite ==
  ASSUME NEW T, NEW e
  PROVE  /\ IsFiniteSet(RefsOf(T, e)) /\ Cardinality(RefsOf(T, e)) \in Nat
         /\ Cardinality(RefsOf(T, e)) = 0 <=> RefsOf(T, e) = {}
         /\ Cardinality(RefsOf(T, e)) <= MaxTables * Cardinality(Stmts)
<1>1. IsFiniteSet(1 .. MaxTables) /\ Cardinality(1 .. MaxTables) = MaxTables
  <2>1. MaxTables \in Nat BY SizeAssumption
  <2>2. /\ IsFiniteSet(1 .. MaxTables)
        /\ Cardinality(1 .. MaxTables) = IF 1 > MaxTables THEN 0 ELSE MaxTables - 1 + 1
    BY <2>1, FS_Interval
  <2> QED BY <2>1, <2>2
<1>2. IsFiniteSet(Stmts) /\ Cardinality(Stmts) \in Nat BY NamesAssumption, FS_CardinalityType
<1>3. /\ IsFiniteSet(Stmts \X (1 .. MaxTables))
      /\ Cardinality(Stmts \X (1 .. MaxTables)) = Cardinality(Stmts) * Cardinality(1 .. MaxTables)
  BY <1>1, <1>2, FS_Product
<1>4. RefsOf(T, e) \in SUBSET (Stmts \X (1 .. MaxTables)) BY DEF RefsOf
<1>5. IsFiniteSet(RefsOf(T, e)) /\ Cardinality(RefsOf(T, e)) <= Cardinality(Stmts \X (1 .. MaxTables))
  BY <1>3, <1>4, FS_Subset
<1>6. /\ Cardinality(RefsOf(T, e)) \in Nat
      /\ Cardinality(RefsOf(T, e)) = 0 <=> RefsOf(T, e) = {}
  BY <1>5, FS_CardinalityType, FS_EmptySet
<1>7. Cardinality(Stmts) * MaxTables = MaxTables * Cardinality(Stmts) BY <1>2, SizeAssumption
<1> QED BY <1>1, <1>3, <1>5, <1>6, <1>7

\* A reference: statement s has one at i.
LEMMA RefIs ==
  ASSUME NEW T \in [Stmts -> TISeqs], NEW e, NEW s \in Stmts, NEW i
  PROVE  <<s, i>> \in RefsOf(T, e) <=> i \in DOMAIN T[s] /\ T[s][i].coli = e
BY InfosOf DEF RefsOf

\* A reference is a pair.
LEMMA RefPair ==
  ASSUME NEW T, NEW e, NEW r \in RefsOf(T, e)
  PROVE  r[1] \in Stmts /\ r = <<r[1], r[2]>>
BY DEF RefsOf

\* The references to an entry stay when its TABLE_INFOs do.
LEMMA RefsSame ==
  ASSUME NEW T \in [Stmts -> TISeqs], NEW U \in [Stmts -> TISeqs], NEW e,
         \A s \in Stmts : \A i : (i \in DOMAIN T[s] /\ T[s][i].coli = e) <=> (i \in DOMAIN U[s] /\ U[s][i].coli = e)
  PROVE  RefsOf(U, e) = RefsOf(T, e)
BY DEF RefsOf

\* One more reference.
LEMMA RefsAdd ==
  ASSUME NEW T \in [Stmts -> TISeqs], NEW U \in [Stmts -> TISeqs], NEW e, NEW s \in Stmts, NEW k,
         k \in DOMAIN T[s], T[s][k].coli # e, k \in DOMAIN U[s], U[s][k].coli = e,
         \A o \in Stmts : \A i : o # s \/ i # k =>
            ((i \in DOMAIN T[o] /\ T[o][i].coli = e) <=> (i \in DOMAIN U[o] /\ U[o][i].coli = e))
  PROVE  Cardinality(RefsOf(U, e)) = Cardinality(RefsOf(T, e)) + 1
<1>1. <<s, k>> \notin RefsOf(T, e) /\ <<s, k>> \in RefsOf(U, e) BY RefIs
<1>2. RefsOf(U, e) = RefsOf(T, e) \cup {<<s, k>>}
  <2>1. ASSUME NEW r \in RefsOf(U, e) PROVE r \in RefsOf(T, e) \cup {<<s, k>>} BY <2>1, RefIs, RefPair
  <2>2. ASSUME NEW r \in RefsOf(T, e) PROVE r \in RefsOf(U, e) BY <1>1, <2>2, RefIs, RefPair
  <2> QED BY <1>1, <2>1, <2>2
<1> QED BY <1>1, <1>2, RefsFinite, FS_AddElement

\* How many references the statements ss have.
Theirs(T, e, ss) == Cardinality({r \in RefsOf(T, e) : r[1] \in ss})

\* They go.
LEMMA RefsCut ==
  ASSUME NEW T \in [Stmts -> TISeqs], NEW U \in [Stmts -> TISeqs], NEW e, NEW ss \in SUBSET Stmts,
         \A s \in Stmts \ ss : U[s] = T[s],
         \A s \in ss : \A i \in DOMAIN U[s] : U[s][i].coli # e
  PROVE  /\ Theirs(T, e, ss) \in Nat
         /\ Cardinality(RefsOf(T, e)) - Theirs(T, e, ss) = Cardinality(RefsOf(U, e))
         /\ Theirs(T, e, ss) = 0 => RefsOf(U, e) = RefsOf(T, e)
<1> DEFINE C == {r \in RefsOf(T, e) : r[1] \in ss}
<1>0. PICK n : n = Cardinality(C) /\ n = Theirs(T, e, ss) BY DEF Theirs
<1>1. RefsOf(U, e) = RefsOf(T, e) \ C
  <2>1. ASSUME NEW r \in RefsOf(U, e) PROVE r \in RefsOf(T, e) \ C BY <2>1, RefIs, RefPair
  <2>2. ASSUME NEW r \in RefsOf(T, e) \ C PROVE r \in RefsOf(U, e) BY <2>2, RefIs, RefPair
  <2> QED BY <2>1, <2>2
<1>2. RefsOf(T, e) \cap C = C /\ C \in SUBSET RefsOf(T, e) OBVIOUS
<1>3. IsFiniteSet(C) /\ n \in Nat /\ (n = 0 <=> C = {})
  <2> HIDE DEF C
  <2>1. IsFiniteSet(C) BY <1>2, RefsFinite, FS_Subset
  <2>2. n = Cardinality(C) BY <1>0 DEF C
  <2> QED BY <2>1, <2>2, FS_CardinalityType, FS_EmptySet
<1>4. Cardinality(RefsOf(U, e)) = Cardinality(RefsOf(T, e)) - n
  <2>1. n = Cardinality(C) BY <1>0
  <2> HIDE DEF C
  <2>2. PICK R : R = RefsOf(T, e) OBVIOUS
  <2>3. IsFiniteSet(R) BY <2>2, RefsFinite
  <2>4. Cardinality(R \ C) = Cardinality(R) - Cardinality(R \cap C) BY <2>3, FS_Difference
  <2> QED BY <1>1, <1>2, <2>1, <2>2, <2>4
<1> QED BY <1>0, <1>1, <1>3, <1>4, RefsFinite

\* Fields of the structs.
LEMMA EmptyInfo ==
  /\ NoEntry \in Infos /\ ~NoEntry.live /\ NoEntry.table = None /\ NoEntry.refcnt = 0 /\ NoEntry.acc_time = 0
  /\ Freed \in Infos /\ Freed.live /\ Freed.table = None /\ Freed.refcnt = 0 /\ Freed.acc_time = 0
<1>1. 0 \in Versions /\ 0 \in 0 .. MaxTime BY SizeAssumption DEF Versions
<1>2. /\ NoEntry \in Infos /\ ~NoEntry.live /\ NoEntry.table = None /\ NoEntry.refcnt = 0
      /\ NoEntry.acc_time = 0
  BY <1>1 DEF NoEntry, Infos
<1>3. PICK c \in Infos : c = NoEntry BY <1>2
<1>4. PICK d : d = [c EXCEPT !.live = TRUE] OBVIOUS
<1>5. d \in Infos /\ d.live /\ d.table = c.table /\ d.refcnt = c.refcnt /\ d.acc_time = c.acc_time
  BY <1>4, Zenon DEF Infos
<1> QED BY <1>2, <1>3, <1>4, <1>5 DEF Freed
SameInfo(c, d) == (d.live <=> c.live) /\ d.table = c.table /\ d.ver = c.ver

\* Another reference count.
LEMMA InfoCount ==
  ASSUME NEW c \in Infos, NEW n \in Nat, NEW d, d = [c EXCEPT !.refcnt = n]
  PROVE  d \in Infos /\ SameInfo(c, d) /\ d.refcnt = n /\ d.acc_time = c.acc_time
BY Zenon DEF Infos, SameInfo

\* Another time of use.
LEMMA InfoTime ==
  ASSUME NEW c \in Infos, NEW n \in 0 .. MaxTime, NEW d, d = [c EXCEPT !.acc_time = n]
  PROVE  d \in Infos /\ SameInfo(c, d) /\ d.acc_time = n /\ d.refcnt = c.refcnt
BY Zenon DEF Infos, SameInfo

\* The fields of an entry.
LEMMA InfoFields ==
  ASSUME NEW c \in Infos
  PROVE  c.live \in BOOLEAN /\ c.table \in Tables \cup {None} /\ c.ver \in Versions /\ c.refcnt \in Nat
         /\ c.acc_time \in 0 .. MaxTime
BY Zenon DEF Infos

\* The entry getColumnsInfo fills.
LEMMA NewInfo ==
  ASSUME NEW t \in Tables, NEW v \in Versions, NEW d,
         d = [live |-> TRUE, table |-> t, ver |-> v, refcnt |-> 1, acc_time |-> 0]
  PROVE  d \in Infos /\ d.live /\ d.table = t /\ d.ver = v /\ d.refcnt = 1 /\ d.acc_time = 0
<1>1. 1 \in Nat /\ 0 \in 0 .. MaxTime BY SizeAssumption
<1> QED BY <1>1, Zenon DEF Infos

\* Fields of a TABLE_INFO.
LEMMA InfoColAtt ==
  ASSUME NEW w \in TableInfos, NEW x, x = [w EXCEPT !.colatt = TRUE]
  PROVE  x \in TableInfos /\ x.coli = w.coli /\ x.table = w.table
BY Zenon DEF TableInfos

\* A new TABLE_INFO points nowhere.
LEMMA InfoNew ==
  ASSUME NEW t \in Tables
  PROVE  /\ TI_Constructor(t) \in TableInfos /\ TI_Constructor(t).coli = 0 /\ TI_Constructor(t).table = t
         /\ [TI_Constructor(t) EXCEPT !.known = TRUE] \in TableInfos
         /\ [TI_Constructor(t) EXCEPT !.known = TRUE].coli = 0
<1>1. /\ TI_Constructor(t) \in TableInfos /\ TI_Constructor(t).coli = 0 /\ TI_Constructor(t).table = t
  BY Zenon DEF TI_Constructor, TableInfos
<1>2. PICK c \in TableInfos : c = TI_Constructor(t) BY <1>1
<1>3. /\ [c EXCEPT !.known = TRUE] \in TableInfos
      /\ [c EXCEPT !.known = TRUE].coli = c.coli
  BY Zenon DEF TableInfos
<1> QED BY <1>1, <1>2, <1>3

\* Fields of a statement.
LEMMA StmFields ==
  ASSUME NEW r \in Statements
  PROVE  /\ r.pc \in PCs0 /\ r.query \in Queries \cup {<< >>} /\ r.k \in Nat /\ r.got \in Versions
         /\ r.byoid \in BOOLEAN /\ r.colatt \in BOOLEAN
BY Zenon DEF Statements

\* A statement goes to another step.
LEMMA StmPc ==
  ASSUME NEW r \in Statements, NEW p \in PCs0, NEW x, x = [r EXCEPT !.pc = p]
  PROVE  x \in Statements /\ x.pc = p /\ x.k = r.k /\ (x.colatt <=> r.colatt) /\ (x.byoid <=> r.byoid) /\ x.got = r.got
BY Zenon DEF Statements

\* A statement after SC_initialize_cols_info.
LEMMA StmNew == Released0 \in Statements /\ Released0.pc = "idle" /\ Released0.k = 0
<1>1. 0 \in Nat /\ 0 \in Versions BY SizeAssumption DEF Versions
<1> QED BY <1>1, Zenon DEF Statements, PCs0, Released0

\* A statement that ends its lookup.
LEMMA StmRest ==
  ASSUME NEW r \in Statements
  PROVE  AtRest(r) \in Statements /\ AtRest(r).pc = "idle" /\ AtRest(r).k = 0
BY Zenon DEF Statements, PCs0, AtRest

\* It executes a query.
LEMMA StmQuery ==
  ASSUME NEW r \in Statements, NEW q \in Queries, NEW x, x = [r EXCEPT !.query = q]
  PROVE  x \in Statements /\ x.pc = r.pc /\ x.k = r.k
BY Zenon DEF Statements
Good(E, T, A, V) == Counted(E, T) /\ Owned(E, T) /\ Inside(E, A) /\ Outside(E, T, A) /\ UpToDate(E, A, V)

\* What the invariant says of one entry.
LEMMA GoodIs ==
  ASSUME NEW E \in [Structs -> Infos], NEW T \in [Stmts -> TISeqs], NEW A, NEW V, Good(E, T, A, V), NEW e \in Structs
  PROVE  /\ E[e] \in Infos /\ E[e].refcnt = Cardinality(RefsOf(T, e)) /\ E[e].refcnt \in Nat
         /\ E[e].refcnt = 0 <=> RefsOf(T, e) = {}
         /\ \A s \in Stmts : \A i \in DOMAIN T[s] : T[s][i].coli = e =>
               E[e].live /\ E[e].table = T[s][i].table /\ E[e].refcnt > 0
<1>1. E[e] \in Infos /\ E[e].refcnt = Cardinality(RefsOf(T, e)) BY DEF Good, Counted
<1>2. /\ Cardinality(RefsOf(T, e)) \in Nat
      /\ Cardinality(RefsOf(T, e)) = 0 <=> RefsOf(T, e) = {}
  BY RefsFinite
<1>3. ASSUME NEW s \in Stmts, NEW i \in DOMAIN T[s], T[s][i].coli = e
      PROVE  E[e].live /\ E[e].table = T[s][i].table /\ RefsOf(T, e) # {}
  <2>1. <<s, i>> \in RefsOf(T, e) BY <1>3, RefIs
  <2>2. e # 0 BY DEF Structs
  <2> QED BY <1>3, <2>1, <2>2 DEF Good, Owned
<1> QED BY <1>1, <1>2, <1>3

\* The entries when the TABLE_INFOs of the statements ss are destroyed.
Without(E, T, A, ss) ==
  [e \in Structs |->
     LET n == Cardinality({r \in RefsOf(T, e) : r[1] \in ss})
     IN IF n = 0 THEN E[e]
        ELSE IF e \in ToSet(A) /\ E[e].refcnt - n <= 0 /\ E[e].acc_time = 0 THEN Freed
        ELSE IF E[e].refcnt - n <= 0 /\ E[e].acc_time = 0 THEN NoEntry ELSE [E[e] EXCEPT !.refcnt = @ - n]]

\* One of them afterwards: it lost references, or it is freed.
LEMMA WithoutIs ==
  ASSUME NEW E \in [Structs -> Infos], NEW T \in [Stmts -> TISeqs], NEW U \in [Stmts -> TISeqs],
         NEW A, NEW V, Good(E, T, A, V), NEW ss \in SUBSET Stmts,
         \A s \in Stmts \ ss : U[s] = T[s],
         \A s \in ss : \A i \in DOMAIN U[s] : U[s][i].coli = 0,
         NEW F, F = Without(E, T, A, ss), NEW e \in Structs
  PROVE  /\ F[e] \in Infos /\ F[e].refcnt = Cardinality(RefsOf(U, e))
         /\ \/ SameInfo(E[e], F[e]) /\ F[e].acc_time = E[e].acc_time
               /\ (E[e].acc_time = 0 => RefsOf(U, e) # {} \/ RefsOf(U, e) = RefsOf(T, e))
            \/ RefsOf(U, e) = {} /\ F[e] = (IF e \in ToSet(A) THEN Freed ELSE NoEntry)
<1>1. PICK n : n = Theirs(T, e, ss) OBVIOUS
<1>2. PICK c : c = E[e] OBVIOUS
<1>3. F[e] = IF n = 0 THEN c
             ELSE IF e \in ToSet(A) /\ c.refcnt - n <= 0 /\ c.acc_time = 0 THEN Freed
             ELSE IF c.refcnt - n <= 0 /\ c.acc_time = 0 THEN NoEntry ELSE [c EXCEPT !.refcnt = @ - n]
  BY <1>1, <1>2 DEF Without, Theirs
<1>4. e # 0 BY DEF Structs
<1>5. /\ n \in Nat /\ Cardinality(RefsOf(T, e)) - n = Cardinality(RefsOf(U, e))
      /\ n = 0 => RefsOf(U, e) = RefsOf(T, e)
  <2>1. \A s \in ss : \A i \in DOMAIN U[s] : U[s][i].coli # e BY <1>4
  <2> QED BY <1>1, <2>1, RefsCut
<1>6. /\ Cardinality(RefsOf(U, e)) \in Nat
      /\ Cardinality(RefsOf(U, e)) = 0 <=> RefsOf(U, e) = {}
  BY RefsFinite
<1>7. c \in Infos /\ c.refcnt = Cardinality(RefsOf(T, e)) /\ c.refcnt \in Nat BY <1>2, GoodIs
<1>8. CASE n = 0
  <2>1. F[e] = c /\ c.refcnt = Cardinality(RefsOf(U, e)) BY <1>3, <1>5, <1>6, <1>7, <1>8
  <2> QED BY <1>2, <1>5, <1>7, <1>8, <2>1 DEF SameInfo
<1>9. CASE n # 0 /\ c.refcnt - n <= 0 /\ c.acc_time = 0
  <2>1. RefsOf(U, e) = {} /\ Cardinality(RefsOf(U, e)) = 0 BY <1>5, <1>6, <1>7, <1>9
  <2>2. F[e] = (IF e \in ToSet(A) THEN Freed ELSE NoEntry) BY <1>3, <1>9
  <2> QED BY <2>1, <2>2, EmptyInfo
<1>10. CASE n # 0 /\ ~(c.refcnt - n <= 0 /\ c.acc_time = 0)
  <2>1. PICK m : m = c.refcnt - n OBVIOUS
  <2>2. m \in Nat /\ m = Cardinality(RefsOf(U, e)) BY <1>5, <1>6, <1>7, <2>1
  <2>3. F[e] = [c EXCEPT !.refcnt = m] BY <1>3, <1>10, <2>1
  <2>4. F[e] \in Infos /\ SameInfo(c, F[e]) /\ F[e].refcnt = m /\ F[e].acc_time = c.acc_time
    BY <1>7, <2>2, <2>3, InfoCount
  <2>5. c.acc_time = 0 => RefsOf(U, e) # {} BY <1>6, <1>10, <2>1, <2>2
  <2> QED BY <1>2, <2>2, <2>4, <2>5
<1> QED BY <1>8, <1>9, <1>10

\* Giving references back keeps the cache right.
LEMMA WithoutGood ==
  ASSUME NEW E \in [Structs -> Infos], NEW T \in [Stmts -> TISeqs], NEW U \in [Stmts -> TISeqs],
         NEW A \in Seq(Structs), NEW V, Good(E, T, A, V), NEW ss \in SUBSET Stmts,
         \A s \in Stmts \ ss : U[s] = T[s],
         \A s \in ss : \A i \in DOMAIN U[s] : U[s][i].coli = 0,
         NEW F, F = Without(E, T, A, ss)
  PROVE  /\ F \in [Structs -> Infos] /\ Good(F, U, A, V)
         /\ \A e \in Structs : F[e].table \in {E[e].table, None}
<1>1. \A e \in Structs :
        /\ F[e] \in Infos /\ F[e].refcnt = Cardinality(RefsOf(U, e))
        /\ \/ SameInfo(E[e], F[e]) /\ F[e].acc_time = E[e].acc_time
              /\ (E[e].acc_time = 0 => RefsOf(U, e) # {} \/ RefsOf(U, e) = RefsOf(T, e))
           \/ RefsOf(U, e) = {} /\ F[e] = (IF e \in ToSet(A) THEN Freed ELSE NoEntry)
  BY WithoutIs
<1>2. F \in [Structs -> Infos] BY <1>1 DEF Without
<1>3. \A e \in Structs : F[e].table \in {E[e].table, None} BY <1>1, EmptyInfo DEF SameInfo
<1>4. ToSet(A) \subseteq Structs BY DEF ToSet
<1>5. Counted(F, U) BY <1>1 DEF Counted
<1>6. Owned(F, U)
  <2> SUFFICES ASSUME NEW s \in Stmts, NEW i \in DOMAIN U[s], U[s][i].coli # 0
               PROVE  F[U[s][i].coli].live /\ F[U[s][i].coli].table = U[s][i].table
    BY DEF Owned
  <2>1. s \notin ss /\ U[s] = T[s] OBVIOUS
  <2>2. PICK e : e = U[s][i].coli OBVIOUS
  <2>3. e \in Structs BY <2>2, InfosOf, Zenon DEF TableInfos
  <2>4. RefsOf(U, e) # {} BY <2>2, RefIs
  <2>5. E[e].live /\ E[e].table = T[s][i].table BY <2>1, <2>2, <2>3, GoodIs
  <2> QED BY <1>1, <2>1, <2>2, <2>3, <2>4, <2>5 DEF SameInfo
<1>7. Inside(F, A) BY <1>1, <1>4, EmptyInfo DEF Inside, Good, SameInfo
<1>8. Outside(F, U, A) BY <1>1, EmptyInfo DEF Outside, Good, SameInfo
<1>9. UpToDate(F, A, V) BY <1>1, <1>4, EmptyInfo DEF UpToDate, Good, SameInfo
<1> QED BY <1>2, <1>3, <1>5, <1>6, <1>7, <1>8, <1>9 DEF Good

\* A step that neither takes nor gives back a reference.
SamePoints(T, U) ==
  /\ \A s \in Stmts : \A i \in DOMAIN U[s] : U[s][i].coli # 0 =>
        i \in DOMAIN T[s] /\ T[s][i].coli = U[s][i].coli /\ T[s][i].table = U[s][i].table
  /\ \A s \in Stmts : \A i \in DOMAIN T[s] : T[s][i].coli # 0 =>
        i \in DOMAIN U[s] /\ U[s][i].coli = T[s][i].coli

\* Such a step keeps the cache right.
LEMMA StillGood ==
  ASSUME NEW E \in [Structs -> Infos], NEW T \in [Stmts -> TISeqs], NEW U \in [Stmts -> TISeqs],
         NEW A, NEW V, Good(E, T, A, V), SamePoints(T, U)
  PROVE  Good(E, U, A, V)
<1>1. ASSUME NEW e \in Structs PROVE RefsOf(U, e) = RefsOf(T, e)
  <2>1. e # 0 BY DEF Structs
  <2>2. \A s \in Stmts : \A i : (i \in DOMAIN T[s] /\ T[s][i].coli = e) <=> (i \in DOMAIN U[s] /\ U[s][i].coli = e)
    BY <2>1 DEF SamePoints
  <2> QED BY <2>2, RefsSame
<1>2. Owned(E, U) BY DEF Owned, Good, SamePoints
<1> QED BY <1>1, <1>2 DEF Good, Counted, Outside

\* TABLE_INFO k of statement s gets entry a.
Pointed(T, U, s, k, x) ==
  /\ U \in [Stmts -> TISeqs] /\ k \in DOMAIN U[s] /\ U[s][k] = x
  /\ \A o \in Stmts : DOMAIN U[o] = DOMAIN T[o]
  /\ \A o \in Stmts : \A i \in DOMAIN T[o] : o # s \/ i # k => U[o][i] = T[o][i]

\* The TABLE_INFOs afterwards.
LEMMA PointsTo ==
  ASSUME NEW T \in [Stmts -> TISeqs], NEW s \in Stmts, NEW k \in DOMAIN T[s], NEW x \in TableInfos,
         NEW U, U = [T EXCEPT ![s] = [T[s] EXCEPT ![k] = x]]
  PROVE  Pointed(T, U, s, k, x) /\ \A o \in Stmts \ {s} : U[o] = T[o]
<1>1. PICK q : q = [T[s] EXCEPT ![k] = x] OBVIOUS
<1>2. /\ T[s] \in Seq(TableInfos) /\ Len(T[s]) \in Nat /\ Len(T[s]) <= MaxTables
      /\ DOMAIN T[s] = 1 .. Len(T[s])
  BY InfosOf
<1>3. q \in Seq(TableInfos) /\ Len(q) = Len(T[s]) /\ DOMAIN q = DOMAIN T[s] /\ q[k] = x BY <1>1, <1>2
<1>4. \A i \in DOMAIN T[s] : i # k => q[i] = T[s][i] BY <1>1, <1>2
<1>5. q \in TISeqs BY <1>2, <1>3 DEF TISeqs
<1>6. U = [T EXCEPT ![s] = q] BY <1>1
<1> QED BY <1>3, <1>4, <1>5, <1>6 DEF Pointed

\* It gets entry a, which becomes d.
Gets(E, F, T, V, s, k, a, x, d) ==
  /\ s \in Stmts /\ k \in DOMAIN T[s] /\ a \in Structs /\ x.coli = a /\ x.table = T[s][k].table /\ T[s][k].coli = 0
  /\ F \in [Structs -> Infos] /\ F[a] = d /\ \A e \in Structs : e # a => F[e] = E[e]
  /\ d.live /\ d.table = x.table /\ d.refcnt = E[a].refcnt + 1 /\ d.ver = V[d.table]
  /\ E[a].refcnt # 0 => E[a].table = d.table

\* Taking a reference keeps the cache right.
LEMMA PointsGood ==
  ASSUME NEW E \in [Structs -> Infos], NEW T \in [Stmts -> TISeqs], NEW A \in Seq(Structs), NEW B, NEW V, Good(E, T, A, V),
         NEW F, NEW U, NEW s, NEW k, NEW a, NEW x, NEW d, Gets(E, F, T, V, s, k, a, x, d), Pointed(T, U, s, k, x),
         ToSet(B) = ToSet(A) \cup {a}
  PROVE  Good(F, U, B, V)
<1>1. /\ U \in [Stmts -> TISeqs] /\ k \in DOMAIN U[s] /\ U[s][k] = x
      /\ \A o \in Stmts : DOMAIN U[o] = DOMAIN T[o]
      /\ \A o \in Stmts : \A i \in DOMAIN T[o] : o # s \/ i # k => U[o][i] = T[o][i]
  BY DEF Pointed
<1>2. /\ s \in Stmts /\ k \in DOMAIN T[s] /\ a \in Structs /\ x.coli = a /\ x.table = T[s][k].table /\ T[s][k].coli = 0
      /\ F \in [Structs -> Infos] /\ F[a] = d /\ \A e \in Structs : e # a => F[e] = E[e]
      /\ d.live /\ d.table = x.table /\ d.refcnt = E[a].refcnt + 1 /\ d.ver = V[d.table]
      /\ E[a].refcnt # 0 => E[a].table = d.table
  BY DEF Gets
<1> USE <1>1, <1>2
<1>3. ToSet(A) \subseteq Structs BY DEF ToSet
<1>4. a # 0 BY DEF Structs
<1>5. Cardinality(RefsOf(U, a)) = Cardinality(RefsOf(T, a)) + 1
  <2>1. \A o \in Stmts : \A i : o # s \/ i # k =>
            ((i \in DOMAIN T[o] /\ T[o][i].coli = a) <=> (i \in DOMAIN U[o] /\ U[o][i].coli = a))
    OBVIOUS
  <2>2. T[s][k].coli # a /\ k \in DOMAIN U[s] /\ U[s][k].coli = a BY <1>4
  <2> QED BY <2>1, <2>2, RefsAdd
<1>6. ASSUME NEW e \in Structs, e # a PROVE RefsOf(U, e) = RefsOf(T, e)
  <2>1. e # 0 BY DEF Structs
  <2>2. \A o \in Stmts : \A i : (i \in DOMAIN T[o] /\ T[o][i].coli = e) <=> (i \in DOMAIN U[o] /\ U[o][i].coli = e)
    BY <1>6, <2>1
  <2> QED BY <2>2, RefsSame
<1>7. Counted(F, U) BY <1>5, <1>6 DEF Good, Counted
<1>8. Owned(F, U)
  <2> SUFFICES ASSUME NEW o \in Stmts, NEW i \in DOMAIN U[o], U[o][i].coli # 0
               PROVE  F[U[o][i].coli].live /\ F[U[o][i].coli].table = U[o][i].table
    BY DEF Owned
  <2>1. CASE o = s /\ i = k BY <2>1
  <2>2. CASE ~(o = s /\ i = k)
    <3>1. i \in DOMAIN T[o] /\ U[o][i] = T[o][i] BY <2>2
    <3>2. PICK e : e = U[o][i].coli OBVIOUS
    <3>3. e \in Structs BY <3>2, ColiOf
    <3>4. E[e].live /\ E[e].table = T[o][i].table /\ E[e].refcnt > 0 BY <3>1, <3>2, <3>3, GoodIs
    <3>5. CASE e = a BY <3>1, <3>2, <3>4, <3>5
    <3>6. CASE e # a BY <3>1, <3>2, <3>3, <3>4, <3>6
    <3> QED BY <3>5, <3>6
  <2> QED BY <2>1, <2>2
<1>9. Inside(F, B)
  <2> SUFFICES ASSUME NEW e \in ToSet(A) \cup {a} PROVE F[e].live BY DEF Inside
  <2> QED BY <1>3 DEF Good, Inside
<1>10. Outside(F, U, B) BY <1>6 DEF Good, Outside
<1>11. UpToDate(F, B, V)
  <2> SUFFICES ASSUME NEW e \in ToSet(A) \cup {a}, F[e].table # None PROVE F[e].ver = V[F[e].table]
    BY DEF UpToDate
  <2> QED BY <1>3 DEF Good, UpToDate
<1> QED BY <1>7, <1>8, <1>9, <1>10, <1>11 DEF Good

\* An entry of the cache is used.
LEMMA UsedGood ==
  ASSUME NEW E \in [Structs -> Infos], NEW T \in [Stmts -> TISeqs], NEW A \in Seq(Structs), NEW V, Good(E, T, A, V),
         NEW a \in ToSet(A), NEW n \in 0 .. MaxTime, NEW F, F = [E EXCEPT ![a].acc_time = n]
  PROVE  F \in [Structs -> Infos] /\ Good(F, T, A, V)
<1>1. ToSet(A) \subseteq Structs BY DEF ToSet
<1>2. PICK d : d = [E[a] EXCEPT !.acc_time = n] OBVIOUS
<1>3. F = [E EXCEPT ![a] = d] BY <1>2
<1>4. d \in Infos /\ SameInfo(E[a], d) /\ d.refcnt = E[a].refcnt BY <1>1, <1>2, InfoTime
<1>5. F \in [Structs -> Infos] /\ F[a] = d /\ \A e \in Structs : e # a => F[e] = E[e] BY <1>1, <1>3, <1>4
<1>6. \A e \in Structs : SameInfo(E[e], F[e]) /\ F[e].refcnt = E[e].refcnt BY <1>4, <1>5 DEF SameInfo
<1>7. Counted(F, T) /\ Inside(F, A) /\ UpToDate(F, A, V)
  BY <1>1, <1>6 DEF Good, Counted, Inside, UpToDate, SameInfo
<1>8. Owned(F, T) BY <1>6, ColiOf DEF Good, Owned, SameInfo
<1>9. Outside(F, T, A) BY <1>5 DEF Good, Outside
<1> QED BY <1>5, <1>7, <1>8, <1>9 DEF Good

\* The cache is emptied.
LEMMA ClearGood ==
  ASSUME NEW E \in [Structs -> Infos], NEW T \in [Stmts -> TISeqs], NEW A, NEW V, NEW W, Good(E, T, A, V),
         NEW F,
         F = [e \in Structs |-> IF e \notin ToSet(A) THEN E[e]
                                ELSE IF E[e].refcnt = 0 THEN NoEntry ELSE [E[e] EXCEPT !.acc_time = 0]]
  PROVE  F \in [Structs -> Infos] /\ Good(F, T, << >>, W)
<1>1. ASSUME NEW e \in Structs
      PROVE  /\ F[e] \in Infos /\ F[e].refcnt = Cardinality(RefsOf(T, e)) /\ F[e].acc_time = 0
             /\ RefsOf(T, e) # {} => SameInfo(E[e], F[e])
             /\ F[e].live => RefsOf(T, e) # {}
  <2>1. PICK c : c = E[e] OBVIOUS
  <2>2. F[e] = IF e \notin ToSet(A) THEN c ELSE IF c.refcnt = 0 THEN NoEntry ELSE [c EXCEPT !.acc_time = 0]
    BY <2>1
  <2>3. c \in Infos /\ c.refcnt = Cardinality(RefsOf(T, e)) /\ (c.refcnt = 0 <=> RefsOf(T, e) = {})
    BY <2>1, GoodIs
  <2>4. CASE e \notin ToSet(A) BY <2>1, <2>2, <2>3, <2>4 DEF Good, Outside, SameInfo
  <2>5. CASE e \in ToSet(A) /\ c.refcnt = 0 BY <2>2, <2>3, <2>5, EmptyInfo
  <2>6. CASE e \in ToSet(A) /\ c.refcnt # 0
    <3>1. F[e] = [c EXCEPT !.acc_time = 0] /\ 0 \in 0 .. MaxTime BY <2>2, <2>6, SizeAssumption
    <3>2. F[e] \in Infos /\ SameInfo(c, F[e]) /\ F[e].acc_time = 0 /\ F[e].refcnt = c.refcnt
      BY <2>3, <3>1, InfoTime
    <3> QED BY <2>1, <2>3, <2>6, <3>2
  <2> QED BY <2>4, <2>5, <2>6
<1>2. F \in [Structs -> Infos] BY <1>1
<1>3. ToSet(<< >>) = {} BY DEF ToSet
<1>4. Counted(F, T) /\ Inside(F, << >>) /\ UpToDate(F, << >>, W) /\ Outside(F, T, << >>)
  BY <1>1, <1>3 DEF Counted, Inside, UpToDate, Outside
<1>5. Owned(F, T)
  <2> SUFFICES ASSUME NEW s \in Stmts, NEW i \in DOMAIN T[s], T[s][i].coli # 0
               PROVE  F[T[s][i].coli].live /\ F[T[s][i].coli].table = T[s][i].table
    BY DEF Owned
  <2>1. PICK e : e = T[s][i].coli OBVIOUS
  <2>2. e \in Structs BY <2>1, ColiOf
  <2>3. RefsOf(T, e) # {} BY <2>1, RefIs
  <2>4. E[e].live /\ E[e].table = T[s][i].table BY <2>1, <2>2, GoodIs
  <2> QED BY <1>1, <2>1, <2>2, <2>3, <2>4 DEF SameInfo
<1> QED BY <1>2, <1>4, <1>5 DEF Good

\* The statements and then the cache go.
LEMMA CleanGood ==
  ASSUME NEW E \in [Structs -> Infos], NEW T \in [Stmts -> TISeqs], NEW A \in Seq(Structs), NEW V, Good(E, T, A, V),
         NEW U, U = [s \in Stmts |-> << >>],
         NEW F, F = [e \in Structs |-> IF e \in ToSet(A) THEN NoEntry ELSE Without(E, T, A, Stmts)[e]]
  PROVE  /\ U \in [Stmts -> TISeqs] /\ F \in [Structs -> Infos] /\ Good(F, U, << >>, V)
<1>1. << >> \in TISeqs BY SizeAssumption DEF TISeqs
<1>2. U \in [Stmts -> TISeqs] /\ \A s \in Stmts : \A i \in DOMAIN U[s] : U[s][i].coli = 0 BY <1>1
<1>3. PICK G : G = Without(E, T, A, Stmts) OBVIOUS
<1>4. G \in [Structs -> Infos] /\ Good(G, U, A, V) BY <1>2, <1>3, WithoutGood
<1>5. F = [e \in Structs |-> IF e \in ToSet(A) THEN NoEntry ELSE G[e]] BY <1>3
<1>6. ASSUME NEW e \in Structs PROVE RefsOf(U, e) = {} /\ Cardinality(RefsOf(U, e)) = 0
  <2>1. RefsOf(U, e) = {} BY DEF RefsOf
  <2> QED BY <2>1, RefsFinite
<1>7. ASSUME NEW e \in Structs
      PROVE  F[e] \in Infos /\ F[e].refcnt = 0 /\ F[e].acc_time = 0 /\ ~F[e].live
  <2>1. CASE e \in ToSet(A) BY <1>5, <2>1, EmptyInfo
  <2>2. CASE e \notin ToSet(A) BY <1>4, <1>5, <1>6, <2>2 DEF Good, Outside, Counted
  <2> QED BY <2>1, <2>2
<1>8. ToSet(<< >>) = {} BY DEF ToSet
<1>9. F \in [Structs -> Infos] BY <1>5, <1>7
<1>10. /\ Counted(F, U) /\ Inside(F, << >>) /\ UpToDate(F, << >>, V) /\ Outside(F, U, << >>)
  BY <1>6, <1>7, <1>8 DEF Counted, Inside, UpToDate, Outside
<1>11. Owned(F, U) BY <1>2 DEF Owned
<1> QED BY <1>2, <1>9, <1>10, <1>11 DEF Good

\* The parts of the invariant.
LEMMA CacheInvIs ==
  ASSUME CacheInv
  PROVE  /\ srv \in [Tables -> Versions] /\ changes \in 0 .. MaxChanges
         /\ ent \in [Structs -> Infos] /\ arr \in Seq(Structs)
         /\ allocated \in Nat /\ Len(arr) <= allocated /\ Len(arr) \in Nat
         /\ ti \in [Stmts -> TISeqs] /\ stm \in [Stmts -> Statements]
         /\ Good(ent, ti, arr, srv) /\ ToSet(arr) \subseteq Structs
         /\ \A e \in ToSet(arr) : \E i \in DOMAIN arr : arr[i] = e
         /\ \A i \in DOMAIN arr : arr[i] \in ToSet(arr)
         /\ \A s \in Stmts : IF stm[s].pc = "idle" THEN stm[s].k = 0 ELSE stm[s].k \in DOMAIN ti[s]
<1>1. InfoTypes BY DEF CacheInv
<1>2. arr \in Seq(Structs) BY <1>1 DEF InfoTypes
<1>3. /\ ToSet(arr) \subseteq Structs /\ Len(arr) \in Nat
      /\ \A e \in ToSet(arr) : \E i \in DOMAIN arr : arr[i] = e
      /\ \A i \in DOMAIN arr : arr[i] \in ToSet(arr)
  BY <1>2 DEF ToSet
<1>4. Good(ent, ti, arr, srv) BY DEF CacheInv, Good
<1> QED BY <1>1, <1>3, <1>4 DEF InfoTypes

\* Where statement s is: its TABLE_INFO and what of it the invariant says.
LEMMA AtInfo ==
  ASSUME CacheInv, NEW s \in Stmts
  PROVE  /\ stm[s] \in Statements /\ LookInv(s) /\ ByOid(s)
         /\ stm[s].pc # "idle" => stm[s].k \in DOMAIN ti[s] /\ Wti(s) \in TableInfos
<1>1. stm[s] \in Statements /\ LookInv(s) /\ ByOid(s) BY CacheInvIs DEF CacheInv
<1>2. stm[s].pc # "idle" => stm[s].k \in DOMAIN ti[s] BY CacheInvIs
<1>3. stm[s].pc # "idle" => Wti(s) \in TableInfos BY <1>2, CacheInvIs, InfosOf DEF Wti
<1> QED BY <1>1, <1>2, <1>3

\* A statement that does nothing meanwhile.
LEMMA Bystander ==
  ASSUME NEW o \in Stmts, LookInv(o), ByOid(o), stm'[o] = stm[o], ti'[o] = ti[o],
         stm[o].pc \in {"look", "found"} => ToSet(arr) \subseteq ToSet(arr'),
         stm[o].pc = "store" => srv' = srv,
         \A e \in ToSet(arr') :
            \/ e \in ToSet(arr) /\ ent'[e].table = ent[e].table
            \/ Asks(o) /\ stm[o].byoid => ent'[e].table # Wti(o).table,
         \A p \in Stmts \ {o} : Asks(p)' =>
            \/ Asks(p) /\ Wti(p)'.table = Wti(p).table
            \/ Asks(o) /\ stm[o].byoid => Wti(p)'.table # Wti(o).table
  PROVE  LookInv(o)' /\ ByOid(o)'
<1>1. Wti(o)' = Wti(o) /\ (Asks(o)' <=> Asks(o)) BY DEF Wti, Asks
<1>2. LookInv(o)' BY <1>1 DEF LookInv
<1>3. ByOid(o)' BY <1>1 DEF ByOid
<1> QED BY <1>2, <1>3

\* A step of statement s.
StepOf(s) ==
  /\ srv' = srv /\ changes' = changes
  /\ \A o \in Stmts \ {s} : stm'[o] = stm[o] /\ ti'[o] = ti[o]
  /\ ent' \in [Structs -> Infos] /\ arr' \in Seq(Structs) /\ allocated' \in Nat /\ Len(arr') <= allocated'
  /\ ti' \in [Stmts -> TISeqs] /\ stm' \in [Stmts -> Statements]
  /\ IF stm'[s].pc = "idle" THEN stm'[s].k = 0 ELSE stm'[s].k \in DOMAIN ti'[s]
  /\ ToSet(arr) \subseteq ToSet(arr')
TablesOf(s) ==
  \A e \in ToSet(arr') :
    \/ e \in ToSet(arr) /\ ent'[e].table \in {ent[e].table, None}
    \/ Asks(s) /\ ent'[e].table = Wti(s).table
AsksOf(s) ==
  Asks(s)' => \/ Asks(s) /\ Wti(s)'.table = Wti(s).table
              \/ \A o \in Stmts \ {s} : Asks(o) /\ stm[o].byoid => Wti(s)'.table # Wti(o).table

\* A step of one statement keeps the invariant when it keeps what it touches.
LEMMA StepInv ==
  ASSUME CacheInv, NEW s \in Stmts, StepOf(s), TablesOf(s), AsksOf(s), LookInv(s)', ByOid(s)',
         Good(ent, ti, arr, srv)'
  PROVE  CacheInv'
<1>1. ASSUME NEW o \in Stmts \ {s} PROVE LookInv(o)' /\ ByOid(o)'
  <2>1. /\ LookInv(o) /\ ByOid(o) /\ stm'[o] = stm[o] /\ ti'[o] = ti[o] /\ srv' = srv
        /\ ToSet(arr) \subseteq ToSet(arr')
    BY AtInfo DEF StepOf
  <2>2. ASSUME NEW e \in ToSet(arr')
        PROVE  \/ e \in ToSet(arr) /\ ent'[e].table = ent[e].table
               \/ Asks(o) /\ stm[o].byoid => ent'[e].table # Wti(o).table
    <3>1. Asks(o) => Wti(o).table \in Tables BY AtInfo, CacheInvIs, ColiOf DEF Asks, Wti
    <3>2. Asks(o) => Wti(o).table # None BY <3>1, NamesAssumption
    <3>3. Asks(o) /\ stm[o].byoid /\ Asks(s) => Wti(s).table # Wti(o).table BY <2>1 DEF ByOid
    <3> QED BY <3>2, <3>3 DEF TablesOf
  <2>3. ASSUME NEW p \in Stmts \ {o}, Asks(p)'
        PROVE  \/ Asks(p) /\ Wti(p)'.table = Wti(p).table
               \/ Asks(o) /\ stm[o].byoid => Wti(p)'.table # Wti(o).table
    <3>1. CASE p = s BY <2>3, <3>1 DEF AsksOf
    <3>2. CASE p # s BY <2>3, <3>2 DEF StepOf, Asks, Wti
    <3> QED BY <3>1, <3>2
  <2> QED BY <2>1, <2>2, <2>3, Bystander
<1>2. InfoTypes'
  <2>1. \A o \in Stmts : IF stm'[o].pc = "idle" THEN stm'[o].k = 0 ELSE stm'[o].k \in DOMAIN ti'[o]
    BY CacheInvIs DEF StepOf
  <2> QED BY <2>1, CacheInvIs DEF InfoTypes, StepOf
<1> QED BY <1>1, <1>2 DEF CacheInv, Good

\* Every set of naturals has a least element.
LEMMA LeastElement ==
  ASSUME NEW T \in SUBSET Nat, T # {}
  PROVE  \E x \in T : \A y \in T : x <= y
<1> DEFINE F == {1..n : n \in T}
           R == StrictSubsetOrdering(Nat)
<1>1. F \subseteq FiniteSubsetsOf(Nat) /\ F # {}
  <2>1. \A n \in T : 1..n \in SUBSET Nat /\ IsFiniteSet(1..n) BY FS_Interval
  <2> QED BY <2>1 DEF FiniteSubsetsOf
<1>2. IsWellFoundedOn(R, FiniteSubsetsOf(Nat)) BY FS_StrictSubsetOrderingWellFounded
<1>3. PICK s \in F : \A t \in F : ~(<<t, s>> \in R)
  <2> HIDE DEF F, R
  <2> QED BY <1>1, <1>2, WFMin
<1>4. PICK x \in T : s = 1..x OBVIOUS
<1>5. ASSUME NEW y \in T, y < x
      PROVE  FALSE
  <2>1. 1..y \subseteq 1..x /\ 1..y # 1..x /\ 1..y \in SUBSET Nat /\ 1..x \in SUBSET Nat BY <1>5
  <2>2. <<1..y, s>> \in R BY <1>4, <2>1 DEF StrictSubsetOrdering
  <2> QED BY <1>3, <2>2
<1> QED BY <1>5

\* CHOOSE takes the least element of a set of naturals.
LEMMA LeastIs ==
  ASSUME NEW S \in SUBSET Nat, S # {}, NEW i, i = (CHOOSE j \in S : \A k \in S : j <= k)
  PROVE  i \in S
BY LeastElement

\* A table that Cached does not find is not in the cache.
LEMMA NoneCached ==
  ASSUME CacheInv, NEW t, Cached(t) = {}
  PROVE  \A e \in ToSet(arr) : ent[e].table # t
<1> SUFFICES ASSUME NEW e \in ToSet(arr), ent[e].table = t PROVE FALSE OBVIOUS
<1>1. DOMAIN arr = 1 .. Len(arr) /\ Len(arr) \in Nat BY CacheInvIs
<1>2. PICK S : S = {j \in DOMAIN arr : ent[arr[j]].table = t} OBVIOUS
<1>3. S \in SUBSET Nat /\ S # {} BY <1>1, <1>2, CacheInvIs
<1>4. PICK x \in S : \A y \in S : x <= y BY <1>3, LeastElement
<1>5. \A j \in 1 .. x - 1 : ent[arr[j]].table # t
  <2> SUFFICES ASSUME NEW j \in 1 .. x - 1, ent[arr[j]].table = t PROVE FALSE OBVIOUS
  <2>1. x \in Nat /\ x <= Len(arr) BY <1>1, <1>2
  <2>2. j \in DOMAIN arr /\ j < x BY <1>1, <2>1
  <2> QED BY <1>2, <1>4, <2>1, <2>2
<1>6. x \in Cached(t) BY <1>2, <1>5 DEF Cached
<1> QED BY <1>6

\* What a step gives to a TABLE_INFO is of now.
FreshStep ==
  \A s \in Stmts : \A i \in DOMAIN ti'[s] :
    LET e == ti'[s][i].coli IN
    e # 0 /\ (i \notin DOMAIN ti[s] \/ ti[s][i].coli # e) => ent'[e].ver = srv[ent'[e].table]

\* A step of a statement that leaves the entries alone.
LEMMA Quiet ==
  ASSUME CacheInv, NEW s \in Stmts, StepOf(s), ent' = ent, arr' = arr, SamePoints(ti, ti'),
         AsksOf(s), LookInv(s)', ByOid(s)'
  PROVE  CacheInv' /\ FreshStep
<1>1. Good(ent, ti, arr, srv)'
  <2>1. Good(ent, ti', arr, srv) BY CacheInvIs, StillGood DEF StepOf
  <2> QED BY <2>1 DEF StepOf
<1>2. TablesOf(s) BY DEF TablesOf
<1>3. FreshStep BY DEF FreshStep, SamePoints
<1> QED BY <1>1, <1>2, <1>3, StepInv

\* A statement at rest.
LEMMA AtEase ==
  ASSUME NEW s \in Stmts, stm'[s].pc = "idle"
  PROVE  LookInv(s)' /\ ByOid(s)' /\ AsksOf(s)
BY DEF LookInv, ByOid, AsksOf, Asks

\* A step of one statement changes its record.
LEMMA StmIs ==
  ASSUME CacheInv, NEW s \in Stmts, NEW x \in Statements, stm' = [stm EXCEPT ![s] = x]
  PROVE  stm' \in [Stmts -> Statements] /\ stm'[s] = x /\ \A o \in Stmts \ {s} : stm'[o] = stm[o]
BY CacheInvIs

\* It changes its TABLE_INFOs.
LEMMA TiIs ==
  ASSUME CacheInv, NEW s \in Stmts, NEW x \in TISeqs, ti' = [ti EXCEPT ![s] = x]
  PROVE  ti' \in [Stmts -> TISeqs] /\ ti'[s] = x /\ \A o \in Stmts \ {s} : ti'[o] = ti[o]
BY CacheInvIs

\* It leaves all TABLE_INFOs.
LEMMA TiUnchanged ==
  ASSUME CacheInv, ti' = ti
  PROVE  ti' \in [Stmts -> TISeqs] /\ SamePoints(ti, ti')
BY CacheInvIs DEF SamePoints

\* The catalog answers, or does not.
LEMMA AskColumnsInv ==
  ASSUME CacheInv, NEW s \in Stmts, AskColumns(s)
  PROVE  CacheInv' /\ FreshStep
<1>1. /\ stm[s].pc = "ask" /\ ent' = ent /\ arr' = arr /\ ti' = ti /\ srv' = srv
      /\ changes' = changes /\ allocated' = allocated
  BY DEF AskColumns
<1>2. Asks(s) /\ stm[s].k \in DOMAIN ti[s] /\ Wti(s).table \in Tables
  BY <1>1, AtInfo, CacheInvIs, ColiOf DEF Asks, Wti
<1>3. srv[Wti(s).table] \in Versions BY <1>2, CacheInvIs
<1>4. PICK x \in Statements :
        /\ stm' = [stm EXCEPT ![s] = x] /\ x.k = stm[s].k /\ (x.colatt <=> stm[s].colatt) /\ (x.byoid <=> stm[s].byoid)
        /\ (x.pc = "store" /\ x.got = srv[Wti(s).table]) \/ x.pc = "missing"
  <2>1. CASE stm' = [stm EXCEPT ![s] = [@ EXCEPT !.pc = "store", !.got = srv[Wti(s).table]]]
    <3>1. PICK g \in Versions : g = srv[Wti(s).table] BY <1>3
    <3>2. PICK r \in Statements : r = stm[s] BY AtInfo
    <3>3. PICK x : x = [r EXCEPT !.pc = "store", !.got = g] OBVIOUS
    <3>4. /\ x \in Statements /\ x.pc = "store" /\ x.k = r.k /\ (x.colatt <=> r.colatt)
          /\ (x.byoid <=> r.byoid) /\ x.got = g
      BY <3>3, Zenon DEF Statements, PCs0
    <3>5. stm' = [stm EXCEPT ![s] = x] BY <2>1, <3>1, <3>2, <3>3
    <3> QED BY <3>1, <3>2, <3>4, <3>5
  <2>2. CASE stm' = [stm EXCEPT ![s].pc = "missing"]
    <3>1. PICK x : x = [stm[s] EXCEPT !.pc = "missing"] OBVIOUS
    <3>2. /\ x \in Statements /\ x.pc = "missing" /\ x.k = stm[s].k /\ (x.colatt <=> stm[s].colatt)
          /\ (x.byoid <=> stm[s].byoid)
      BY <3>1, AtInfo, StmPc DEF PCs0
    <3>3. stm' = [stm EXCEPT ![s] = x] BY <2>2, <3>1
    <3> QED BY <3>2, <3>3
  <2> QED BY <2>1, <2>2 DEF AskColumns
<1>5. stm' \in [Stmts -> Statements] /\ stm'[s] = x /\ \A o \in Stmts \ {s} : stm'[o] = stm[o]
  BY <1>4, StmIs
<1>6. StepOf(s) BY <1>1, <1>2, <1>4, <1>5, CacheInvIs DEF StepOf
<1>7. Wti(s)' = Wti(s) BY <1>1, <1>4, <1>5 DEF Wti
<1>8. LookInv(s)' BY <1>1, <1>2, <1>4, <1>5, <1>7, AtInfo DEF LookInv, Asks
<1>9. AsksOf(s) BY <1>2, <1>7 DEF AsksOf
<1>10. ByOid(s)'
  <2>1. ASSUME NEW o \in Stmts \ {s} PROVE (Asks(o)' <=> Asks(o)) /\ Wti(o)' = Wti(o)
    BY <1>1, <1>5 DEF Asks, Wti
  <2> QED BY <1>1, <1>2, <1>4, <1>5, <1>7, <2>1, AtInfo DEF ByOid
<1> QED BY <1>1, <1>6, <1>8, <1>9, <1>10, Quiet, TiUnchanged

\* SQLColAttribute goes without a description.
LEMMA MissingInv ==
  ASSUME CacheInv, NEW s \in Stmts, ColumnsMissing(s), stm[s].colatt
  PROVE  CacheInv' /\ FreshStep
<1>1. /\ ent' = ent /\ arr' = arr /\ ti' = ti /\ srv' = srv /\ changes' = changes /\ allocated' = allocated
  BY DEF ColumnsMissing
<1>2. PICK x : x = AtRest(stm[s]) OBVIOUS
<1>3. x \in Statements /\ x.pc = "idle" /\ x.k = 0 /\ stm' = [stm EXCEPT ![s] = x]
  BY <1>2, AtInfo, StmRest DEF ColumnsMissing
<1>4. stm' \in [Stmts -> Statements] /\ stm'[s] = x /\ \A o \in Stmts \ {s} : stm'[o] = stm[o]
  BY <1>3, StmIs
<1>5. StepOf(s) BY <1>1, <1>3, <1>4, CacheInvIs DEF StepOf
<1> QED BY <1>1, <1>3, <1>4, <1>5, AtEase, Quiet, TiUnchanged

\* A prepared statement keeps its TABLE_INFOs.
LEMMA PreparedInv ==
  ASSUME CacheInv, Risky = {}, NEW s \in Stmts, NEW q \in Queries, NEW t, Execute(s, q, TRUE, t)
  PROVE  CacheInv' /\ FreshStep
<1>1. /\ arr' = arr /\ ti' = ti /\ srv' = srv /\ changes' = changes /\ allocated' = allocated
      /\ t = None /\ stm[s].pc = "idle"
  BY DEF Execute
<1>2. ent' = ent
  <2>1. ent' = [e \in Structs |-> ent[e]] BY <1>1 DEF Execute
  <2> QED BY <2>1, CacheInvIs
<1>3. PICK x : x = [stm[s] EXCEPT !.query = q] OBVIOUS
<1>4. stm' = [stm EXCEPT ![s] = x] BY <1>3 DEF Execute
<1>5. x \in Statements /\ x.pc = "idle" /\ x.k = 0 BY <1>1, <1>3, AtInfo, CacheInvIs, StmQuery
<1>6. stm' \in [Stmts -> Statements] /\ stm'[s] = x /\ \A o \in Stmts \ {s} : stm'[o] = stm[o]
  BY <1>4, <1>5, StmIs
<1>7. StepOf(s) BY <1>1, <1>2, <1>5, <1>6, CacheInvIs DEF StepOf
<1> QED BY <1>1, <1>2, <1>5, <1>6, <1>7, AtEase, Quiet, TiUnchanged

\* ColAttSet: an entry in use is up to date, and so the catalog is not asked again.
LEMMA ColAttSetInv ==
  ASSUME CacheInv, NEW s \in Stmts, ColAttSet(s)
  PROVE  CacheInv' /\ FreshStep
<1>1. /\ stm[s].pc = "found" /\ ent' = ent /\ arr' = arr /\ srv' = srv
      /\ changes' = changes /\ allocated' = allocated /\ stm[s].colatt
  BY DEF ColAttSet
<1>2. PICK k \in DOMAIN ti[s] : k = stm[s].k BY <1>1, AtInfo
<1>3. PICK w \in TableInfos : w = ti[s][k] /\ w = Wti(s) BY <1>1, <1>2, AtInfo DEF Wti
<1>4. PICK x : x = [w EXCEPT !.colatt = TRUE] OBVIOUS
<1>5. x \in TableInfos /\ x.coli = w.coli /\ x.table = w.table BY <1>4, InfoColAtt
<1>6. ti' = [ti EXCEPT ![s] = [ti[s] EXCEPT ![k] = x]] BY <1>2, <1>3, <1>4 DEF ColAttSet
<1>7. /\ ti' \in [Stmts -> TISeqs] /\ k \in DOMAIN ti'[s] /\ ti'[s][k] = x
      /\ \A o \in Stmts : DOMAIN ti'[o] = DOMAIN ti[o]
      /\ \A o \in Stmts : \A i \in DOMAIN ti[o] : o # s \/ i # k => ti'[o][i] = ti[o][i]
  BY <1>5, <1>6, CacheInvIs, PointsTo DEF Pointed
<1>8. stm' = stm
  <2>1. w.coli \in ToSet(arr) /\ w.coli # 0 BY <1>1, <1>3, AtInfo DEF LookInv
  <2>2. ent[w.coli].table = w.table
    <3>1. PICK e \in Structs : e = w.coli BY <2>1, CacheInvIs
    <3>2. \A p \in Stmts : \A i \in DOMAIN ti[p] : ti[p][i].coli = e => ent[e].table = ti[p][i].table
      BY CacheInvIs, GoodIs
    <3> QED BY <1>3, <3>1, <3>2
  <2>3. w.table # None BY <1>3, CacheInvIs, ColiOf, NamesAssumption
  <2>4. ent[w.coli].ver = srv[w.table] BY <2>1, <2>2, <2>3, CacheInvIs DEF Good, UpToDate
  <2> QED BY <1>3, <2>4 DEF ColAttSet
<1>9. \A o \in Stmts \ {s} : stm'[o] = stm[o] /\ ti'[o] = ti[o] BY <1>6, <1>8, CacheInvIs
<1>10. StepOf(s) BY <1>1, <1>2, <1>7, <1>8, <1>9, CacheInvIs DEF StepOf
<1>11. SamePoints(ti, ti') BY <1>3, <1>5, <1>7 DEF SamePoints
<1>12. Wti(s)' = x BY <1>2, <1>7, <1>8 DEF Wti
<1>13. AsksOf(s) /\ ByOid(s)' BY <1>1, <1>8 DEF AsksOf, ByOid, Asks
<1>14. LookInv(s)' BY <1>1, <1>3, <1>5, <1>8, <1>12, AtInfo DEF LookInv, Asks
<1> QED BY <1>1, <1>10, <1>11, <1>13, <1>14, Quiet

\* getCOLIfromTI with an entry.
LEMMA HasEntryInv ==
  ASSUME CacheInv, NEW s \in Stmts, getCOLIfromTI(s), Wti(s).coli # 0
  PROVE  CacheInv' /\ FreshStep
<1>1. /\ stm[s].pc = "look" /\ ent' = ent /\ ti' = ti /\ arr' = arr /\ srv' = srv
      /\ changes' = changes /\ allocated' = allocated /\ stm' = [stm EXCEPT ![s].pc = "found"]
  BY DEF getCOLIfromTI
<1>2. PICK r \in Statements : r = stm[s] BY AtInfo
<1>3. PICK x : x = [r EXCEPT !.pc = "found"] OBVIOUS
<1>4. x \in Statements /\ x.pc = "found" /\ x.k = r.k /\ (x.colatt <=> r.colatt) BY <1>3, StmPc DEF PCs0
<1>5. stm' = [stm EXCEPT ![s] = x] BY <1>1, <1>2, <1>3
<1>6. stm' \in [Stmts -> Statements] /\ stm'[s] = x /\ \A o \in Stmts \ {s} : stm'[o] = stm[o]
  BY <1>4, <1>5, StmIs
<1>7. stm[s].k \in DOMAIN ti[s] BY <1>1, AtInfo
<1>8. StepOf(s) BY <1>1, <1>2, <1>4, <1>6, <1>7, CacheInvIs DEF StepOf
<1>9. Wti(s)' = Wti(s) BY <1>1, <1>2, <1>4, <1>6 DEF Wti
<1>10. AsksOf(s) /\ ByOid(s)' BY <1>4, <1>6 DEF AsksOf, ByOid, Asks
<1>11. LookInv(s)' BY <1>1, <1>2, <1>4, <1>6, <1>9, AtInfo DEF LookInv, Asks
<1> QED BY <1>1, <1>8, <1>10, <1>11, Quiet, TiUnchanged

\* getCOLIfromTI asks the catalog; by oid it is the only one to ask for the table.
LEMMA MustAskInv ==
  ASSUME CacheInv, Risky = {}, NEW s \in Stmts, stm[s].pc = "look", Wti(s).coli = 0, Cached(Wti(s).table) = {},
         (Wti(s).known \/ \E o \in Asking(s) : stm[o].byoid) => Asking(s) = {} \/ "parallel_asks" \in Risky,
         stm' = [stm EXCEPT ![s] = [@ EXCEPT !.pc = "ask", !.byoid = Wti(s).known]],
         UNCHANGED <<srv, changes, ent, arr, allocated, ti>>
  PROVE  CacheInv' /\ FreshStep
<1>1. PICK w \in TableInfos : w = Wti(s) BY AtInfo
<1>2. PICK b \in BOOLEAN : b = w.known BY Zenon DEF TableInfos
<1>3. PICK r \in Statements : r = stm[s] BY AtInfo
<1>4. PICK x : x = [r EXCEPT !.pc = "ask", !.byoid = b] OBVIOUS
<1>5. x \in Statements /\ x.pc = "ask" /\ x.k = r.k /\ (x.colatt <=> r.colatt) /\ (x.byoid <=> b)
  BY <1>4, Zenon DEF Statements, PCs0
<1>6. stm' = [stm EXCEPT ![s] = x] BY <1>1, <1>2, <1>3, <1>4
<1>7. stm' \in [Stmts -> Statements] /\ stm'[s] = x /\ \A o \in Stmts \ {s} : stm'[o] = stm[o]
  BY <1>5, <1>6, StmIs
<1>8. stm[s].k \in DOMAIN ti[s] BY AtInfo
<1>9. StepOf(s) BY <1>3, <1>5, <1>7, <1>8, CacheInvIs DEF StepOf
<1>10. Wti(s)' = Wti(s) BY <1>3, <1>5, <1>7 DEF Wti
<1>11. ASSUME NEW o \in Stmts \ {s}
       PROVE  /\ (Asks(o)' <=> Asks(o)) /\ Wti(o)' = Wti(o)
              /\ Asks(o) /\ (stm[o].byoid \/ b) => Wti(o).table # Wti(s).table
  <2>1. (Asks(o)' <=> Asks(o)) /\ Wti(o)' = Wti(o) BY <1>7 DEF Asks, Wti
  <2>2. Asks(o) /\ Wti(o).table = Wti(s).table => o \in Asking(s) BY DEF Asks, Asking
  <2>3. (b \/ \E p \in Asking(s) : stm[p].byoid) => Asking(s) = {} BY <1>1, <1>2
  <2> QED BY <2>1, <2>2, <2>3
<1>12. AsksOf(s) BY <1>10, <1>11 DEF AsksOf
<1>13. ByOid(s)'
  <2>1. \A e \in ToSet(arr) : ent[e].table # Wti(s).table BY NoneCached
  <2> QED BY <1>5, <1>7, <1>10, <1>11, <2>1 DEF ByOid
<1>14. LookInv(s)' BY <1>3, <1>5, <1>7, <1>10, AtInfo DEF LookInv, Asks
<1> QED BY <1>9, <1>12, <1>13, <1>14, Quiet, TiUnchanged

\* SC_describe_ok: an old TABLE_INFO or a new one.
LEMMA DescribeInv ==
  ASSUME CacheInv, Risky = {}, NEW s \in Stmts, NEW t \in Tables, SC_describe_ok(s, t)
  PROVE  CacheInv' /\ FreshStep
<1>1. /\ ent' = ent /\ arr' = arr /\ srv' = srv /\ changes' = changes /\ allocated' = allocated
  BY DEF SC_describe_ok
<1> DEFINE Mine == {i \in DOMAIN ti[s] : ti[s][i].table = t /\ ti[s][i].known}
           At == IF Mine = {} THEN Len(ti[s]) + 1 ELSE CHOOSE i \in Mine : \A j \in Mine : i <= j
<1>2. /\ At <= MaxTables
      /\ ti' = IF Mine = {} THEN [ti EXCEPT ![s] = Append(ti[s], [TI_Constructor(t) EXCEPT !.known = TRUE])] ELSE ti
      /\ (Mine = {} \/ ti[s][At].coli \in ToSet(arr) \cup {0}) = TRUE
      /\ stm' = [stm EXCEPT ![s] = [stm[s] EXCEPT !.pc = "look", !.k = At, !.colatt = TRUE]]
  BY Zenon DEF SC_describe_ok
<1>3. PICK mine : mine = Mine OBVIOUS
<1>4. PICK at : at = IF mine = {} THEN Len(ti[s]) + 1 ELSE CHOOSE i \in mine : \A j \in mine : i <= j
  OBVIOUS
<1>5. at = At BY <1>3, <1>4
<1>6. mine = {i \in DOMAIN ti[s] : ti[s][i].table = t /\ ti[s][i].known} BY <1>3
<1> HIDE DEF Mine, At
<1>7. PICK r \in Statements : r = stm[s] BY AtInfo
<1>8. PICK y : y = [TI_Constructor(t) EXCEPT !.known = TRUE] OBVIOUS
<1>9. /\ at <= MaxTables
      /\ ti' = IF mine = {} THEN [ti EXCEPT ![s] = Append(ti[s], y)] ELSE ti
      /\ mine = {} \/ ti[s][at].coli \in ToSet(arr) \cup {0}
      /\ stm' = [stm EXCEPT ![s] = [r EXCEPT !.pc = "look", !.k = at, !.colatt = TRUE]]
  BY <1>2, <1>3, <1>5, <1>7, <1>8
<1>10. /\ ti[s] \in Seq(TableInfos) /\ Len(ti[s]) \in Nat /\ DOMAIN ti[s] = 1 .. Len(ti[s])
  BY CacheInvIs, InfosOf
<1>11. y \in TableInfos /\ y.coli = 0 BY <1>8, InfoNew
<1>12. /\ ti' \in [Stmts -> TISeqs] /\ \A o \in Stmts \ {s} : ti'[o] = ti[o]
      /\ SamePoints(ti, ti') /\ at \in DOMAIN ti'[s] /\ at \in Nat /\ ti'[s][at].coli \in ToSet(arr) \cup {0}
  <2>1. CASE mine = {}
    <3>1. PICK q : q = Append(ti[s], y) OBVIOUS
    <3>2. /\ q \in Seq(TableInfos) /\ Len(q) = Len(ti[s]) + 1 /\ q[at] = y /\ at = Len(ti[s]) + 1
          /\ DOMAIN q = 1 .. Len(ti[s]) + 1
          /\ \A i \in 1 .. Len(ti[s]) : q[i] = ti[s][i]
      BY <1>4, <1>10, <1>11, <2>1, <3>1
    <3>3. q \in TISeqs BY <1>9, <3>2 DEF TISeqs
    <3>4. ti' = [ti EXCEPT ![s] = q] BY <1>9, <2>1, <3>1
    <3>5. ti' \in [Stmts -> TISeqs] /\ ti'[s] = q /\ \A o \in Stmts \ {s} : ti'[o] = ti[o]
      BY <3>3, <3>4, TiIs
    <3>6. SamePoints(ti, ti') BY <1>10, <1>11, <3>2, <3>5 DEF SamePoints
    <3> QED BY <1>10, <1>11, <3>2, <3>5, <3>6
  <2>2. CASE mine # {}
    <3>1. mine \in SUBSET Nat BY <1>6, <1>10
    <3>2. at \in mine BY <1>4, <2>2, <3>1, LeastIs
    <3> QED BY <1>6, <1>9, <1>10, <2>2, <3>2, CacheInvIs DEF SamePoints
  <2> QED BY <2>1, <2>2
<1>13. PICK x : x = [r EXCEPT !.pc = "look", !.k = at, !.colatt = TRUE] OBVIOUS
<1>14. x \in Statements /\ x.pc = "look" /\ x.k = at /\ x.colatt
  BY <1>12, <1>13, Zenon DEF Statements, PCs0
<1>15. stm' = [stm EXCEPT ![s] = x] BY <1>9, <1>13
<1>16. stm' \in [Stmts -> Statements] /\ stm'[s] = x /\ \A o \in Stmts \ {s} : stm'[o] = stm[o]
  BY <1>14, <1>15, StmIs
<1>17. StepOf(s) BY <1>1, <1>12, <1>14, <1>16, CacheInvIs DEF StepOf
<1>18. Wti(s)' = ti'[s][at] BY <1>14, <1>16 DEF Wti
<1>19. AsksOf(s) /\ ByOid(s)' BY <1>14, <1>16 DEF AsksOf, ByOid, Asks
<1>20. LookInv(s)' BY <1>1, <1>12, <1>14, <1>16, <1>18 DEF LookInv, Asks
<1> QED BY <1>1, <1>12, <1>17, <1>19, <1>20, Quiet

\* A TABLE_INFO gets an entry.
Takes(s, k, a, d, x) ==
  /\ k \in DOMAIN ti[s] /\ k = stm[s].k /\ stm[s].pc # "idle" /\ a \in Structs /\ Wti(s).coli = 0 /\ d \in Infos
  /\ ent' = [ent EXCEPT ![a] = d] /\ Points(s, a)
  /\ d.live /\ d.table = Wti(s).table /\ d.refcnt = ent[a].refcnt + 1 /\ d.ver = srv[d.table]
  /\ ent[a].refcnt # 0 => ent[a].table = d.table
  /\ arr' \in Seq(Structs) /\ ToSet(arr') = ToSet(arr) \cup {a} /\ allocated' \in Nat /\ Len(arr') <= allocated'
  /\ srv' = srv /\ changes' = changes
  /\ x \in Statements /\ stm' = [stm EXCEPT ![s] = x] /\ x.pc = "found" /\ x.k = k /\ (x.colatt <=> stm[s].colatt)
  /\ Asks(s) \/ (a \in ToSet(arr) /\ ent[a].table = d.table)

\* Taking a reference keeps the invariant.
LEMMA TakesInv ==
  ASSUME CacheInv, NEW s \in Stmts, NEW k, NEW a, NEW d, NEW x, Takes(s, k, a, d, x)
  PROVE  CacheInv' /\ FreshStep
<1>1. PICK w \in TableInfos : w = ti[s][k] /\ w = Wti(s) BY AtInfo DEF Wti, Takes
<1>2. PICK y : y = [w EXCEPT !.coli = a, !.known = TRUE] OBVIOUS
<1>3. y \in TableInfos /\ y.coli = a /\ y.table = w.table
  <2>1. a \in Structs BY DEF Takes
  <2> QED BY <1>2, <2>1, Zenon DEF TableInfos
<1>4. ti' = [ti EXCEPT ![s] = [ti[s] EXCEPT ![k] = y]]
  <2>1. ti' = [ti EXCEPT ![s][k] = [@ EXCEPT !.coli = a, !.known = TRUE]] BY DEF Takes, Points
  <2> QED BY <1>1, <1>2, <2>1
<1>5. Pointed(ti, ti', s, k, y) /\ \A o \in Stmts \ {s} : ti'[o] = ti[o]
  <2>1. ti \in [Stmts -> TISeqs] /\ k \in DOMAIN ti[s] BY CacheInvIs DEF Takes
  <2> QED BY <1>3, <1>4, <2>1, PointsTo
<1>6. /\ ti' \in [Stmts -> TISeqs] /\ k \in DOMAIN ti'[s] /\ ti'[s][k] = y
      /\ \A o \in Stmts : DOMAIN ti'[o] = DOMAIN ti[o]
      /\ \A o \in Stmts : \A i \in DOMAIN ti[o] : o # s \/ i # k => ti'[o][i] = ti[o][i]
  BY <1>5 DEF Pointed
<1>7. ent' \in [Structs -> Infos] /\ ent'[a] = d /\ \A e \in Structs : e # a => ent'[e] = ent[e]
  BY CacheInvIs DEF Takes
<1>8. /\ stm' \in [Stmts -> Statements] /\ stm'[s] = x /\ \A o \in Stmts \ {s} : stm'[o] = stm[o]
  BY StmIs DEF Takes
<1>9. Good(ent, ti, arr, srv)'
  <2>1. /\ Good(ent, ti, arr, srv) /\ ent \in [Structs -> Infos] /\ ti \in [Stmts -> TISeqs] /\ arr \in Seq(Structs)
    BY CacheInvIs
  <2>2. Gets(ent, ent', ti, srv, s, k, a, y, d) BY <1>1, <1>3, <1>7 DEF Gets, Takes
  <2>3. Good(ent', ti', arr', srv) BY <1>5, <2>1, <2>2, PointsGood DEF Takes
  <2> QED BY <2>3 DEF Takes
<1>10. StepOf(s) BY <1>5, <1>6, <1>7, <1>8 DEF StepOf, Takes
<1>11. Wti(s)' = y BY <1>6, <1>8 DEF Wti, Takes
<1>12. AsksOf(s) /\ ByOid(s)' BY <1>8 DEF AsksOf, ByOid, Asks, Takes
<1>13. TablesOf(s)
  <2> SUFFICES ASSUME NEW e \in ToSet(arr')
               PROVE  \/ e \in ToSet(arr) /\ ent'[e].table \in {ent[e].table, None}
                      \/ Asks(s) /\ ent'[e].table = Wti(s).table
    BY DEF TablesOf
  <2>1. CASE e = a BY <1>7, <2>1 DEF Takes
  <2>2. CASE e # a BY <1>7, <2>2, CacheInvIs DEF Takes
  <2> QED BY <2>1, <2>2
<1>14. LookInv(s)'
  <2>1. a \in ToSet(arr') /\ a # 0 BY DEF Structs, Takes
  <2>2. ~stm[s].colatt => \A i \in DOMAIN ti[s] : i > k => ti[s][i].coli = 0 BY AtInfo DEF LookInv, Takes
  <2>3. ~x.colatt => \A i \in DOMAIN ti'[s] : i > k => ti'[s][i].coli = 0
    <3> SUFFICES ASSUME ~x.colatt, NEW i \in DOMAIN ti'[s], i > k PROVE ti'[s][i].coli = 0 OBVIOUS
    <3>1. i \in DOMAIN ti[s] /\ i # k BY <1>6, CacheInvIs, ColiOf
    <3> QED BY <1>6, <2>2, <3>1, Zenon DEF Takes
  <2> QED BY <1>3, <1>8, <1>11, <2>1, <2>3 DEF LookInv, Asks, Takes
<1>15. FreshStep
  <2> SUFFICES ASSUME NEW o \in Stmts, NEW i \in DOMAIN ti'[o], ti'[o][i].coli # 0,
                      i \notin DOMAIN ti[o] \/ ti[o][i].coli # ti'[o][i].coli
               PROVE  ent'[ti'[o][i].coli].ver = srv[ent'[ti'[o][i].coli].table]
    BY DEF FreshStep
  <2>1. o = s /\ i = k BY <1>6
  <2> QED BY <1>3, <1>6, <1>7, <2>1 DEF Takes
<1> QED BY <1>9, <1>10, <1>12, <1>13, <1>14, <1>15, StepInv

\* getCOLIfromTI finds an entry in the cache.
LEMMA FoundInv ==
  ASSUME CacheInv, NEW s \in Stmts, stm[s].pc = "look", Wti(s).coli = 0,
         NEW i \in Cached(Wti(s).table), ent' = [ent EXCEPT ![arr[i]].refcnt = @ + 1], Points(s, arr[i]),
         stm' = [stm EXCEPT ![s].pc = "found"], UNCHANGED <<srv, changes, arr, allocated>>
  PROVE  CacheInv' /\ FreshStep
<1>1. PICK a : a = arr[i] OBVIOUS
<1>2. a \in ToSet(arr) /\ a \in Structs /\ ent[a].table = Wti(s).table BY <1>1, CacheInvIs DEF Cached
<1>3. PICK c \in Infos : c = ent[a] BY <1>2, CacheInvIs
<1>4. c.refcnt + 1 \in Nat BY InfoFields
<1>5. PICK n \in Nat : n = c.refcnt + 1 BY <1>4
<1>6. PICK d : d = [c EXCEPT !.refcnt = n] OBVIOUS
<1>7. d \in Infos /\ SameInfo(c, d) /\ d.refcnt = n BY <1>6, InfoCount
<1>8. ent' = [ent EXCEPT ![a] = d] BY <1>1, <1>3, <1>5, <1>6
<1>9. PICK r \in Statements : r = stm[s] BY AtInfo
<1>10. PICK x : x = [r EXCEPT !.pc = "found"] OBVIOUS
<1>11. x \in Statements /\ x.pc = "found" /\ x.k = r.k /\ (x.colatt <=> r.colatt) BY <1>10, StmPc DEF PCs0
<1>12. stm' = [stm EXCEPT ![s] = x] BY <1>9, <1>10
<1>13. stm[s].k \in DOMAIN ti[s] /\ Wti(s).table \in Tables BY AtInfo, CacheInvIs, ColiOf DEF Wti
<1>14. ent[a].live /\ ent[a].ver = srv[ent[a].table]
  BY <1>2, <1>13, CacheInvIs, NamesAssumption DEF Good, Inside, UpToDate
<1>15. /\ d.live /\ d.table = Wti(s).table /\ d.refcnt = ent[a].refcnt + 1 /\ d.ver = srv[d.table]
       /\ ent[a].table = d.table
  BY <1>2, <1>3, <1>5, <1>7, <1>14 DEF SameInfo
<1>16. ToSet(arr') = ToSet(arr) \cup {a} /\ arr' \in Seq(Structs) /\ allocated' \in Nat /\ Len(arr') <= allocated'
  BY <1>2, CacheInvIs
<1>17. Points(s, a) BY <1>1
<1>18. Takes(s, stm[s].k, a, d, x)
  BY <1>2, <1>7, <1>8, <1>9, <1>11, <1>12, <1>13, <1>15, <1>16, <1>17 DEF Takes
<1> QED BY <1>18, TakesInv

\* The entry that getColumnsInfo reuses has no references.
LEMMA RecycledIs ==
  ASSUME CacheInv, NEW s \in Stmts, stm[s].pc = "store", Recycled(s) # {},
         NEW i, i = (CHOOSE j \in Recycled(s) : \A k \in Recycled(s) : j <= k)
  PROVE  i \in DOMAIN arr /\ arr[i] \in ToSet(arr) /\ arr[i] \in Structs /\ ent[arr[i]].refcnt = 0
<1>1. DOMAIN arr = 1 .. Len(arr) /\ Len(arr) \in Nat BY CacheInvIs
<1>2. stm[s].byoid => Cached(Wti(s).table) = {}
  <2>1. stm[s].byoid => \A e \in ToSet(arr) : ent[e].table # Wti(s).table BY AtInfo DEF ByOid, Asks
  <2> QED BY <2>1, CacheInvIs DEF Cached
<1>3. \A j \in Recycled(s) : j \in DOMAIN arr /\ ent[arr[j]].refcnt <= 0 BY <1>2 DEF Recycled, Reusable
<1>4. PICK S : S = Recycled(s) OBVIOUS
<1>5. S \in SUBSET Nat /\ S # {} /\ i = (CHOOSE j \in S : \A k \in S : j <= k) BY <1>1, <1>3, <1>4
<1>6. i \in S BY <1>5, LeastIs
<1>7. i \in DOMAIN arr /\ ent[arr[i]].refcnt <= 0 BY <1>3, <1>4, <1>6
<1>8. arr[i] \in ToSet(arr) /\ arr[i] \in Structs BY <1>7, CacheInvIs
<1>9. ent[arr[i]].refcnt \in Nat BY <1>8, CacheInvIs, InfoFields
<1> QED BY <1>7, <1>8, <1>9

\* The array has room for one more.
LEMMA GrownIs ==
  ASSUME CacheInv
  PROVE  Grown(Len(arr)) \in Nat /\ Len(arr) + 1 <= Grown(Len(arr))
BY CacheInvIs, SizeAssumption DEF Grown

\* An entry more in the cache.
LEMMA AppendTo ==
  ASSUME NEW e \in Structs, NEW q \in Seq(Structs), NEW r, r = Append(q, e)
  PROVE  r \in Seq(Structs) /\ Len(r) = Len(q) + 1 /\ ToSet(r) = ToSet(q) \cup {e}
<1>1. r \in Seq(Structs) /\ Len(r) = Len(q) + 1 /\ r[Len(q) + 1] = e /\ \A i \in 1 .. Len(q) : r[i] = q[i]
  OBVIOUS
<1>2. /\ DOMAIN r = 1 .. Len(q) + 1 /\ DOMAIN q = 1 .. Len(q) /\ Len(q) \in Nat BY <1>1
<1>3. ToSet(r) \subseteq ToSet(q) \cup {e} BY <1>1, <1>2 DEF ToSet
<1>4. ToSet(q) \subseteq ToSet(r) BY <1>1, <1>2 DEF ToSet
<1>5. e \in ToSet(r) BY <1>1, <1>2 DEF ToSet
<1> QED BY <1>1, <1>3, <1>4, <1>5

\* getColumnsInfo fills an entry without references, or a new one.
LEMMA StoreInv ==
  ASSUME CacheInv, NEW s \in Stmts, getColumnsInfo(s)
  PROVE  CacheInv' /\ FreshStep
<1>1. stm[s].pc = "store" /\ srv' = srv /\ changes' = changes BY DEF getColumnsInfo
<1>2. /\ stm[s].k \in DOMAIN ti[s] /\ Wti(s).coli = 0 /\ stm[s].got = srv[Wti(s).table] /\ Asks(s)
  BY <1>1, AtInfo DEF LookInv, Asks
<1>3. PICK t \in Tables : t = Wti(s).table BY <1>2, CacheInvIs, ColiOf DEF Wti
<1>4. PICK v \in Versions : v = stm[s].got BY AtInfo, StmFields
<1>5. PICK d : d = [live |-> TRUE, table |-> t, ver |-> v, refcnt |-> 1, acc_time |-> 0] OBVIOUS
<1>6. d \in Infos /\ d.live /\ d.table = t /\ d.ver = v /\ d.refcnt = 1 /\ d.acc_time = 0 BY <1>5, NewInfo
<1>7. d = NewEntry(s) BY <1>3, <1>4, <1>5 DEF NewEntry
<1>8. PICK r \in Statements : r = stm[s] BY AtInfo
<1>9. PICK x : x = [r EXCEPT !.pc = "found", !.got = 0, !.byoid = FALSE] OBVIOUS
<1>10. x \in Statements /\ x.pc = "found" /\ x.k = r.k /\ (x.colatt <=> r.colatt)
  <2>1. 0 \in Versions BY SizeAssumption DEF Versions
  <2> QED BY <1>9, <2>1, Zenon DEF Statements, PCs0
<1>11. stm' = [stm EXCEPT ![s] = x] BY <1>8, <1>9 DEF getColumnsInfo
<1>12. ASSUME NEW a \in Structs, ent[a].refcnt = 0, ent' = [ent EXCEPT ![a] = d], Points(s, a),
              arr' \in Seq(Structs), ToSet(arr') = ToSet(arr) \cup {a}, allocated' \in Nat, Len(arr') <= allocated'
       PROVE  CacheInv' /\ FreshStep
  <2>1. Takes(s, stm[s].k, a, d, x) BY <1>1, <1>2, <1>3, <1>4, <1>6, <1>8, <1>10, <1>11, <1>12 DEF Takes
  <2> QED BY <2>1, TakesInv
<1>13. CASE Recycled(s) # {}
  <2>1. PICK i : i = (CHOOSE j \in Recycled(s) : \A k \in Recycled(s) : j <= k) OBVIOUS
  <2>2. ent' = [ent EXCEPT ![arr[i]] = NewEntry(s)] /\ Points(s, arr[i]) /\ arr' = arr /\ allocated' = allocated
    BY <1>13, <2>1 DEF getColumnsInfo
  <2>3. i \in DOMAIN arr /\ arr[i] \in ToSet(arr) /\ arr[i] \in Structs /\ ent[arr[i]].refcnt = 0
    BY <1>1, <1>13, <2>1, RecycledIs
  <2>4. PICK a : a = arr[i] OBVIOUS
  <2> QED BY <1>7, <1>12, <2>2, <2>3, <2>4, CacheInvIs
<1>14. CASE Recycled(s) = {}
  <2>1. PICK a \in Structs :
           /\ ~ent[a].live /\ ent' = [ent EXCEPT ![a] = NewEntry(s)] /\ Points(s, a)
           /\ arr' = Append(arr, a) /\ allocated' = Grown(Len(arr))
    BY <1>14 DEF getColumnsInfo
  <2>2. /\ arr' \in Seq(Structs) /\ ToSet(arr') = ToSet(arr) \cup {a} /\ Len(arr') = Len(arr) + 1
    BY <2>1, CacheInvIs, AppendTo
  <2>3. ent[a].refcnt = 0
    <3>1. RefsOf(ti, a) = {}
      <4> SUFFICES ASSUME NEW q \in RefsOf(ti, a) PROVE FALSE OBVIOUS
      <4>1. /\ q[1] \in Stmts /\ q[2] \in DOMAIN ti[q[1]] /\ ti[q[1]][q[2]].coli = a BY DEF RefsOf
      <4> QED BY <2>1, <4>1, CacheInvIs, GoodIs
    <3> QED BY <3>1, CacheInvIs, GoodIs
  <2> QED BY <1>7, <1>12, <2>1, <2>2, <2>3, GrownIs
<1> QED BY <1>13, <1>14

\* The action's operator is that of the lemmas.
LEMMA ReleasedIs ==
  ASSUME NEW ss
  PROVE  Released(ss) = Without(ent, ti, arr, ss)
BY DEF Released, Without, Unreferenced, Refs, RefsOf

\* A step that destroys the TABLE_INFOs of statement s.
LEMMA GivesBack ==
  ASSUME CacheInv, NEW s \in Stmts, NEW x \in TISeqs, \A i \in DOMAIN x : x[i].coli = 0,
         ti' = [ti EXCEPT ![s] = x], ent' = Released({s}), srv' = srv, changes' = changes, arr' = arr, allocated' = allocated,
         NEW y \in Statements, stm' = [stm EXCEPT ![s] = y],
         IF y.pc = "idle" THEN y.k = 0 ELSE y.pc = "look" /\ y.k \in DOMAIN x
  PROVE  CacheInv' /\ FreshStep
<1>1. ti' \in [Stmts -> TISeqs] /\ ti'[s] = x /\ \A o \in Stmts \ {s} : ti'[o] = ti[o] BY TiIs
<1>2. stm' \in [Stmts -> Statements] /\ stm'[s] = y /\ \A o \in Stmts \ {s} : stm'[o] = stm[o] BY StmIs
<1>3. /\ ent \in [Structs -> Infos] /\ ti \in [Stmts -> TISeqs] /\ arr \in Seq(Structs) /\ Good(ent, ti, arr, srv)
      /\ ToSet(arr) \subseteq Structs
  BY CacheInvIs
<1>4. PICK F : F = Without(ent, ti, arr, {s}) OBVIOUS
<1>5. PICK U \in [Stmts -> TISeqs] : U = ti' BY <1>1
<1>6. PICK ss \in SUBSET Stmts : ss = {s} OBVIOUS
<1>7. /\ \A o \in Stmts \ ss : U[o] = ti[o]
      /\ \A o \in ss : \A i \in DOMAIN U[o] : U[o][i].coli = 0
      /\ F = Without(ent, ti, arr, ss)
  BY <1>1, <1>4, <1>5, <1>6
<1>8. /\ F \in [Structs -> Infos] /\ Good(F, U, arr, srv)
      /\ \A e \in Structs : F[e].table \in {ent[e].table, None}
  BY <1>3, <1>7, WithoutGood
<1>9. ent' = F BY <1>4, ReleasedIs
<1>10. Good(ent, ti, arr, srv)' BY <1>5, <1>8, <1>9
<1>11. StepOf(s) BY <1>1, <1>2, <1>3, <1>8, <1>9, CacheInvIs DEF StepOf
<1>12. TablesOf(s) BY <1>3, <1>8, <1>9 DEF TablesOf
<1>13. AsksOf(s) /\ ByOid(s)' BY <1>2 DEF AsksOf, ByOid, Asks
<1>14. LookInv(s)'
  <2>1. CASE y.pc = "idle" BY <1>2, <2>1, AtEase
  <2>2. CASE y.pc = "look" /\ y.k \in DOMAIN x BY <1>1, <1>2, <2>2 DEF LookInv, Asks, Wti
  <2> QED BY <2>1, <2>2
<1>15. FreshStep BY <1>1 DEF FreshStep
<1> QED BY <1>10, <1>11, <1>12, <1>13, <1>14, <1>15, StepInv

\* No TABLE_INFOs.
LEMMA NoInfos == << >> \in TISeqs /\ DOMAIN << >> = {}
BY SizeAssumption DEF TISeqs

\* SC_initialize_cols_info.
LEMMA InitializeInv ==
  ASSUME CacheInv, NEW s \in Stmts, SC_initialize_cols_info(s)
  PROVE  CacheInv' /\ FreshStep
<1>1. PICK x : x = << >> OBVIOUS
<1>2. x \in TISeqs /\ \A i \in DOMAIN x : x[i].coli = 0 BY <1>1, NoInfos
<1>3. PICK y : y = Released0 OBVIOUS
<1>4. y \in Statements /\ y.pc = "idle" /\ y.k = 0 BY <1>3, StmNew
<1>5. /\ ti' = [ti EXCEPT ![s] = x] /\ ent' = Released({s}) /\ srv' = srv /\ changes' = changes /\ arr' = arr
      /\ allocated' = allocated /\ stm' = [stm EXCEPT ![s] = y]
  BY <1>1, <1>3 DEF SC_initialize_cols_info, TI_Destructor
<1> QED BY <1>2, <1>4, <1>5, GivesBack

\* The parser gives up.
LEMMA GiveUpInv ==
  ASSUME CacheInv, NEW s \in Stmts, ColumnsMissing(s), ~stm[s].colatt
  PROVE  CacheInv' /\ FreshStep
<1>1. PICK x : x = << >> OBVIOUS
<1>2. x \in TISeqs /\ \A i \in DOMAIN x : x[i].coli = 0 BY <1>1, NoInfos
<1>3. PICK y : y = AtRest(stm[s]) OBVIOUS
<1>4. y \in Statements /\ y.pc = "idle" /\ y.k = 0 BY <1>3, AtInfo, StmRest
<1>5. /\ ti' = [ti EXCEPT ![s] = x] /\ ent' = Released({s}) /\ srv' = srv /\ changes' = changes /\ arr' = arr
      /\ allocated' = allocated /\ stm' = [stm EXCEPT ![s] = y]
  BY <1>1, <1>3 DEF ColumnsMissing, TI_Destructor
<1> QED BY <1>2, <1>4, <1>5, GivesBack

\* A new query.
LEMMA ExecuteInv ==
  ASSUME CacheInv, Risky = {}, NEW s \in Stmts, NEW q \in Queries, NEW t, Execute(s, q, FALSE, t)
  PROVE  CacheInv' /\ FreshStep
<1>1. PICK x : x = << >> OBVIOUS
<1>2. x \in TISeqs /\ \A i \in DOMAIN x : x[i].coli = 0 BY <1>1, NoInfos
<1>3. PICK r \in Statements : r = Released0 /\ r.pc = "idle" /\ r.k = 0 BY StmNew
<1>4. PICK y : y = [r EXCEPT !.query = q] OBVIOUS
<1>5. y \in Statements /\ y.pc = "idle" /\ y.k = 0 BY <1>3, <1>4, StmQuery
<1>6. /\ ti' = [ti EXCEPT ![s] = x] /\ srv' = srv /\ changes' = changes /\ arr' = arr
      /\ allocated' = allocated /\ stm' = [stm EXCEPT ![s] = y] /\ t = None
  BY <1>1, <1>3, <1>4 DEF Execute
<1>7. ent' = Released({s})
  <2>1. ent' = [e \in Structs |-> Released({s})[e]] BY <1>6 DEF Execute
  <2> QED BY <2>1 DEF Released
<1> QED BY <1>2, <1>5, <1>6, <1>7, GivesBack

\* parse_statement.
LEMMA ParseInv ==
  ASSUME CacheInv, NEW s \in Stmts, parse_statement(s)
  PROVE  CacheInv' /\ FreshStep
<1>1. PICK q : q = stm[s].query OBVIOUS
<1>2. q \in Seq(Tables) /\ Len(q) \in 1 .. MaxTables
  <2>1. q \in Queries BY <1>1, AtInfo, StmFields DEF parse_statement
  <2> QED BY <2>1, QueriesAssumption
<1>3. PICK x : x = [i \in DOMAIN q |-> TI_Constructor(q[i])] OBVIOUS
<1>4. \A i \in DOMAIN q : q[i] \in Tables /\ TI_Constructor(q[i]) \in TableInfos /\ TI_Constructor(q[i]).coli = 0
  <2> SUFFICES ASSUME NEW i \in DOMAIN q
               PROVE  q[i] \in Tables /\ TI_Constructor(q[i]) \in TableInfos /\ TI_Constructor(q[i]).coli = 0
    OBVIOUS
  <2>1. PICK t \in Tables : t = q[i] BY <1>2
  <2>2. TI_Constructor(t) \in TableInfos /\ TI_Constructor(t).coli = 0 BY InfoNew
  <2> QED BY <2>1, <2>2
<1>5. x \in TISeqs /\ 1 \in DOMAIN x /\ \A i \in DOMAIN x : x[i].coli = 0
  <2>1. DOMAIN x = 1 .. Len(q) /\ Len(q) \in Nat /\ \A i \in DOMAIN x : x[i] \in TableInfos /\ x[i].coli = 0
    BY <1>2, <1>3, <1>4
  <2>2. x \in Seq(TableInfos) /\ Len(x) = Len(q) BY <1>3, <2>1
  <2> QED BY <1>2, <2>1, <2>2 DEF TISeqs
<1>6. PICK r \in Statements : r = stm[s] BY AtInfo
<1>7. PICK y : y = [r EXCEPT !.pc = "look", !.k = 1, !.colatt = FALSE, !.parsed = TRUE] OBVIOUS
<1>8. y \in Statements /\ y.pc = "look" /\ y.k = 1 BY <1>7, Zenon DEF Statements, PCs0
<1>9. /\ ti' = [ti EXCEPT ![s] = x] /\ ent' = Released({s}) /\ srv' = srv /\ changes' = changes /\ arr' = arr
      /\ allocated' = allocated /\ stm' = [stm EXCEPT ![s] = y]
  BY <1>1, <1>3, <1>6, <1>7 DEF parse_statement
<1> QED BY <1>5, <1>8, <1>9, GivesBack

\* The entry is used, and the parser goes on.
LEMMA UsedInv ==
  ASSUME CacheInv, NEW s \in Stmts, Used(s)
  PROVE  CacheInv' /\ FreshStep
<1>1. /\ stm[s].pc = "found" /\ srv' = srv /\ changes' = changes /\ arr' = arr /\ allocated' = allocated /\ ti' = ti
  BY DEF Used
<1>2. PICK a : a = Wti(s).coli OBVIOUS
<1>3. a \in ToSet(arr) /\ stm[s].k \in DOMAIN ti[s]
  <2>1. a # 0 /\ a \in ToSet(arr) \cup {0} BY <1>1, <1>2, AtInfo DEF LookInv
  <2> QED BY <1>1, <2>1, AtInfo
<1>4. PICK n \in 0 .. MaxTime : ent' = [ent EXCEPT ![a].acc_time = n]
  <2>1. PICK n \in 1 .. MaxTime : ent' = [ent EXCEPT ![a].acc_time = n] BY <1>2 DEF Used
  <2>2. n \in 0 .. MaxTime BY SizeAssumption
  <2> QED BY <2>1, <2>2
<1>5. /\ ent \in [Structs -> Infos] /\ ti \in [Stmts -> TISeqs] /\ arr \in Seq(Structs) /\ Good(ent, ti, arr, srv)
      /\ ToSet(arr) \subseteq Structs
  BY CacheInvIs
<1>6. ent' \in [Structs -> Infos] /\ Good(ent', ti, arr, srv) BY <1>3, <1>4, <1>5, UsedGood
<1>7. \A e \in Structs : ent'[e].table = ent[e].table
  <2>1. PICK d : d = [ent[a] EXCEPT !.acc_time = n] OBVIOUS
  <2>2. ent' = [ent EXCEPT ![a] = d] BY <1>4, <2>1
  <2>3. SameInfo(ent[a], d) BY <1>3, <1>5, <2>1, InfoTime
  <2> QED BY <1>3, <1>5, <2>2, <2>3 DEF SameInfo
<1>8. PICK r \in Statements : r = stm[s] BY AtInfo
<1>9. PICK y \in Statements :
        /\ stm' = [stm EXCEPT ![s] = y]
        /\ \/ y.pc = "idle" /\ y.k = 0
           \/ y.pc = "look" /\ y.k = r.k + 1 /\ y.k \in DOMAIN ti[s] /\ ~y.colatt /\ ~r.colatt
  <2>1. CASE r.colatt \/ r.k = Len(ti[s])
    <3>1. PICK y : y = AtRest(r) OBVIOUS
    <3>2. y \in Statements /\ y.pc = "idle" /\ y.k = 0 BY <3>1, StmRest
    <3>3. stm' = [stm EXCEPT ![s] = y] BY <1>8, <2>1, <3>1 DEF Used
    <3> QED BY <3>2, <3>3
  <2>2. CASE ~(r.colatt \/ r.k = Len(ti[s]))
    <3>1. /\ DOMAIN ti[s] = 1 .. Len(ti[s]) /\ Len(ti[s]) \in Nat BY <1>5, InfosOf
    <3>2. PICK m \in Nat : m = r.k + 1 /\ m \in DOMAIN ti[s] BY <1>3, <1>8, <2>2, <3>1
    <3>3. PICK y : y = [r EXCEPT !.pc = "look", !.k = m] OBVIOUS
    <3>4. y \in Statements /\ y.pc = "look" /\ y.k = m /\ (y.colatt <=> r.colatt)
      BY <3>3, Zenon DEF Statements, PCs0
    <3>5. stm' = [stm EXCEPT ![s] = y] BY <1>8, <2>2, <3>2, <3>3 DEF Used
    <3>6. ~y.colatt /\ ~r.colatt BY <2>2, <3>4
    <3> QED BY <3>2, <3>4, <3>5, <3>6
  <2> QED BY <2>1, <2>2
<1>10. stm' \in [Stmts -> Statements] /\ stm'[s] = y /\ \A o \in Stmts \ {s} : stm'[o] = stm[o]
  BY <1>9, StmIs
<1>11. StepOf(s) BY <1>1, <1>6, <1>9, <1>10, CacheInvIs DEF StepOf
<1>12. TablesOf(s) BY <1>1, <1>5, <1>7 DEF TablesOf
<1>13. AsksOf(s) /\ ByOid(s)' BY <1>9, <1>10 DEF AsksOf, ByOid, Asks
<1>14. LookInv(s)'
  <2>1. CASE y.pc = "idle" BY <1>10, <2>1, AtEase
  <2>2. CASE y.pc = "look" /\ y.k = r.k + 1 /\ y.k \in DOMAIN ti[s] /\ ~y.colatt /\ ~r.colatt
    <3>1. \A i \in DOMAIN ti[s] : i > r.k => ti[s][i].coli = 0 BY <1>1, <1>8, <2>2, AtInfo DEF LookInv
    <3>2. r.k \in Nat /\ y.k > r.k BY <2>2, StmFields
    <3>3. \A i \in DOMAIN ti[s] : i \in Nat BY <1>5, InfosOf
    <3>4. ti[s][y.k].coli = 0 /\ \A i \in DOMAIN ti[s] : i > y.k => ti[s][i].coli = 0
      BY <2>2, <3>1, <3>2, <3>3
    <3> QED BY <1>1, <1>10, <2>2, <3>4 DEF LookInv, Asks, Wti
  <2> QED BY <1>9, <2>1, <2>2
<1>15. FreshStep BY <1>1 DEF FreshStep
<1>16. Good(ent, ti, arr, srv)' BY <1>1, <1>6
<1> QED BY <1>11, <1>12, <1>13, <1>14, <1>15, <1>16, StepInv

\* A DROP or ALTER TABLE of this connection, while nobody holds an answer of the catalog.
LEMMA ChangeInv ==
  ASSUME CacheInv, Risky = {}, NEW t \in Tables, NEW v \in {0, changes + 2}, NEW b, ChangeTable(t, v, b)
  PROVE  CacheInv' /\ FreshStep
<1>1. /\ changes < MaxChanges /\ changes' = changes + 1 /\ srv' = [srv EXCEPT ![t] = v]
      /\ \A s \in Stmts : stm[s].pc \in {"idle", "ask"}
      /\ b /\ CC_clear_col_info /\ allocated' = allocated /\ ti' = ti /\ stm' = stm
  BY DEF ChangeTable
<1>2. /\ ent \in [Structs -> Infos] /\ ti \in [Stmts -> TISeqs] /\ arr \in Seq(Structs) /\ Good(ent, ti, arr, srv)
      /\ changes \in 0 .. MaxChanges /\ srv \in [Tables -> Versions] /\ allocated \in Nat
  BY CacheInvIs
<1>3. arr' = << >> BY <1>1 DEF CC_clear_col_info
<1>4. ent' \in [Structs -> Infos] /\ Good(ent', ti, << >>, srv')
  <2>1. ent' = [e \in Structs |-> IF e \notin ToSet(arr) THEN ent[e]
                                  ELSE IF ent[e].refcnt = 0 THEN NoEntry ELSE [ent[e] EXCEPT !.acc_time = 0]]
    BY <1>1 DEF CC_clear_col_info
  <2> QED BY <1>2, <2>1, ClearGood
<1>5. ToSet(arr') = {} /\ Len(arr') = 0 /\ arr' \in Seq(Structs) BY <1>3 DEF ToSet
<1>6. srv' \in [Tables -> Versions] /\ changes' \in 0 .. MaxChanges
  <2>1. v \in Versions BY <1>1, <1>2, SizeAssumption DEF Versions
  <2> QED BY <1>1, <1>2, <2>1, SizeAssumption
<1>7. InfoTypes'
  <2>1. \A s \in Stmts : IF stm'[s].pc = "idle" THEN stm'[s].k = 0 ELSE stm'[s].k \in DOMAIN ti'[s]
    BY <1>1, CacheInvIs
  <2>2. ti' \in [Stmts -> TISeqs] /\ stm' \in [Stmts -> Statements] /\ allocated' \in Nat
    BY <1>1, CacheInvIs
  <2> QED BY <1>4, <1>5, <1>6, <2>1, <2>2 DEF InfoTypes
<1>8. ASSUME NEW o \in Stmts PROVE LookInv(o)' /\ ByOid(o)'
  <2>1. LookInv(o) /\ ByOid(o) /\ stm'[o] = stm[o] /\ ti'[o] = ti[o] BY <1>1, AtInfo
  <2>2. stm[o].pc \notin {"look", "found", "store"} BY <1>1
  <2>3. \A p \in Stmts \ {o} : Asks(p)' => Asks(p) /\ Wti(p)'.table = Wti(p).table BY <1>1 DEF Asks, Wti
  <2> QED BY <1>5, <2>1, <2>2, <2>3, Bystander
<1>9. FreshStep BY <1>1 DEF FreshStep
<1>10. Good(ent, ti, arr, srv)' BY <1>1, <1>3, <1>4
<1> QED BY <1>7, <1>8, <1>9, <1>10 DEF CacheInv, Good

\* CC_cleanup.
LEMMA CleanupInv ==
  ASSUME CacheInv, CC_cleanup
  PROVE  CacheInv' /\ FreshStep
<1>1. PICK U : U = [s \in Stmts |-> << >>] OBVIOUS
<1>2. /\ ti' = U /\ stm' = [s \in Stmts |-> Released0] /\ arr' = << >> /\ allocated' = 0 /\ srv' = srv /\ changes' = changes
      /\ ent' = [e \in Structs |-> IF e \in ToSet(arr) THEN NoEntry ELSE Without(ent, ti, arr, Stmts)[e]]
  BY <1>1, ReleasedIs DEF CC_cleanup
<1>3. /\ ent \in [Structs -> Infos] /\ ti \in [Stmts -> TISeqs] /\ arr \in Seq(Structs) /\ Good(ent, ti, arr, srv)
      /\ changes \in 0 .. MaxChanges /\ srv \in [Tables -> Versions]
  BY CacheInvIs
<1>4. U \in [Stmts -> TISeqs] /\ ent' \in [Structs -> Infos] /\ Good(ent', U, << >>, srv)
  BY <1>1, <1>2, <1>3, CleanGood
<1>5. \A s \in Stmts : stm'[s] \in Statements /\ stm'[s].pc = "idle" /\ stm'[s].k = 0 BY <1>2, StmNew
<1>6. InfoTypes'
  <2>1. arr' \in Seq(Structs) /\ Len(arr') = 0 /\ stm' \in [Stmts -> Statements] BY <1>2, <1>5
  <2> QED BY <1>2, <1>3, <1>4, <1>5, <2>1 DEF InfoTypes
<1>7. \A o \in Stmts : LookInv(o)' /\ ByOid(o)' BY <1>5, AtEase
<1>8. FreshStep BY <1>1, <1>2 DEF FreshStep
<1>9. Good(ent, ti, arr, srv)' BY <1>2, <1>4
<1> QED BY <1>6, <1>7, <1>8, <1>9 DEF CacheInv, Good

\* Initially nothing is cached.
LEMMA InitInv ==
  ASSUME ColInfoInit
  PROVE  CacheInv
<1>1. /\ srv = [t \in Tables |-> 1] /\ changes = 0 /\ ent = [e \in Structs |-> NoEntry] /\ arr = << >> /\ allocated = 0
      /\ ti = [s \in Stmts |-> << >>] /\ stm = [s \in Stmts |-> Released0]
  BY DEF ColInfoInit
<1>2. /\ ent \in [Structs -> Infos] /\ \A e \in Structs : ent[e].refcnt = 0 /\ ent[e].acc_time = 0 /\ ~ent[e].live
  BY <1>1, EmptyInfo
<1>3. ToSet(arr) = {} /\ Len(arr) = 0 /\ arr \in Seq(Structs) BY <1>1 DEF ToSet
<1>4. ti \in [Stmts -> TISeqs] /\ \A s \in Stmts : DOMAIN ti[s] = {} BY <1>1, NoInfos
<1>5. ASSUME NEW e PROVE RefsOf(ti, e) = {} /\ Cardinality(RefsOf(ti, e)) = 0
  <2>1. RefsOf(ti, e) = {} BY <1>4 DEF RefsOf
  <2> QED BY <2>1, RefsFinite
<1>6. Good(ent, ti, arr, srv)
  BY <1>2, <1>3, <1>4, <1>5 DEF Good, Counted, Owned, Inside, Outside, UpToDate
<1>7. \A s \in Stmts : stm[s] \in Statements /\ stm[s].pc = "idle" /\ stm[s].k = 0 BY <1>1, StmNew
<1>8. InfoTypes
  <2>1. srv \in [Tables -> Versions] /\ changes \in 0 .. MaxChanges /\ stm \in [Stmts -> Statements]
    BY <1>1, <1>7, SizeAssumption DEF Versions
  <2> QED BY <1>1, <1>2, <1>3, <1>4, <1>7, <2>1 DEF InfoTypes
<1>9. \A s \in Stmts : LookInv(s) /\ ByOid(s) BY <1>7 DEF LookInv, ByOid, Asks
<1> QED BY <1>6, <1>8, <1>9 DEF CacheInv, Good

\* A step of a lookup.
LEMMA LookupInv ==
  ASSUME CacheInv, Risky = {}, NEW s \in Stmts, Lookup(s)
  PROVE  CacheInv' /\ FreshStep
<1>1. CASE getCOLIfromTI(s)
  <2>1. CASE Wti(s).coli # 0 BY <1>1, <2>1, HasEntryInv
  <2>2. CASE Wti(s).coli = 0
    <3>1. stm[s].pc = "look" /\ UNCHANGED <<srv, changes, arr, allocated>> BY <1>1 DEF getCOLIfromTI
    <3>2. CASE \E i \in Cached(Wti(s).table) :
                  /\ ent' = [ent EXCEPT ![arr[i]].refcnt = @ + 1] /\ Points(s, arr[i])
                  /\ stm' = [stm EXCEPT ![s].pc = "found"]
      BY <2>2, <3>1, <3>2, FoundInv
    <3>3. CASE /\ Cached(Wti(s).table) = {}
               /\ (Wti(s).known \/ \E o \in Asking(s) : stm[o].byoid) => Asking(s) = {} \/ "parallel_asks" \in Risky
               /\ stm' = [stm EXCEPT ![s] = [@ EXCEPT !.pc = "ask", !.byoid = Wti(s).known]]
               /\ UNCHANGED <<ent, ti>>
      BY <2>2, <3>1, <3>3, MustAskInv
    <3> QED BY <1>1, <2>2, <3>2, <3>3 DEF getCOLIfromTI
  <2> QED BY <2>1, <2>2
<1>2. CASE AskColumns(s) BY <1>2, AskColumnsInv
<1>3. CASE ColumnsMissing(s) BY <1>3, MissingInv, GiveUpInv
<1>4. CASE getColumnsInfo(s) BY <1>4, StoreInv
<1>5. CASE ColAttSet(s) BY <1>5, ColAttSetInv
<1>6. CASE Used(s) BY <1>6, UsedInv
<1> QED BY <1>1, <1>2, <1>3, <1>4, <1>5, <1>6 DEF Lookup

\* Every step.
LEMMA NextInv ==
  ASSUME CacheInv, Risky = {}, ColInfoNext
  PROVE  CacheInv' /\ FreshStep
<1>1. CASE \E s \in Stmts : Lookup(s) BY <1>1, LookupInv
<1>2. CASE \E s \in Stmts : SC_initialize_cols_info(s) BY <1>2, InitializeInv
<1>3. CASE \E s \in Stmts : parse_statement(s) BY <1>3, ParseInv
<1>4. ASSUME NEW s \in Stmts, NEW q \in Queries, NEW p \in BOOLEAN, NEW t, Execute(s, q, p, t)
      PROVE  CacheInv' /\ FreshStep
  <2>1. CASE p = TRUE BY <1>4, <2>1, PreparedInv
  <2>2. CASE p = FALSE BY <1>4, <2>2, ExecuteInv
  <2> QED BY <2>1, <2>2
<1>5. CASE \E s \in Stmts, t \in Tables : SC_describe_ok(s, t) BY <1>5, DescribeInv
<1>6. ASSUME NEW t \in Tables, NEW v \in {0, changes + 2}, NEW b \in BOOLEAN, ChangeTable(t, v, b)
      PROVE  CacheInv' /\ FreshStep
  BY <1>6, ChangeInv
<1>7. CASE CC_cleanup BY <1>7, CleanupInv
<1> QED BY <1>1, <1>2, <1>3, <1>4, <1>5, <1>6, <1>7 DEF ColInfoNext

\* A stuttering step.
LEMMA StutterInv ==
  ASSUME CacheInv, UNCHANGED colInfoVars
  PROVE  CacheInv' /\ FreshStep
<1>1. /\ srv' = srv /\ changes' = changes /\ ent' = ent /\ arr' = arr /\ allocated' = allocated /\ ti' = ti /\ stm' = stm
  BY DEF colInfoVars
<1>2. InfoTypes' BY <1>1 DEF CacheInv, InfoTypes
<1>3. \A s \in Stmts : LookInv(s)' /\ ByOid(s)' BY <1>1 DEF CacheInv, LookInv, ByOid, Asks, Wti
<1>4. Good(ent, ti, arr, srv)' BY <1>1, CacheInvIs
<1>5. FreshStep BY <1>1 DEF FreshStep
<1> QED BY <1>2, <1>3, <1>4, <1>5 DEF CacheInv, Good

\* The invariant implies the two safety properties.
LEMMA InvOwn ==
  ASSUME CacheInv
  PROVE  OwnTable /\ NoneLost
<1>1. OwnTable
  <2> SUFFICES ASSUME NEW s \in Stmts, NEW i \in DOMAIN ti[s], ti[s][i].coli # 0
               PROVE  /\ ent[ti[s][i].coli].live /\ ent[ti[s][i].coli].table = ti[s][i].table
                      /\ ent[ti[s][i].coli].refcnt > 0
    BY DEF OwnTable
  <2>1. PICK e : e = ti[s][i].coli OBVIOUS
  <2>2. e \in Structs BY <2>1, CacheInvIs, ColiOf
  <2> QED BY <2>1, <2>2, CacheInvIs, GoodIs
<1>2. NoneLost BY CacheInvIs DEF NoneLost, Good, Outside, RefsOf, Refs
<1> QED BY <1>1, <1>2

\* The invariant of the cache: the reference counts of TI_Constructor, getCOLIfromTI and TI_Destructor are
\* exact, what left the cache is in use, and what is in the cache is up to date.
THEOREM CacheInvariant == ASSUME Risky = {} PROVE ColInfoSpec => []CacheInv
<1>1. ColInfoInit => CacheInv BY InitInv
<1>2. CacheInv /\ [ColInfoNext]_colInfoVars => CacheInv' BY NextInv, StutterInv
<1> QED BY <1>1, <1>2, PTL DEF ColInfoSpec

\* The types and bounds: no count exceeds the TABLE_INFOs of all statements, and the array has room.
THEOREM CacheTypes == ASSUME Risky = {} PROVE ColInfoSpec => []ColInfoTypeOK
<1>1. ASSUME CacheInv PROVE ColInfoTypeOK
  <2>1. \A e \in Structs : ent[e].refcnt \in 0 .. MaxTables * Cardinality(Stmts) /\ ent[e].acc_time \in 0 .. MaxTime
    <3> SUFFICES ASSUME NEW e \in Structs
                 PROVE  ent[e].refcnt \in 0 .. MaxTables * Cardinality(Stmts) /\ ent[e].acc_time \in 0 .. MaxTime
      OBVIOUS
    <3>1. PICK c \in Infos : c = ent[e] /\ c.refcnt = Cardinality(RefsOf(ti, e))
      BY <1>1, CacheInvIs, GoodIs
    <3>2. c.acc_time \in 0 .. MaxTime BY InfoFields
    <3>3. PICK m : m = MaxTables * Cardinality(Stmts) OBVIOUS
    <3>4. m \in Nat BY <3>3, NamesAssumption, SizeAssumption, FS_CardinalityType
    <3>5. Cardinality(RefsOf(ti, e)) \in Nat /\ Cardinality(RefsOf(ti, e)) <= m BY <3>3, RefsFinite
    <3> QED BY <3>1, <3>3, <3>4, <3>5, <3>2
  <2>2. \A i \in DOMAIN arr : ent[arr[i]].live BY <1>1, CacheInvIs DEF Good, Inside
  <2>3. \A s \in Stmts : Len(ti[s]) <= MaxTables /\ stm[s].k \in 0 .. Len(ti[s])
    BY <1>1, CacheInvIs, InfosOf
  <2> QED BY <1>1, <2>1, <2>2, <2>3, CacheInvIs DEF ColInfoTypeOK
<1> QED BY <1>1, CacheInvariant, PTL

\* A TABLE_INFO points to the description of its own table as long as it points there: getColumnsInfo
\* reuses no entry that is referenced, and CC_clear_col_info leaves those to their last reference.
THEOREM OwnTables == ASSUME Risky = {} PROVE ColInfoSpec => []OwnTable
<1>1. CacheInv => OwnTable BY InvOwn
<1> QED BY <1>1, CacheInvariant, PTL

\* Every definition that is kept is in the cache or in use by a statement: the last TI_Destructor frees
\* what CC_clear_col_info took out of the cache.
THEOREM NoEntryLost == ASSUME Risky = {} PROVE ColInfoSpec => []NoneLost
<1>1. CacheInv => NoneLost BY InvOwn
<1> QED BY <1>1, CacheInvariant, PTL

\* No statement gets a definition that a DROP or ALTER TABLE of the connection outdated.
THEOREM AlwaysFresh == ASSUME Risky = {} PROVE ColInfoSpec => Fresh
<1>1. CacheInv /\ [ColInfoNext]_colInfoVars => [FreshStep]_colInfoVars BY NextInv
<1> QED BY <1>1, CacheInvariant, PTL DEF ColInfoSpec, Fresh, FreshStep

--------------------
(* The lists of coordinators.                                              *)

\* What keeps the index arithmetic of get_location typed: nobody walks an empty
\* list, and the refresh thread never gets to rewrite the list with an empty one.
WalkNonEmpty ==
    /\ \A t \in Threads : pc[t] \in Walking \ {"get_location"} => list[cur[t]] # << >>
    /\ pc[Refresher] = "rewrite" => temp # << >>

\* The inductive invariant behind OnlyConfigured: types, bounds and WalkNonEmpty.
IInv == TypeOK /\ WalkNonEmpty /\ OnlyConfigured

\* The position get_location computes is a natural number when the list is not empty.
LEMMA ModNat ==
    ASSUME NEW i \in Nat, NEW s \in Nat, NEW n \in Nat \ {0}
    PROVE  ((i - 1 + s) % n) + 1 \in Nat
  OBVIOUS

USE ThreadAssumption, ListAssumption, NumberAssumption
USE DEF Threads

\* Every thread starts outside the driver and the tables are empty (76-106).
LEMMA InitI == Init => IInv
  <1>. SUFFICES ASSUME Init PROVE IInv  OBVIOUS
  <1>. USE DEF Init
  <1>1. TypeShared
    <2>1. inited \in BOOLEAN /\ precheck \in BOOLEAN /\ refreshFlag \in BOOLEAN BY Zenon
    <2>2. initWriter \in Threads \cup {NoThread} BY Zenon
    <2>. QED BY <2>1, <2>2 DEF TypeShared
  <1>2. TypeTables BY DEF TypeTables
  <1>3. TypeThreads BY DEF TypeThreads, PCs, Idle, Entries, Index
  <1>4. TypeRefresh BY DEF TypeRefresh
  <1>5. WalkNonEmpty BY DEF WalkNonEmpty, Walking
  <1>6. OnlyConfigured BY DEF OnlyConfigured
  <1>. QED BY <1>1, <1>2, <1>3, <1>4, <1>5, <1>6 DEF IInv, TypeOK

\* The handlers that touch the flags and init_lock set them to a flag or a thread.
LEMMA SharedStep ==
    ASSUME IInv, NEW t \in Threads, Step(t) PROVE TypeShared'
  <1>. USE DEF IInv, TypeOK, TypeShared, initVars
  <1>1. CASE LockInit(t) BY <1>1 DEF LockInit
  <1>2. CASE InitDone(t) BY <1>2 DEF InitDone
  <1>3. CASE SetPrecheck(t) BY <1>3 DEF SetPrecheck
  <1>4. CASE FetchRow(t) BY <1>4 DEF FetchRow
  <1>5. CASE AfterFetch(t) BY <1>5 DEF AfterFetch
  <1>6. CASE UNCHANGED <<initVars, refreshFlag>> BY <1>6
  <1>. QED
    BY <1>1, <1>2, <1>3, <1>4, <1>5, <1>6 DEF Step, StartConnect, Precheck, ReadInited, InitConn, WaitFlag,
      ConnectIP, CheckLock, CheckOne, CheckUnlock, ReadLock, PickStart, MarkWrong, StepLock, Advance,
      StepUnlock, Locate, GiveUp, DialOk, DialFail, FallBack, ExecOk, ExecFail, FetchEnd, RewriteList

\* The tables stay typed and within MAX_CN: the two places that fill them are
\* init_conn (from the DSN) and the rewrite (from IP_list_temp).
LEMMA TablesStep ==
    ASSUME IInv, NEW t \in Threads, Step(t) PROVE TypeTables'
  <1>. USE DEF IInv, TypeOK, TypeTables, tabVars
  <1>1. CASE InitConn(t) BY <1>1 DEF InitConn
  <1>2. CASE InitDone(t) BY <1>2 DEF InitDone, Entries
  <1>3. CASE CheckLock(t) BY <1>3 DEF CheckLock
  <1>4. CASE CheckOne(t)
    <2>1. \E v \in {"CORRECT", "WRONG"} :
              status' = [status EXCEPT ![cur[t]][idx[t]] = v]
      BY <1>4, Zenon DEF CheckOne
    <2>2. status' \in [Entries -> [Index -> {"EMPTY", "CORRECT", "WRONG"}]]
      <3>1. PICK v \in {"CORRECT", "WRONG"} :
                status' = [status EXCEPT ![cur[t]][idx[t]] = v]
        BY <2>1
      <3>2. cur[t] \in Entries BY DEF TypeThreads
      <3>3. [status[cur[t]] EXCEPT ![idx[t]] = v]
                \in [Index -> {"EMPTY", "CORRECT", "WRONG"}]
        BY <3>2
      <3>. QED BY <3>1, <3>2, <3>3
    <2>3. UNCHANGED <<list, step, readers, writer, stepHolder>> BY <1>4, Zenon DEF CheckOne
    <2>. QED BY <2>2, <2>3
  <1>5. CASE CheckUnlock(t) BY <1>5 DEF CheckUnlock
  <1>6. CASE ReadLock(t) BY <1>6 DEF ReadLock, TypeThreads
  <1>7. CASE StepLock(t) BY <1>7 DEF StepLock
  <1>8. CASE Advance(t)
    <2>. DEFINE e == cur[t]
    <2>1. e \in Entries /\ base[t] \in Index BY DEF TypeThreads
    <2>2. step[e][base[t]] \in 0..(StepMod - 1) BY <2>1
    <2>3. NextStep(step[e][base[t]]) \in 0..(StepMod - 1) BY <2>2 DEF NextStep
    <2>4. step' = [step EXCEPT ![e][base[t]] = NextStep(step[e][base[t]])] BY <1>8 DEF Advance
    <2>5. step' \in [Entries -> [Index -> 0..(StepMod - 1)]] BY <2>1, <2>3, <2>4
    <2>. QED BY <1>8, <2>5 DEF Advance
  <1>9. CASE StepUnlock(t) BY <1>9 DEF StepUnlock
  <1>10. CASE GiveUp(t) BY <1>10 DEF GiveUp, TypeThreads
  <1>11. CASE DialOk(t) BY <1>11 DEF DialOk, TypeThreads
  <1>12. CASE RewriteList(t) BY <1>12 DEF RewriteList, TypeRefresh, Entries
  <1>13. CASE UNCHANGED tabVars BY <1>13
  <1>. QED
    BY <1>1, <1>2, <1>3, <1>4, <1>5, <1>6, <1>7, <1>8, <1>9, <1>10, <1>11, <1>12, <1>13 DEF Step,
      StartConnect, Precheck, ReadInited, LockInit, SetPrecheck, WaitFlag, ConnectIP, PickStart, MarkWrong,
      Locate, DialFail, FallBack, ExecOk, ExecFail, FetchRow, FetchEnd, AfterFetch

\* The result set and IP_list_temp: a row is kept only while there is room.
LEMMA RefreshStep ==
    ASSUME IInv, NEW t \in Threads, Step(t) PROVE TypeRefresh'
  <1>. USE DEF IInv, TypeOK, TypeRefresh, refrVars
  <1>1. CASE ExecOk(t) BY <1>1 DEF ExecOk
  <1>2. CASE FetchRow(t)
    <2>1. rows # << >> /\ Head(rows) \in Nodes /\ Tail(rows) \in Seq(Nodes) BY <1>2 DEF FetchRow
    <2>2. CASE ~IsConfigured(Head(rows)) BY <1>2, <2>1, <2>2 DEF FetchRow
    <2>3. CASE IsConfigured(Head(rows)) /\ TempFull BY <1>2, <2>1, <2>3 DEF FetchRow
    <2>4. CASE IsConfigured(Head(rows)) /\ ~TempFull
      <3>1. temp' = Append(temp, Head(rows)) /\ rows' = Tail(rows) /\ fetchRc' = fetchRc
            /\ refreshCount' = refreshCount
        BY <1>2, <2>4 DEF FetchRow
      <3>2. Len(temp) < MaxCN BY <2>4 DEF TempFull
      <3>. QED BY <2>1, <3>1, <3>2
    <2>. QED BY <2>2, <2>3, <2>4
  <1>3. CASE FetchEnd(t) BY <1>3 DEF FetchEnd
  <1>4. CASE AfterFetch(t)
    <2>1. refreshCount' \in 0..(RefreshLimit + 1)
      <3>1. refreshCount' = IF refreshCount > RefreshLimit THEN refreshCount
                            ELSE refreshCount + 1
        BY <1>4, Zenon DEF AfterFetch
      <3>. QED BY <3>1
    <2>2. rows' = rows BY <1>4, Zenon DEF AfterFetch
    <2>3. \/ temp' = temp /\ fetchRc' = fetchRc
          \/ temp' = << >> /\ fetchRc' = "SUCCESS"
      BY <1>4, Zenon DEF AfterFetch
    <2>4. CASE temp' = temp /\ fetchRc' = fetchRc BY <2>1, <2>2, <2>4
    <2>5. CASE temp' = << >> /\ fetchRc' = "SUCCESS" BY <2>1, <2>2, <2>5
    <2>. QED BY <2>3, <2>4, <2>5
  <1>5. CASE RewriteList(t) BY <1>5 DEF RewriteList
  <1>6. CASE UNCHANGED refrVars BY <1>6
  <1>. QED
    BY <1>1, <1>2, <1>3, <1>4, <1>5, <1>6 DEF Step, StartConnect, Precheck, ReadInited, LockInit, InitConn,
      InitDone, SetPrecheck, WaitFlag, ConnectIP, CheckLock, CheckOne, CheckUnlock, ReadLock, PickStart,
      MarkWrong, StepLock, Advance, StepUnlock, Locate, GiveUp, DialOk, DialFail, FallBack, ExecFail
\* The locals of a walk stay numbers: get_location divides by ip_count only when
\* the list is not empty.
LEMMA ThreadsStep ==
    ASSUME IInv, NEW t \in Threads, Step(t) PROVE TypeThreads'
  <1>0. TypeThreads /\ t \in Threads BY DEF IInv, TypeOK
  <1>. USE <1>0 DEF TypeThreads, walkVars, Goto, LocalsGone, PCs, Idle, Walking, InInit,
                    RefreshPcs
  <1>1. CASE StartConnect(t) BY <1>1 DEF StartConnect
  <1>2. CASE InitConn(t) BY <1>2 DEF InitConn, Entries
  <1>3. CASE InitDone(t)
    <2>1. pc' \in [Threads -> PCs]
      <3>1. \/ pc' = [pc EXCEPT ![Refresher] = "idle", ![t] = "set_precheck"]
            \/ pc' = [pc EXCEPT ![t] = "failed"]
        BY <1>3, Zenon DEF InitDone
      <3>. QED BY <3>1
    <2>2. cur' = cur /\ conn' = conn BY <1>3 DEF InitDone
    <2>. QED BY <1>3, <2>1, <2>2 DEF InitDone, Index
  <1>4. CASE ConnectIP(t) BY <1>4 DEF ConnectIP, Entries
  <1>5. CASE CheckLock(t) BY <1>5 DEF CheckLock
  <1>6. CASE CheckOne(t)
    <2>1. idx' = [idx EXCEPT ![t] = idx[t] + 1] BY <1>6, Zenon DEF CheckOne
    <2>2. found' = [found EXCEPT ![t] = TRUE] \/ found' = found BY <1>6, Zenon DEF CheckOne
    <2>3. idx' \in [Threads -> Nat] BY <2>1
    <2>4. found' \in [Threads -> BOOLEAN] BY <2>2
    <2>5. UNCHANGED <<pc, cur, base, visited, count, conn>> BY <1>6, Zenon DEF CheckOne
    <2>. QED BY <2>3, <2>4, <2>5
  <1>7. CASE CheckUnlock(t) BY <1>7 DEF CheckUnlock
  <1>8. CASE ReadLock(t) BY <1>8 DEF ReadLock
  <1>9. CASE PickStart(t)
    <2>1. PICK i \in 1..Len(list[cur[t]]) :
              idx' = [idx EXCEPT ![t] = i] /\ base' = [base EXCEPT ![t] = i]
      BY <1>9 DEF PickStart, Starts
    <2>2. list[cur[t]] \in Seq(Nodes) /\ Len(list[cur[t]]) <= MaxCN BY DEF IInv, TypeOK, TypeTables
    <2>3. i \in Index /\ i \in Nat BY <2>2 DEF Index
    <2>. QED BY <1>9, <2>1, <2>3 DEF PickStart
  <1>10. CASE MarkWrong(t) BY <1>10 DEF MarkWrong
  <1>11. CASE Advance(t)
    <2>. DEFINE e == cur[t]  n == Len(list[e])  s == step[e][base[t]]
    <2>1. s \in Nat BY DEF IInv, TypeOK, TypeTables
    <2>2. n \in Nat \ {0}
      <3>1. list[e] \in Seq(Nodes) /\ list[e] # << >>
        BY <1>11 DEF Advance, IInv, TypeOK, TypeTables, WalkNonEmpty
      <3>. QED BY <3>1
    <2>. HIDE DEF e, n, s
    <2>3. idx[t] \in Nat  OBVIOUS
    <2>7. ((idx[t] - 1 + s) % n) + 1 \in Nat BY <2>1, <2>2, <2>3, ModNat
    <2>4. idx' = [idx EXCEPT ![t] = ((idx[t] - 1 + s) % n) + 1] BY <1>11 DEF Advance, e, n, s
    <2>5. idx' \in [Threads -> Nat] BY <2>7, <2>4
    <2>. QED BY <1>11, <2>5 DEF Advance
  <1>12. CASE Locate(t) BY <1>12 DEF Locate
  <1>13. CASE GiveUp(t) BY <1>13 DEF GiveUp, Index
  <1>14. CASE DialOk(t) BY <1>14 DEF DialOk, Entries, Index
  <1>15. CASE DialFail(t) BY <1>15 DEF DialFail
  <1>16. CASE FallBack(t)
    <2>1. pc' \in [Threads -> PCs] /\ cur' \in [Threads -> Entries] BY <1>16 DEF FallBack, Entries
    <2>. QED BY <1>16, <2>1 DEF FallBack, Index
  <1>17. CASE Precheck(t) \/ ReadInited(t) \/ LockInit(t) \/ SetPrecheck(t) \/ WaitFlag(t)
    BY <1>17 DEF Precheck, ReadInited, LockInit, SetPrecheck, WaitFlag
  <1>18. CASE StepLock(t) \/ StepUnlock(t)
    <2>1. \E l \in {"inner", "outer"} : pc' = [pc EXCEPT ![t] = l]
      BY <1>18, Zenon DEF StepLock, StepUnlock
    <2>2. UNCHANGED <<walkVars, conn>> BY <1>18, Zenon DEF StepLock, StepUnlock
    <2>. QED BY <2>1, <2>2
  <1>19. CASE ExecOk(t) \/ ExecFail(t) \/ FetchEnd(t) \/ RewriteList(t)
    BY <1>19 DEF ExecOk, ExecFail, FetchEnd, RewriteList
  <1>20. CASE FetchRow(t)
    <2>1. pc' = pc \/ pc' = [pc EXCEPT ![t] = "after_fetch"] BY <1>20, Zenon DEF FetchRow
    <2>2. UNCHANGED <<walkVars, conn>> BY <1>20, Zenon DEF FetchRow
    <2>. QED BY <2>1, <2>2
  <1>21. CASE AfterFetch(t)
    <2>1. \E l \in {"rewrite", "idle"} : pc' = [pc EXCEPT ![t] = l] BY <1>21, Zenon DEF AfterFetch
    <2>2. UNCHANGED <<walkVars, conn>> BY <1>21, Zenon DEF AfterFetch
    <2>. QED BY <2>1, <2>2
  <1>. QED BY <1>1, <1>2, <1>3, <1>4, <1>5, <1>6, <1>7, <1>8, <1>9, <1>10, <1>11, <1>12, <1>13,
       <1>14, <1>15, <1>16, <1>17, <1>18, <1>19, <1>20, <1>21
    DEF Step

\* A step keeps walkers off empty lists: the list a walker uses only changes to
\* the DSN's list or to a list of at least one row (237: count != 0).
LEMMA WalkStep ==
    ASSUME IInv, NEW t \in Threads, Step(t) PROVE WalkNonEmpty'
  <1>. USE DEF IInv, TypeOK, TypeThreads, TypeTables, TypeRefresh, WalkNonEmpty, tabVars,
               walkVars, refrVars, Goto, Walking
  <1>1. CASE InitConn(t) BY <1>1 DEF InitConn
  <1>2. CASE InitDone(t)
    <2>1. list' = list /\ cur' = cur /\ temp' = temp BY <1>2 DEF InitDone
    <2>2. \A u \in Threads : pc'[u] = pc[u] \/ pc'[u] \in {"idle", "set_precheck", "failed"}
      BY <1>2 DEF InitDone
    <2>. QED BY <2>1, <2>2
  <1>3. CASE ConnectIP(t) BY <1>3 DEF ConnectIP
  <1>4. CASE PickStart(t) BY <1>4 DEF PickStart, Starts
  <1>5. CASE DialOk(t) BY <1>5 DEF DialOk
  <1>6. CASE FallBack(t)
    <2>1. list' = list /\ temp' = temp BY <1>6 DEF FallBack
    <2>4. \E l \in {"chk_lock", "idle", "failed"} : pc' = [pc EXCEPT ![t] = l] BY <1>6, Zenon DEF FallBack
    <2>2. pc'[t] \notin Walking \cup {"rewrite"} /\ \A u \in Threads \ {t} : pc'[u] = pc[u] BY <2>4
    <2>3. \A u \in Threads \ {t} : cur'[u] = cur[u] BY <1>6 DEF FallBack
    <2>. QED BY <2>1, <2>2, <2>3
  <1>7. CASE FetchRow(t) BY <1>7 DEF FetchRow
  <1>8. CASE AfterFetch(t) BY <1>8 DEF AfterFetch
  <1>9. CASE RewriteList(t) BY <1>9 DEF RewriteList
  <1>10. CASE StartConnect(t) BY <1>10 DEF StartConnect
  <1>11. CASE Precheck(t) \/ ReadInited(t) \/ LockInit(t) \/ SetPrecheck(t) \/ WaitFlag(t)
    <2>1. list' = list /\ cur' = cur /\ temp' = temp
      BY <1>11 DEF Precheck, ReadInited, LockInit, SetPrecheck, WaitFlag
    <2>3. \E l \in {"rd_init", "wait_flag", "wr_init", "set_precheck", "init", "connect_IP"} :
              pc' = [pc EXCEPT ![t] = l]
      BY <1>11, Zenon DEF Precheck, ReadInited, LockInit, SetPrecheck, WaitFlag
    <2>2. pc'[t] \notin Walking \cup {"rewrite"} /\ \A u \in Threads \ {t} : pc'[u] = pc[u] BY <2>3
    <2>. QED BY <2>1, <2>2
  <1>12. CASE CheckLock(t) \/ CheckOne(t) \/ ReadLock(t) BY <1>12 DEF CheckLock, CheckOne, ReadLock
  <1>13. CASE MarkWrong(t) \/ StepLock(t) \/ Advance(t) \/ StepUnlock(t) \/ Locate(t)
    BY <1>13 DEF MarkWrong, StepLock, Advance, StepUnlock, Locate
  <1>14. CASE GiveUp(t) \/ DialFail(t) BY <1>14 DEF GiveUp, DialFail
  <1>15. CASE ExecOk(t) \/ ExecFail(t) \/ FetchEnd(t) BY <1>15 DEF ExecOk, ExecFail, FetchEnd
  <1>16. CASE CheckUnlock(t)
    <2>1. pc'[t] \notin Walking /\ \A u \in Threads \ {t} : pc'[u] = pc[u] BY <1>16 DEF CheckUnlock
    <2>2. list' = list /\ cur' = cur /\ temp' = temp BY <1>16 DEF CheckUnlock
    <2>3. pc'[t] # "rewrite" BY <1>16 DEF CheckUnlock
    <2>. QED BY <2>1, <2>2, <2>3
  <1>. QED BY <1>1, <1>2, <1>3, <1>4, <1>5, <1>6, <1>7, <1>8, <1>9, <1>10, <1>11, <1>12, <1>13,
       <1>14, <1>15, <1>16
    DEF Step

\* A step keeps unknown nodes out: init_conn copies the DSN, FetchRow keeps a row
\* only when cn_entry_contains finds it, the rewrite copies what was kept.
LEMMA ConfiguredStep ==
    ASSUME IInv, NEW t \in Threads, Step(t) PROVE OnlyConfigured'
  <1>. USE DEF IInv, TypeOK, TypeTables, TypeRefresh, OnlyConfigured, tabVars, refrVars
  <1>1. CASE InitConn(t) BY <1>1 DEF InitConn, Configured, refrVars
  <1>2. CASE FetchRow(t)
    <2>1. list' = list /\ rows # << >> BY <1>2 DEF FetchRow
    <2>2. CASE temp' = temp BY <2>1, <2>2
    <2>3. CASE temp' = Append(temp, Head(rows)) /\ IsConfigured(Head(rows))
      <3>1. Head(rows) \in Configured BY <2>3 DEF IsConfigured, Entries
      <3>2. \A k \in 1..Len(temp') : temp'[k] \in Configured BY <2>1, <2>3, <3>1
      <3>. QED BY <2>1, <3>2
    <2>. QED BY <1>2, <2>2, <2>3 DEF FetchRow
  <1>3. CASE RewriteList(t) BY <1>3 DEF RewriteList
  <1>4. CASE ExecOk(t) \/ AfterFetch(t)
    <2>1. list' = list /\ temp' \in {temp, << >>} BY <1>4, Zenon DEF ExecOk, AfterFetch
    <2>. QED BY <2>1
  <1>5. CASE UNCHANGED <<list, temp>> BY <1>5
  <1>. QED
    BY <1>1, <1>2, <1>3, <1>4, <1>5 DEF Step, StartConnect, Precheck, ReadInited, LockInit, InitDone,
      SetPrecheck, WaitFlag, ConnectIP, CheckLock, CheckOne, CheckUnlock, ReadLock, PickStart, MarkWrong,
      StepLock, Advance, StepUnlock, Locate, GiveUp, DialOk, DialFail, FallBack, ExecFail, FetchEnd

\* IInv is inductive: a thread's step or a stutter.
LEMMA NextI == IInv /\ [Next]_vars => IInv'
  <1>. SUFFICES ASSUME IInv, [Next]_vars PROVE IInv'  OBVIOUS
  <1>1. CASE \E t \in Threads : Step(t)
    BY <1>1, SharedStep, TablesStep, ThreadsStep, RefreshStep, WalkStep, ConfiguredStep DEF IInv, TypeOK
  <1>2. CASE UNCHANGED vars
    BY <1>2 DEF IInv, TypeOK, TypeShared, TypeTables, TypeThreads, TypeRefresh, WalkNonEmpty,
      OnlyConfigured, vars, initVars, tabVars, walkVars, refrVars
  <1>. QED BY <1>1, <1>2 DEF Next

\* Type correctness and the array bounds: no table and no row buffer of the
\* refresh thread ever holds more than MAX_CN coordinators (218, 365).
THEOREM TypeCorrect == Spec => []TypeOK
  <1>1. IInv => TypeOK BY DEF IInv
  <1>. QED BY InitI, NextI, <1>1, PTL DEF Spec

\* Whatever rows the servers answer, only nodes named in the DSN are probed or
\* dialled (cn_entry_contains, 113-129).
THEOREM ConfiguredOnly == Spec => []OnlyConfigured
  <1>1. IInv => OnlyConfigured BY DEF IInv
  <1>. QED BY InitI, NextI, <1>1, PTL DEF Spec

(* The lock discipline. *)

\* init_lock belongs to the thread that runs init_conn; whoever is past the wait
\* for the initialisation has seen it done.
InitLock ==
    /\ precheck => inited
    /\ inited => initWriter = NoThread
    /\ \A t \in Threads :
          /\ initWriter = t => pc[t] \in {"init", "chk_lock", "check", "init_done"}
          /\ pc[t] \in InInit => initWriter = t
          /\ pc[t] \in {"set_precheck", "wait_flag", "connect_IP"} => inited

\* Probing holds the write lock of its entry, walking the read lock, and the write
\* lock excludes the read lock.
TableLocks ==
    /\ \A t \in Threads :
          /\ pc[t] = "check" => writer[cur[t]] = t
          /\ pc[t] \in Walking => t \in readers[cur[t]]
    /\ \A e \in Entries : writer[e] # NoThread => readers[e] = {}

\* The inductive invariant: the types are IInv.
LInv == IInv /\ InitLock /\ InitBeforeUse /\ TableLocks /\ VisitedExact


\* Nobody is inside the driver at the start.
LEMMA InitL == Init => LInv
  <1>. SUFFICES ASSUME Init PROVE LInv  OBVIOUS
  <1>1. IInv BY InitI
  <1>2. \A t \in Threads : pc[t] \in {"off", "idle"} BY DEF Init
  <1>3. InitLock /\ InitBeforeUse /\ TableLocks /\ VisitedExact
    BY <1>2 DEF Init, InitLock, InitBeforeUse, TableLocks, VisitedExact, Walking, InInit, RefreshPcs
  <1>. QED BY <1>1, <1>3 DEF LInv

\* init_conn runs while nobody else is past the initialisation: no thread probes or
\* walks, because each of them has seen conn_inited or holds init_lock (552-566).
LEMMA AloneInInit ==
    ASSUME LInv, NEW t \in Threads, pc[t] \in InInit
    PROVE  /\ ~inited /\ initWriter = t
           /\ \A u \in Threads : pc[u] \notin Walking /\ (u # t => pc[u] # "check")
  BY DEF LInv, InitLock, InitBeforeUse, InInit, Walking, IInv, TypeOK, TypeShared

\* A step keeps init_lock with the thread that runs init_conn: check_and_init takes
\* it only for that, and gives it up at the end of init_conn, done or failed.
LEMMA InitLockStep ==
    ASSUME LInv, NEW t \in Threads, Step(t) PROVE InitLock' /\ InitBeforeUse'
  <1>0. /\ pc \in [Threads -> PCs] /\ inited \in BOOLEAN /\ t \in Threads
        /\ initWriter \in Threads \cup {NoThread}
        /\ InitLock /\ InitBeforeUse
    BY DEF LInv, IInv, TypeOK, TypeShared, TypeThreads
  <1>. USE <1>0 DEF InitLock, InitBeforeUse, Goto, initVars, Walking, InInit, RefreshPcs
  <1>1. CASE StartConnect(t) \/ Precheck(t) \/ ReadInited(t)
    BY <1>1 DEF StartConnect, Precheck, ReadInited
  <1>2. CASE LockInit(t) BY <1>2 DEF LockInit
  <1>3. CASE InitConn(t) BY <1>3 DEF InitConn
  <1>4. CASE InitDone(t)
    <2>1. ~inited /\ initWriter = t /\ initWriter' = NoThread /\ precheck' = precheck
      BY <1>4, AloneInInit DEF InitDone
    <2>2. \A u \in Threads \ {t} : pc[u] \notin
              {"chk_lock", "check", "rd_list", "fall_back", "connected", "set_precheck",
               "wait_flag", "connect_IP"} \cup Walking \cup RefreshPcs \cup InInit
      BY <2>1
    <2>3. \A u \in Threads \ {t} : pc'[u] = pc[u] \/ pc'[u] = "idle" BY <1>4 DEF InitDone
    <2>4. pc'[t] = "failed" \/ (pc'[t] = "set_precheck" /\ inited') BY <1>4 DEF InitDone
    <2>. QED BY <2>1, <2>2, <2>3, <2>4
  <1>5. CASE SetPrecheck(t) \/ WaitFlag(t) \/ ConnectIP(t) BY <1>5 DEF SetPrecheck, WaitFlag, ConnectIP
  <1>6. CASE CheckLock(t) \/ CheckOne(t)
    <2>1. UNCHANGED initVars /\ pc[t] \in {"chk_lock", "check"} BY <1>6 DEF CheckLock, CheckOne
    <2>2. pc'[t] = "check" /\ \A u \in Threads \ {t} : pc'[u] = pc[u] BY <1>6 DEF CheckLock, CheckOne
    <2>. QED BY <2>1, <2>2
  <1>7. CASE CheckUnlock(t) BY <1>7 DEF CheckUnlock
  <1>8. CASE ReadLock(t) \/ PickStart(t) \/ MarkWrong(t) \/ StepLock(t)
    BY <1>8 DEF ReadLock, PickStart, MarkWrong, StepLock
  <1>9. CASE Advance(t) \/ StepUnlock(t) \/ Locate(t) \/ GiveUp(t)
    BY <1>9 DEF Advance, StepUnlock, Locate, GiveUp
  <1>10. CASE DialOk(t) \/ DialFail(t) BY <1>10 DEF DialOk, DialFail
  <1>11. CASE FallBack(t)
    <2>1. UNCHANGED initVars /\ pc[t] = "fall_back" BY <1>11 DEF FallBack
    <2>2. inited BY <2>1
    <2>3. \E l \in {"chk_lock", "idle", "failed"} : pc' = [pc EXCEPT ![t] = l]
      BY <1>11, Zenon DEF FallBack
    <2>. QED BY <2>1, <2>2, <2>3
  <1>12. CASE ExecOk(t) \/ ExecFail(t) \/ FetchEnd(t) BY <1>12 DEF ExecOk, ExecFail, FetchEnd
  <1>13. CASE FetchRow(t) \/ AfterFetch(t) \/ RewriteList(t)
    BY <1>13 DEF FetchRow, AfterFetch, RewriteList
  <1>. QED
    BY <1>1, <1>2, <1>3, <1>4, <1>5, <1>6, <1>7, <1>8, <1>9, <1>10, <1>11, <1>12, <1>13 DEF Step

\* A step keeps the read-write locks with those who probe and walk.  init_conn wipes
\* them, when AloneInInit says that nobody has one.
LEMMA TableLocksStep ==
    ASSUME LInv, NEW t \in Threads, Step(t) PROVE TableLocks'
  <1>0. /\ pc \in [Threads -> PCs] /\ cur \in [Threads -> Entries] /\ t \in Threads
        /\ readers \in [Entries -> SUBSET Threads]
        /\ writer \in [Entries -> Threads \cup {NoThread}]
        /\ TableLocks
    BY DEF LInv, IInv, TypeOK, TypeTables, TypeThreads
  <1>. USE <1>0 DEF TableLocks, Goto, tabVars, walkVars, Walking
  <1>1. CASE StartConnect(t) \/ Precheck(t) \/ ReadInited(t) \/ LockInit(t)
    BY <1>1 DEF StartConnect, Precheck, ReadInited, LockInit
  <1>2. CASE InitConn(t)
    <2>1. \A u \in Threads : pc'[u] \notin Walking \cup {"check"}
      BY <1>2, AloneInInit DEF InitConn, InInit
    <2>2. \A e \in Entries : writer'[e] = NoThread BY <1>2 DEF InitConn
    <2>. QED BY <2>1, <2>2
  <1>3. CASE InitDone(t)
    <2>1. \A u \in Threads : pc[u] \notin Walking \cup {"check"} BY <1>3, AloneInInit DEF InitDone, InInit
    <2>2. \/ pc' = [pc EXCEPT ![Refresher] = "idle", ![t] = "set_precheck"]
          \/ pc' = [pc EXCEPT ![t] = "failed"]
      BY <1>3, Zenon DEF InitDone
    <2>3. \A u \in Threads : pc'[u] \notin Walking \cup {"check"} BY <2>1, <2>2
    <2>4. UNCHANGED <<readers, writer>> BY <1>3 DEF InitDone
    <2>. QED BY <2>3, <2>4
  <1>4. CASE SetPrecheck(t) \/ WaitFlag(t) BY <1>4 DEF SetPrecheck, WaitFlag
  <1>16. CASE ConnectIP(t) BY <1>16 DEF ConnectIP
  <1>5. CASE CheckLock(t) BY <1>5 DEF CheckLock, CanWrite
  <1>6. CASE CheckOne(t)
    <2>1. UNCHANGED <<pc, cur, readers, writer>> BY <1>6, Zenon DEF CheckOne
    <2>. QED BY <2>1
  <1>7. CASE CheckUnlock(t) BY <1>7 DEF CheckUnlock
  <1>8. CASE ReadLock(t) BY <1>8 DEF ReadLock
  <1>9. CASE PickStart(t) BY <1>9 DEF PickStart
  <1>17. CASE MarkWrong(t) \/ StepLock(t) BY <1>17 DEF MarkWrong, StepLock
  <1>10. CASE Advance(t) \/ StepUnlock(t) \/ Locate(t) \/ DialFail(t)
    BY <1>10 DEF Advance, StepUnlock, Locate, DialFail
  <1>11. CASE GiveUp(t) BY <1>11 DEF GiveUp
  <1>12. CASE DialOk(t) BY <1>12 DEF DialOk
  <1>13. CASE FallBack(t)
    <2>1. UNCHANGED <<readers, writer>> /\ \A u \in Threads \ {t} : cur'[u] = cur[u] BY <1>13 DEF FallBack
    <2>2. \E l \in {"chk_lock", "idle", "failed"} : pc' = [pc EXCEPT ![t] = l]
      BY <1>13, Zenon DEF FallBack
    <2>. QED BY <2>1, <2>2
  <1>14. CASE ExecOk(t) \/ ExecFail(t) \/ FetchEnd(t) BY <1>14 DEF ExecOk, ExecFail, FetchEnd
  <1>15. CASE FetchRow(t) \/ AfterFetch(t) \/ RewriteList(t)
    BY <1>15 DEF FetchRow, AfterFetch, RewriteList
  <1>. QED BY <1>1, <1>2, <1>3, <1>4, <1>5, <1>6, <1>7, <1>8, <1>9, <1>10, <1>11, <1>12, <1>13,
       <1>14, <1>15, <1>16, <1>17
    DEF Step

\* A thread that walks keeps the read lock, so a step of another thread leaves the
\* nodes and the statuses of the list it walks alone: probing and rewriting need
\* the write lock, and init_conn has the tables to itself (237-296, 446-471).
LEMMA StableStep ==
    ASSUME LInv, NEW t \in Threads, Step(t),
           NEW u \in Threads, pc[u] \in Walking
    PROVE  list'[cur[u]] = list[cur[u]] /\ status'[cur[u]] = status[cur[u]]
  <1>. DEFINE e == cur[u]
  <1>1. /\ e \in Entries /\ readers[e] # {} /\ writer[e] = NoThread
    <2>1. e \in Entries BY DEF LInv, IInv, TypeOK, TypeThreads
    <2>2. u \in readers[e] BY DEF LInv, TableLocks
    <2>. QED BY <2>1, <2>2 DEF LInv, TableLocks
  <1>2. inited \/ pc[t] \notin InInit BY AloneInInit
  <1>. USE DEF LInv, IInv, TypeOK, TypeTables, TypeThreads, tabVars, Entries, InInit
  <1>3. CASE InitConn(t)
    <2>1. pc[t] \in InInit BY <1>3 DEF InitConn
    <2>. QED BY <2>1, AloneInInit
  <1>4. CASE InitDone(t)
    <2>1. pc[t] \in InInit BY <1>4 DEF InitDone
    <2>. QED BY <2>1, AloneInInit
  <1>5. CASE CheckOne(t)
    <2>1. pc[t] = "check" /\ list' = list BY <1>5, Zenon DEF CheckOne
    <2>2. cur[t] # e BY <1>1, <2>1 DEF TableLocks
    <2>3. \E v \in {"CORRECT", "WRONG"} :
              status' = [status EXCEPT ![cur[t]][idx[t]] = v]
      BY <1>5, Zenon DEF CheckOne
    <2>. QED BY <2>1, <2>2, <2>3, <1>1
  <1>6. CASE RewriteList(t) BY <1>1, <1>6 DEF RewriteList, CanWrite
  <1>7. CASE UNCHANGED <<list, status>> BY <1>7
  <1>. QED
    BY <1>3, <1>4, <1>5, <1>6, <1>7 DEF Step, StartConnect, Precheck, ReadInited, LockInit, SetPrecheck,
      WaitFlag, ConnectIP, CheckLock, CheckUnlock, ReadLock, PickStart, MarkWrong, StepLock, Advance,
      StepUnlock, Locate, GiveUp, DialOk, DialFail, FallBack, ExecOk, ExecFail, FetchRow, FetchEnd,
      AfterFetch

\* A set of positions of a list is finite.
LEMMA SubsetFinite ==
    ASSUME NEW n \in Nat, NEW S \in SUBSET (1..n) PROVE IsFiniteSet(S)
  <1>1. IsFiniteSet(1..n) BY FS_Interval
  <1>. QED BY <1>1, FS_Subset

\* The position that get_location computes is one of the list's.
LEMMA ModIndex ==
    ASSUME NEW i \in Nat, NEW s \in Nat, NEW n \in Nat \ {0}
    PROVE  ((i - 1 + s) % n) + 1 \in 1..n
  OBVIOUS

\* What VisitedExact says of one thread.
WalkExact(t) ==
    pc[t] \in Walking =>
       /\ count[t] = Cardinality(visited[t])
       /\ visited[t] \subseteq 1..Len(list[cur[t]])
       /\ pc[t] # "get_location" => idx[t] \in 1..Len(list[cur[t]])

\* A step of another thread does not disturb a walk.
LEMMA OthersWalk ==
    ASSUME LInv, NEW t \in Threads, Step(t), NEW u \in Threads, u # t
    PROVE  WalkExact(u)'
  <1>. USE DEF LInv, IInv, TypeOK, TypeThreads, walkVars, Goto, LocalsGone
  <1>1. /\ cur'[u] = cur[u] /\ idx'[u] = idx[u]
        /\ visited'[u] = visited[u] /\ count'[u] = count[u]
        /\ pc'[u] = pc[u] \/ pc'[u] = "idle"
    <2>1. CASE StartConnect(t) \/ Precheck(t) \/ ReadInited(t) \/ LockInit(t) \/ InitConn(t)
      BY <2>1 DEF StartConnect, Precheck, ReadInited, LockInit, InitConn
    <2>2. CASE InitDone(t)
      <3>1. \/ pc' = [pc EXCEPT ![Refresher] = "idle", ![t] = "set_precheck"]
            \/ pc' = [pc EXCEPT ![t] = "failed"]
        BY <2>2, Zenon DEF InitDone
      <3>. QED BY <2>2, <3>1 DEF InitDone
    <2>3. CASE SetPrecheck(t) \/ WaitFlag(t) BY <2>3 DEF SetPrecheck, WaitFlag
    <2>4. CASE ConnectIP(t) BY <2>4 DEF ConnectIP
    <2>5. CASE CheckLock(t) \/ CheckUnlock(t) \/ ReadLock(t) BY <2>5 DEF CheckLock, CheckUnlock, ReadLock
    <2>6. CASE CheckOne(t)
      <3>1. idx' = [idx EXCEPT ![t] = idx[t] + 1] /\ UNCHANGED <<pc, cur, visited, count>>
        BY <2>6, Zenon DEF CheckOne
      <3>. QED BY <3>1
    <2>7. CASE PickStart(t) BY <2>7 DEF PickStart
    <2>8. CASE MarkWrong(t) \/ StepLock(t) \/ StepUnlock(t) \/ Locate(t)
      BY <2>8 DEF MarkWrong, StepLock, StepUnlock, Locate
    <2>9. CASE Advance(t) BY <2>9 DEF Advance
    <2>10. CASE GiveUp(t) \/ DialOk(t) \/ DialFail(t) BY <2>10 DEF GiveUp, DialOk, DialFail
    <2>11. CASE FallBack(t)
      <3>1. \E l \in {"chk_lock", "idle", "failed"} : pc' = [pc EXCEPT ![t] = l]
        BY <2>11, Zenon DEF FallBack
      <3>. QED BY <2>11, <3>1 DEF FallBack
    <2>12. CASE ExecOk(t) \/ ExecFail(t) \/ FetchEnd(t) BY <2>12 DEF ExecOk, ExecFail, FetchEnd
    <2>13. CASE FetchRow(t) \/ AfterFetch(t) \/ RewriteList(t)
      BY <2>13 DEF FetchRow, AfterFetch, RewriteList
    <2>. QED
      BY <2>1, <2>2, <2>3, <2>4, <2>5, <2>6, <2>7, <2>8, <2>9, <2>10, <2>11, <2>12, <2>13 DEF Step
  <1>2. SUFFICES ASSUME pc'[u] \in Walking PROVE WalkExact(u)' BY DEF WalkExact
  <1>3. pc'[u] = pc[u] BY <1>1, <1>2 DEF Walking
  <1>4. list'[cur[u]] = list[cur[u]] BY <1>2, <1>3, StableStep
  <1>5. WalkExact(u) BY DEF VisitedExact, WalkExact
  <1>. QED BY <1>1, <1>2, <1>3, <1>4, <1>5 DEF WalkExact

\* A step of the walking thread itself: a position is counted when its bit is set
\* for the first time, and the next position is again one of the list's (446-471).
LEMMA OwnWalk ==
    ASSUME LInv, NEW t \in Threads, Step(t)
    PROVE  WalkExact(t)'
  <1>. DEFINE e == cur[t]  n == Len(list[e])
  <1>. USE DEF LInv, IInv, TypeOK, TypeThreads, TypeTables, walkVars, tabVars, Goto, Walking
  <1>1. e \in Entries /\ n \in Nat  OBVIOUS
  <1>2. WalkExact(t) BY DEF VisitedExact, WalkExact
  <1>3. CASE ReadLock(t)
    <2>1. pc'[t] = "get_location" /\ visited'[t] = {} /\ count'[t] = 0 BY <1>3 DEF ReadLock
    <2>. QED BY <2>1, FS_EmptySet DEF WalkExact
  <1>4. CASE PickStart(t)
    <2>1. PICK i \in 1..n : idx' = [idx EXCEPT ![t] = i] BY <1>4 DEF PickStart, Starts
    <2>2. UNCHANGED <<list, cur, visited, count>> /\ pc[t] = "get_location" BY <1>4 DEF PickStart
    <2>. QED BY <1>2, <2>1, <2>2 DEF WalkExact
  <1>5. CASE MarkWrong(t) \/ Locate(t)
    <2>1. /\ pc[t] = "outer" /\ UNCHANGED <<list, cur, idx>>
          /\ visited'[t] = visited[t] \cup {idx[t]}
          /\ count'[t] = IF idx[t] \in visited[t] THEN count[t] ELSE count[t] + 1
      BY <1>5 DEF MarkWrong, Locate
    <2>2. /\ visited[t] \in SUBSET (1..n) /\ idx[t] \in 1..n
          /\ count[t] = Cardinality(visited[t])
      BY <1>2, <2>1 DEF WalkExact
    <2>3. list'[cur'[t]] = list[e] /\ idx'[t] = idx[t] BY <2>1
    <2>. DEFINE S == visited[t]  i == idx[t]
    <2>4. S \in SUBSET (1..n) /\ i \in 1..n /\ n \in Nat BY <1>1, <2>2
    <2>. HIDE DEF S, i, n
    <2>5. /\ S \cup {i} \subseteq 1..n
          /\ Cardinality(S \cup {i}) = IF i \in S THEN Cardinality(S) ELSE Cardinality(S) + 1
      <3>1. S \cup {i} \subseteq 1..n BY <2>4
      <3>2. IsFiniteSet(S) BY <2>4, SubsetFinite
      <3>. QED BY <3>1, <3>2, FS_AddElement
    <2>6. visited'[t] = S \cup {i} /\ idx'[t] = i /\ count[t] = Cardinality(S)
          /\ count'[t] = IF i \in S THEN count[t] ELSE count[t] + 1
      BY <2>1, <2>2, <2>3 DEF S, i
    <2>7. /\ visited'[t] \subseteq 1..n /\ idx'[t] \in 1..n
          /\ count'[t] = Cardinality(visited'[t])
      BY <2>4, <2>5, <2>6
    <2>. QED BY <2>3, <2>7 DEF WalkExact, n
  <1>6. CASE StepLock(t) \/ StepUnlock(t) BY <1>2, <1>6 DEF StepLock, StepUnlock, WalkExact
  <1>7. CASE Advance(t)
    <2>. DEFINE s == step[e][base[t]]
    <2>1. s \in Nat  OBVIOUS
    <2>2. pc[t] = "inner" /\ UNCHANGED <<list, pc, cur, visited, count>> BY <1>7 DEF Advance
    <2>3. idx' = [idx EXCEPT ![t] = ((idx[t] - 1 + s) % n) + 1] BY <1>7 DEF Advance
    <2>4. idx[t] \in Nat /\ n \in Nat \ {0} BY <1>1, <1>2, <2>2 DEF WalkExact
    <2>. HIDE DEF n, s
    <2>5. ((idx[t] - 1 + s) % n) + 1 \in 1..n BY <2>1, <2>4, ModIndex
    <2>6. idx'[t] \in 1..n BY <2>3, <2>5
    <2>. QED BY <1>2, <2>2, <2>6 DEF WalkExact, n
  <1>8. CASE DialFail(t) BY <1>2, <1>8 DEF DialFail, WalkExact
  <1>9. CASE pc'[t] \notin Walking BY <1>9 DEF WalkExact
  <1>10. CASE InitDone(t)
    <2>1. \/ pc' = [pc EXCEPT ![Refresher] = "idle", ![t] = "set_precheck"]
          \/ pc' = [pc EXCEPT ![t] = "failed"]
      BY <1>10, Zenon DEF InitDone
    <2>. QED BY <1>9, <2>1
  <1>11. CASE FallBack(t)
    <2>1. \E l \in {"chk_lock", "idle", "failed"} : pc' = [pc EXCEPT ![t] = l]
      BY <1>11, Zenon DEF FallBack
    <2>. QED BY <1>9, <2>1
  <1>12. CASE CheckOne(t)
    <2>1. pc' = pc /\ pc[t] = "check" BY <1>12, Zenon DEF CheckOne
    <2>. QED BY <1>9, <2>1
  <1>13. CASE StartConnect(t) \/ Precheck(t) \/ ReadInited(t) \/ LockInit(t) \/ InitConn(t)
    BY <1>9, <1>13 DEF StartConnect, Precheck, ReadInited, LockInit, InitConn
  <1>14. CASE SetPrecheck(t) \/ WaitFlag(t) BY <1>9, <1>14 DEF SetPrecheck, WaitFlag
  <1>18. CASE ConnectIP(t) \/ CheckLock(t) BY <1>9, <1>18 DEF ConnectIP, CheckLock
  <1>19. CASE CheckUnlock(t) BY <1>9, <1>19 DEF CheckUnlock
  <1>15. CASE GiveUp(t) \/ DialOk(t) BY <1>9, <1>15 DEF GiveUp, DialOk
  <1>16. CASE ExecOk(t) \/ ExecFail(t) \/ FetchEnd(t) BY <1>9, <1>16 DEF ExecOk, ExecFail, FetchEnd
  <1>17. CASE FetchRow(t) \/ AfterFetch(t) \/ RewriteList(t)
    BY <1>9, <1>17 DEF FetchRow, AfterFetch, RewriteList
  <1>. QED BY <1>3, <1>4, <1>5, <1>6, <1>7, <1>8, <1>10, <1>11, <1>12, <1>13, <1>14, <1>15,
       <1>16, <1>17, <1>18, <1>19
    DEF Step

\* LInv is inductive.
LEMMA NextL == LInv /\ [Next]_vars => LInv'
  <1>. SUFFICES ASSUME LInv, [Next]_vars PROVE LInv'  OBVIOUS
  <1>1. IInv' BY NextI DEF LInv
  <1>2. CASE \E t \in Threads : Step(t)
    <2>1. PICK t \in Threads : Step(t) BY <1>2
    <2>2. \A u \in Threads : WalkExact(u)' BY <2>1, OthersWalk, OwnWalk
    <2>3. VisitedExact' BY <2>2 DEF VisitedExact, WalkExact
    <2>. QED BY <1>1, <2>1, <2>3, InitLockStep, TableLocksStep DEF LInv
  <1>3. CASE UNCHANGED vars
    BY <1>1, <1>3 DEF LInv, InitLock, InitBeforeUse, TableLocks, VisitedExact, vars, initVars, tabVars,
      walkVars
  <1>. QED BY <1>2, <1>3 DEF Next

\* Nobody reads the tables before init_conn is done, but the one thread that runs it
\* (check_and_init, 536-571).
THEOREM InitFirst == Spec => []InitBeforeUse
  <1>1. LInv => InitBeforeUse BY DEF LInv
  <1>. QED BY InitL, NextL, <1>1, PTL DEF Spec

\* visited_count is the number of positions marked in visited[], and the position at
\* hand is one of the list's, whatever the refresh thread does (get_location, 446-471).
THEOREM WalkCounts == Spec => []VisitedExact
  <1>1. LInv => VisitedExact BY DEF LInv
  <1>. QED BY InitL, NextL, <1>1, PTL DEF Spec

\* What a walking thread reads is one list: nobody changes it until the read lock is
\* given back (connect_random_IP against check_IP_connection and read_pgxc_node).
THEOREM StableTable == Spec => ReadersSeeStableTable
  <1>. DEFINE A == \A e \in Entries : (\E t \in Threads : pc[t] \in Walking /\ cur[t] = e) =>
                       list'[e] = list[e] /\ status'[e] = status[e]
  <1>1. LInv /\ [Next]_vars => [A]_vars
    <2>. SUFFICES ASSUME LInv, \E t \in Threads : Step(t) PROVE A BY DEF Next
    <2>. QED BY StableStep
  <1>2. Spec => []LInv BY InitL, NextL, PTL DEF Spec
  <1>. QED BY <1>1, <1>2, PTL DEF Spec, ReadersSeeStableTable

\* A set of positions as many as the list has is all of them.
LEMMA AllMarked ==
    ASSUME NEW n \in Nat, NEW S \in SUBSET (1..n), Cardinality(S) = n
    PROVE  S = 1..n
  <1>1. IsFiniteSet(1..n) /\ Cardinality(1..n) = n BY FS_Interval
  <1>. QED BY <1>1, FS_Subset

\* A walk gives up only when every position is marked visited: connect_random_IP does
\* not return an error while a node not known to be WRONG was left out (374-410).
THEOREM GivesUpLast == Spec => GiveUpComplete
  <1>. DEFINE A == \A t \in Threads : pc[t] = "outer" /\ pc'[t] = "fall_back" =>
          \A i \in 1..Len(list[cur[t]]) : i \in visited[t] \/ status[cur[t]][i] = "WRONG"
  <1>1. LInv /\ [Next]_vars => [A]_vars
    <2>. SUFFICES ASSUME LInv, NEW t \in Threads, Step(t), NEW u \in Threads,
                         pc[u] = "outer", pc'[u] = "fall_back"
                  PROVE  \A i \in 1..Len(list[cur[u]]) :
                            i \in visited[u] \/ status[cur[u]][i] = "WRONG"
      BY DEF Next
    <2>1. GiveUp(u)
      <3>. USE DEF LInv, IInv, TypeOK, TypeThreads, walkVars, Goto, LocalsGone
      <3>1. CASE CheckUnlock(t) BY <3>1 DEF CheckUnlock
      <3>2. CASE GiveUp(t) BY <3>2 DEF GiveUp
      <3>3. CASE InitDone(t)
        <4>1. \/ pc' = [pc EXCEPT ![Refresher] = "idle", ![t] = "set_precheck"]
              \/ pc' = [pc EXCEPT ![t] = "failed"]
          BY <3>3, Zenon DEF InitDone
        <4>. QED BY <4>1
      <3>4. CASE FallBack(t)
        <4>1. pc[t] = "fall_back" /\ \E l \in {"chk_lock", "idle", "failed"} :
                                        pc' = [pc EXCEPT ![t] = l]
          BY <3>4, Zenon DEF FallBack
        <4>. QED BY <4>1
      <3>5. CASE CheckOne(t)
        <4>1. pc' = pc BY <3>5, Zenon DEF CheckOne
        <4>. QED BY <4>1
      <3>6. CASE StartConnect(t) \/ Precheck(t) \/ ReadInited(t) \/ LockInit(t) \/ InitConn(t)
        BY <3>6 DEF StartConnect, Precheck, ReadInited, LockInit, InitConn
      <3>7. CASE SetPrecheck(t) \/ WaitFlag(t) \/ ConnectIP(t) \/ CheckLock(t) \/ ReadLock(t)
        BY <3>7 DEF SetPrecheck, WaitFlag, ConnectIP, CheckLock, ReadLock
      <3>8. CASE PickStart(t) \/ MarkWrong(t) \/ StepLock(t) \/ StepUnlock(t) \/ Locate(t)
        BY <3>8 DEF PickStart, MarkWrong, StepLock, StepUnlock, Locate
      <3>9. CASE Advance(t) BY <3>9 DEF Advance
      <3>10. CASE DialOk(t) \/ DialFail(t) BY <3>10 DEF DialOk, DialFail
      <3>11. CASE ExecOk(t) \/ ExecFail(t) \/ FetchEnd(t) BY <3>11 DEF ExecOk, ExecFail, FetchEnd
      <3>12. CASE FetchRow(t) \/ AfterFetch(t) \/ RewriteList(t)
        BY <3>12 DEF FetchRow, AfterFetch, RewriteList
      <3>. QED
        BY <3>1, <3>2, <3>3, <3>4, <3>5, <3>6, <3>7, <3>8, <3>9, <3>10, <3>11, <3>12 DEF Step
    <2>2. idx[u] \in visited[u] /\ Full(u) BY <2>1 DEF GiveUp, Rejected
    <2>3. /\ visited[u] \in SUBSET (1..Len(list[cur[u]]))
          /\ Cardinality(visited[u]) = Len(list[cur[u]])
          /\ Len(list[cur[u]]) \in Nat
      BY <2>2 DEF Full, LInv, VisitedExact, Walking, IInv, TypeOK, TypeThreads, TypeTables
    <2>. QED BY <2>3, AllMarked
  <1>2. Spec => []LInv BY InitL, NextL, PTL DEF Spec
  <1>. QED BY <1>1, <1>2, PTL DEF Spec, GiveUpComplete

\* init_conn runs once: after conn_inited the parsed DSN stays, no probed status is
\* wiped, and a lock is given up by its holder only (check_and_init, 536-571).
THEOREM InitRunsOnce == Spec => InitOnce
  <1>. DEFINE A == inited =>
        /\ inited' /\ list'["orig"] = list["orig"]
        /\ \A e \in Entries, i \in Index : status[e][i] # "EMPTY" => status'[e][i] # "EMPTY"
        /\ \A e \in Entries, t \in Threads :
              t \in (readers[e] \ readers'[e]) \/ (writer[e] = t /\ writer'[e] # t) =>
                 pc'[t] # pc[t]
  <1>1. LInv /\ [Next]_vars => [A]_vars
    <2>. SUFFICES ASSUME LInv, NEW t \in Threads, Step(t), inited PROVE A BY DEF Next
    <2>. USE DEF LInv, IInv, TypeOK, TypeTables, TypeThreads, tabVars, initVars, Goto,
                 Entries, InInit
    <2>1. CASE InitConn(t)
      <3>1. pc[t] \in InInit BY <2>1 DEF InitConn
      <3>. QED BY <3>1, AloneInInit
    <2>2. CASE InitDone(t)
      <3>1. pc[t] \in InInit BY <2>2 DEF InitDone
      <3>. QED BY <3>1, AloneInInit
    <2>3. CASE CheckLock(t) BY <2>3 DEF CheckLock, CanWrite
    <2>4. CASE CheckOne(t)
      <3>1. \E v \in {"CORRECT", "WRONG"} : status' = [status EXCEPT ![cur[t]][idx[t]] = v]
        BY <2>4, Zenon DEF CheckOne
      <3>2. UNCHANGED <<inited, list, readers, writer>> BY <2>4, Zenon DEF CheckOne
      <3>3. \A e \in Entries, i \in Index : status[e][i] # "EMPTY" => status'[e][i] # "EMPTY" BY <3>1
      <3>. QED BY <3>2, <3>3
    <2>5. CASE CheckUnlock(t)
      <3>1. pc[t] = "check" /\ pc'[t] # pc[t] /\ UNCHANGED <<inited, list, status, readers>>
        BY <2>5 DEF CheckUnlock
      <3>2. writer[cur[t]] = t /\ writer' = [writer EXCEPT ![cur[t]] = NoThread]
        BY <2>5, <3>1 DEF CheckUnlock, TableLocks
      <3>. QED BY <3>1, <3>2
    <2>6. CASE ReadLock(t) BY <2>6 DEF ReadLock
    <2>7. CASE GiveUp(t) BY <2>7 DEF GiveUp
    <2>8. CASE DialOk(t) BY <2>8 DEF DialOk
    <2>9. CASE RewriteList(t) BY <2>9 DEF RewriteList
    <2>10. CASE UNCHANGED <<inited, list, status, readers, writer>> BY <2>10
    <2>. QED
      BY <2>1, <2>2, <2>3, <2>4, <2>5, <2>6, <2>7, <2>8, <2>9, <2>10 DEF Step, StartConnect, Precheck,
        ReadInited, LockInit, SetPrecheck, WaitFlag, ConnectIP, PickStart, MarkWrong, StepLock, Advance,
        StepUnlock, Locate, DialFail, FallBack, ExecOk, ExecFail, FetchRow, FetchEnd, AfterFetch
  <1>2. Spec => []LInv BY InitL, NextL, PTL DEF Spec
  <1>. QED BY <1>1, <1>2, PTL DEF Spec, InitOnce
=============================================================================
