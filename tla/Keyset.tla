------------------------------- MODULE Keyset -------------------------------
(***************************************************************************)
(* The keys of an updatable result (results.c): for each row the driver    *)
(* keeps the ctid of the version it read, so that SQLSetPos and            *)
(* SQLBulkOperations can change that row, and a log of the changes made in *)
(* the transaction, so that a rollback can be undone in memory.            *)
(*                                                                         *)
(* A version of a row is a number, its ctid; every change makes a new one. *)
(* The table is the set of versions that the session sees, and the cached  *)
(* columns of a row are abstracted to the version they were read from.     *)
(* Rows are numbered from 1.                                               *)
(*                                                                         *)
(* Three kinds of result: "static" and "keyset" hold all keys in memory    *)
(* (the columns of "keyset" are read from the server when a rowset is      *)
(* fetched), "cursor" holds a window over a WITH HOLD cursor and the lists *)
(* of what was added, updated and deleted through it.                      *)
(***************************************************************************)
EXTENDS Integers, Sequences, FiniteSets, FiniteSetsExt

CONSTANTS
  N,              \* rows of the result when it is opened
  MaxTid,         \* a bound: versions are 1..MaxTid
  MaxLog,         \* a bound on the changes of one transaction
  Window,         \* cache_size of a result with a cursor
  Size,           \* rows of a rowset (SQL_ATTR_ROW_ARRAY_SIZE)
  MaxOther,       \* a bound on the changes made by other sessions
  Kinds,          \* the kinds of result to be explored
  Risky           \* habits of the application that break a property

ASSUME SizeAssumption == N \in Nat /\ MaxTid \in Nat /\ N <= MaxTid /\ {Window, Size} \subseteq Nat \ {0}
ASSUME BoundAssumption == MaxLog \in Nat /\ MaxOther \in Nat
ASSUME HabitAssumption ==
  Kinds \subseteq {"static", "keyset", "cursor"} /\ Risky \subseteq {"update_added", "partial_cursor", "after_commit", "add_cursor", "bookmark_slot"}

VARIABLES
  res,            \* the fields of QResultClass
  srv,            \* the table as the session sees it, and the transaction
  call,           \* the call that is running
  seen,           \* the rows that the last fetch gave the application
  mark            \* a bookmark that the application keeps: a row and its key

vars == <<res, srv, call, seen, mark>>

Dead == {"DELETING", "DELETED", "OTHER_DELETED"}
Pending == {"ADDING", "UPDATING", "DELETING"}
Done(st) == (st \ Pending)
  \cup (IF "ADDING" \in st THEN {"ADDED"} ELSE {})
  \cup (IF "UPDATING" \in st THEN {"UPDATED"} ELSE {})
  \cup (IF "DELETING" \in st THEN {"DELETED"} ELSE {})

Key(t, st) == [tid |-> t, status |-> st]
Cursor == res.kind = "cursor"

NumTotal == N + res.ad_count
\* The place of a row in the keyset; the keyset starts after row lo.
GIdx2KResIdx(g) == g - res.lo
InKeyset(g) == GIdx2KResIdx(g) \in DOMAIN res.keyset
KeyOf(g) == res.keyset[GIdx2KResIdx(g)]

-----------------------------------------------------------------------------
(* The server.                                                             *)

\* BEGIN, unless a transaction is open.
Begun(s) == IF s.open THEN s ELSE [s EXCEPT !.open = TRUE, !.base = s.tab]

Fresh == srv.next <= MaxTid
Updated(s, t) ==
  [s EXCEPT !.tab = (@ \ {t}) \cup {s.next}, !.succ[t] = s.next, !.row[s.next] = s.row[t], !.next = @ + 1]
Deleted(s, t) == [s EXCEPT !.tab = @ \ {t}]
Inserted(s, g) == [s EXCEPT !.tab = @ \cup {s.next}, !.row[s.next] = g, !.next = @ + 1]

\* The version that currtid2 leads to: the last one of the row, if it is visible.
Latest(s, t) ==
  LET last[u \in 0..MaxTid] == IF u = 0 \/ u \in s.tab \/ s.succ[u] = 0 THEN u ELSE last[s.succ[u]]
  IN last[t]

\* positioned_load: SELECT ... WHERE ctid = t finds that version or nothing.
positioned_load(t) == t \in srv.tab

\* LoadFromKeyset: one SELECT with the ctids of many keys; the keys whose version it
\* returns.
LoadFromKeyset(keys) == {k \in DOMAIN keys : keys[k].tid \in srv.tab}

-----------------------------------------------------------------------------
(* The log of a transaction and the lists of a cursor.                     *)

\* AddRollback, called in a transaction.
AddRollback(r, index, t, option) ==
  [r EXCEPT !.rollback = Append(@, [index |-> index, tid |-> t, option |-> option]), !.uncommitted = TRUE]

\* The number of a row whose log entry may be negative (rows added under a cursor).
RowOf(index) == IF index < 0 THEN N - index ELSE index

AddAdded(r, t) ==
  LET ad == r.ad_count + 1
      logged == AddRollback([r EXCEPT !.ad_count = ad], IF Cursor THEN -ad ELSE N + ad, t, "ADD")
  IN IF Cursor THEN [logged EXCEPT !.added = Append(@, Key(t, {"ADDING"}))] ELSE logged

\* A result without a cursor keeps no list of its updates and deletions.
AddUpdated(r, g, t) ==
  IF Cursor THEN [r EXCEPT !.updated = Append(@, [row |-> g, key |-> Key(t, {"UPDATING"})])] ELSE r

AddDeleted(r, g, key) ==
  LET after == SelectSeq(r.deleted, LAMBDA d : d.row > g)
      upto  == SelectSeq(r.deleted, LAMBDA d : d.row <= g)
      new   == [row |-> g, key |-> Key(key.tid, (key.status \ {"IN_ROWSET"}) \cup {"DELETING"})]
  IN IF Cursor THEN [r EXCEPT !.deleted = upto \o <<new>> \o after, !.uncommitted = TRUE] ELSE r

\* The list without the entries of row g.  The loop goes on after the entry that
\* took the place of the one removed, so it skips one.
Without(list, g) ==
  LET gone[i \in 0..Len(list)] == i > 0 /\ list[i].row = g /\ ~gone[i - 1]
      kept == SelectSeq([i \in DOMAIN list |-> i], LAMBDA i : ~gone[i])
  IN [j \in DOMAIN kept |-> list[kept[j]]]

RemoveDeleted(r, g) == [r EXCEPT !.deleted = Without(@, g)]
RemoveUpdated(r, g) == [r EXCEPT !.updated = Without(@, g)]
RemoveAdded(r, g) ==
  LET i == g - N IN
  IF i > r.ad_count THEN r
  ELSE [r EXCEPT !.added = SubSeq(@, 1, i - 1) \o SubSeq(@, i + 1, Len(@)),
                 !.deleted = Without(@, g), !.updated = Without(@, g), !.ad_count = @ - 1]

-----------------------------------------------------------------------------
(* Fetching.                                                               *)

Idle == [pc |-> "idle", g |-> 0, i |-> 0, todo |-> 0]

Init ==
  \E kind \in Kinds :
    /\ res = [kind |-> kind, lo |-> 0, start |-> 0, ad_count |-> 0,
              keyset |-> [g \in 1..(IF kind = "cursor" /\ N > Window THEN Window ELSE N) |-> Key(g, {})],
              data |-> [g \in 1..(IF kind = "cursor" /\ N > Window THEN Window ELSE N) |-> IF kind = "keyset" THEN 0 ELSE g],
              added |-> <<>>, updated |-> <<>>, deleted |-> <<>>, rollback |-> <<>>,
              uncommitted |-> FALSE]
    /\ srv = [tab |-> 1..N, base |-> 1..N, save |-> {}, saved |-> FALSE, open |-> FALSE,
              next |-> N + 1, succ |-> [t \in 1..MaxTid |-> 0],
              row |-> [t \in 1..MaxTid |-> IF t <= N THEN t ELSE 0], gone |-> {}, theirs |-> {}, others |-> 0]
    /\ call = Idle
    /\ seen = <<>>
    /\ mark = [row |-> 0, tid |-> 0]

\* A row that SC_fetch skips.
Skipped(key) ==
  key.status \cap {"DELETING", "DELETED"} # {} \/ ("OTHER_DELETED" \in key.status /\ "ROW_DELETED" \notin key.status)

\* The keys of the window after row lo: FETCH gives the rows as the cursor found
\* them, after the last one come the rows that were added.
Fetched(lo) ==
  LET rows == [i \in 1..Min({Window, IF N > lo THEN N - lo ELSE 0}) |-> Key(lo + i, {})]
      from == IF lo > N THEN lo - N ELSE 0
      room == Min({Window - Len(rows), IF res.ad_count > from THEN res.ad_count - from ELSE 0})
  IN rows \o SubSeq(res.added, from + 1, from + room)

\* The marks of the lists are put on the keys of a new window: a deleted row keeps
\* its old key, an updated one gets the key of its last update.
Marked(keys, lo) ==
  [i \in DOMAIN keys |->
    LET dl == {k \in DOMAIN res.deleted : res.deleted[k].row = lo + i}
        up == {k \in DOMAIN res.updated : res.updated[k].row = lo + i}
    IN IF dl # {} THEN Key(keys[i].tid, res.deleted[Max(dl)].key.status)
       ELSE IF up # {} THEN res.updated[Max(up)].key
       ELSE keys[i]]

\* QR_next_tuple of a cursor: another window, its columns read with it.
Refill(lo) ==
  /\ call.pc = "idle" /\ Cursor
  /\ lo \in 0..(NumTotal - 1) /\ lo % Window = 0 /\ lo # res.lo
  /\ LET keys == Marked(Fetched(lo), lo) IN
     res' = [res EXCEPT !.lo = lo, !.start = 0, !.keyset = keys, !.data = [i \in DOMAIN keys |-> keys[i].tid]]
  /\ seen' = <<>>
  /\ UNCHANGED <<srv, call, mark>>

\* SC_pos_reload: the latest version of the row, found by following its ctid.  When
\* there is none, an entry that is no change gets into the log.
Reloaded(r, k) ==
  LET t == Latest(srv, r.keyset[k].tid) IN
  IF positioned_load(t)
  THEN [r EXCEPT !.keyset[k].tid = t, !.data[k] = t]
  ELSE LET noted == IF srv.open THEN AddRollback(r, r.lo + k, r.keyset[k].tid, "NONE") ELSE r
       IN IF r.kind = "keyset" THEN [noted EXCEPT !.keyset[k].status = @ \cup {"ROW_DELETED"}] ELSE noted

\* SC_pos_reload_needed: a keyset-driven result reads the columns of the rowset and of
\* some rows behind it again; LoadFromKeyset finds the rows whose version is still there.
SC_pos_reload_needed(r, start) ==
  LET asked == {k \in DOMAIN r.keyset : k >= start /\ ~Skipped(r.keyset[k])}
      found == asked \cap LoadFromKeyset(r.keyset)
      off(k) == Key(r.keyset[k].tid, r.keyset[k].status \ {"NEEDS_REREAD"})
      on(k)  == Key(r.keyset[k].tid, r.keyset[k].status \cup {"NEEDS_REREAD"})
  IN IF r.kind = "keyset"
     THEN [r EXCEPT
            !.keyset = [k \in DOMAIN @ |-> IF k \in found THEN off(k) ELSE IF k \in asked THEN on(k) ELSE @[k]],
            !.data = [k \in DOMAIN @ |-> IF k \in found THEN r.keyset[k].tid ELSE 0]]
     ELSE [r EXCEPT
            !.keyset = [k \in DOMAIN @ |-> IF k \in found THEN off(k) ELSE @[k]],
            !.data = [k \in DOMAIN @ |->
              IF k \in found /\ "NEEDS_REREAD" \in r.keyset[k].status THEN r.keyset[k].tid ELSE @[k]]]

\* PGAPI_ExtendedFetch: the rowset starts at row start, one that getNthValid counts.
Fetch(start) ==
  /\ call.pc = "idle" /\ Len(res.rollback) < MaxLog
  /\ InKeyset(start) /\ start <= NumTotal /\ KeyOf(start).status \cap Dead = {}
  /\ res' = [(IF Cursor THEN res ELSE SC_pos_reload_needed(res, start)) EXCEPT !.start = start]
  /\ call' = [Idle EXCEPT !.pc = IF Cursor THEN "rows" ELSE "reload", !.g = start]
  /\ seen' = <<>>
  /\ UNCHANGED <<srv, mark>>

\* The end of SC_pos_reload_needed: rows that were not found are reloaded one by one.
\* The loop does not advance kres_ridx, so only the first one is.
ReloadFirst ==
  /\ call.pc = "reload"
  /\ LET k == GIdx2KResIdx(call.g)
         r == Reloaded(res, k)
     IN res' = IF "NEEDS_REREAD" \notin res.keyset[k].status THEN res
               ELSE [r EXCEPT !.keyset[k].status =
                       (@ \ {"NEEDS_REREAD"}) \cup (IF "ROW_DELETED" \in @ THEN {"OTHER_DELETED"} ELSE {})]
  /\ call' = [call EXCEPT !.pc = "rows"]
  /\ UNCHANGED <<srv, seen, mark>>

\* The loop over SC_fetch: a deleted row is passed over, a row to be read again is
\* reloaded; the rows delivered are marked CURS_IN_ROWSET and their public status,
\* once reported, is cleared.
SC_fetch ==
  /\ call.pc = "rows"
  /\ LET g == call.g
         k == GIdx2KResIdx(g)
         r == IF "NEEDS_REREAD" \in res.keyset[k].status THEN Reloaded(res, k) ELSE res
     IN IF g > NumTotal \/ ~InKeyset(g) \/ Len(seen) = Size
        THEN call' = Idle /\ UNCHANGED <<res, seen>>
        ELSE /\ call' = [call EXCEPT !.g = g + 1]
             /\ IF Skipped(res.keyset[k])
                THEN /\ res' = [res EXCEPT !.keyset[k].status = @ \ {"IN_ROWSET"}]
                     /\ UNCHANGED seen
                ELSE /\ res' = [r EXCEPT !.keyset[k].status = (@ \ {"ROW_DELETED"}) \cup {"IN_ROWSET"}]
                     /\ seen' = Append(seen, [row |-> g, tid |-> r.data[k], deleted |-> "ROW_DELETED" \in r.keyset[k].status])
  /\ UNCHANGED <<srv, mark>>

-----------------------------------------------------------------------------
(* Positioned changes.                                                     *)

\* spos_callback: the rows of the rowset are the keys marked CURS_IN_ROWSET from the
\* start of the rowset on; irow counts them.
InRowset == {g \in res.start..NumTotal : InKeyset(g) /\ "IN_ROWSET" \in KeyOf(g).status}
\* A slip: the rows of the rowset are taken to be adjacent.
TargetAdjacent(irow) == Min({res.start + irow - 1, res.lo + Len(res.keyset)})
Target(irow) ==
  CHOOSE g \in InRowset : Cardinality({h \in InRowset : h <= g}) = irow

MayChange == call.pc = "idle" /\ Fresh /\ Len(res.rollback) < MaxLog

\* PGAPI_SetPos refuses a row beyond the last fetch.
AtRow(irow) == res.start > 0 /\ irow \in 1..Len(seen) /\ irow <= Cardinality(InRowset)

\* irow_update and pos_update_callback: the row is read again under its new key, and
\* the old one goes into the log.
RowUpdated(r, g, old, new) ==
  LET k == g - r.lo
      logged == AddRollback(AddUpdated(r, g, new), g, old, "UPDATE")
  IN IF k \notin DOMAIN r.keyset THEN logged
     ELSE [logged EXCEPT !.keyset[k] = Key(new, @.status \cup {"UPDATING"}), !.data[k] = IF @ = 0 THEN 0 ELSE new]

\* SC_pos_delete: the reload finds nothing and logs the deletion.
RowDeleted(r, g, key) ==
  LET k == g - r.lo
      logged == AddDeleted(AddRollback(r, g, key.tid, "DELETE"), g, key)
  IN IF k \notin DOMAIN r.keyset THEN logged
     ELSE [logged EXCEPT !.keyset[k].status = (@ \ {"ROW_DELETED"}) \cup {"ROW_DELETED", "DELETING"}]

\* The key is not current any more: nothing is changed, and a keyset-driven result
\* reads the row again.
Changed(g) ==
  res' = IF res.kind = "keyset" THEN Reloaded(res, GIdx2KResIdx(g)) ELSE res

\* SQLSetPos(SQL_UPDATE).
SC_pos_update(irow) ==
  /\ MayChange /\ AtRow(irow)
  /\ LET g == Target(irow) IN
     /\ "update_added" \in Risky \/ g <= N
     /\ IF KeyOf(g).tid \in srv.tab
        THEN /\ srv' = Updated(Begun(srv), KeyOf(g).tid)
             /\ res' = RowUpdated(res, g, KeyOf(g).tid, srv.next)
        ELSE /\ srv' = Begun(srv)
             /\ Changed(g)
  /\ UNCHANGED <<call, seen, mark>>

\* SQLSetPos(SQL_DELETE).
SC_pos_delete(irow) ==
  /\ MayChange /\ AtRow(irow)
  /\ LET g == Target(irow) IN
     IF KeyOf(g).tid \in srv.tab
     THEN /\ srv' = Deleted(Begun(srv), KeyOf(g).tid)
          /\ res' = RowDeleted(res, g, KeyOf(g))
     ELSE /\ srv' = Begun(srv)
          /\ Changed(g)
  /\ UNCHANGED <<call, seen, mark>>

\* SC_pos_newload: the new row gets a key if all keys are in memory or if there is
\* room for it in the window, and its columns if the rows in memory reach that far.
NewLoaded(r, new) ==
  LET k == N + r.ad_count + 1 - r.lo
      a == AddAdded(r, new)
      key == Key(new, {"ADDING"})
  IN IF Cursor /\ k > Window THEN a
     ELSE [a EXCEPT
            !.keyset = [i \in 1..(Len(@) + 1) |-> IF i = k THEN key ELSE IF i <= Len(@) THEN @[i] ELSE Key(0, {})],
            !.data = Append(@, IF r.kind = "keyset" /\ r.start = 0 THEN 0 ELSE new)]

\* irow_insert: the new row is loaded with the ctid that the INSERT returned, and an
\* application that bound a bookmark column gets the bookmark of that row.  Under a
\* cursor it would be a negative one, which the model follows no further.
irow_insert(new) ==
  /\ res' = NewLoaded(res, new)
  /\ mark' \in {mark} \cup (IF Cursor THEN {} ELSE {[row |-> NumTotal + 1, tid |-> new]})

\* SQLSetPos(SQL_ADD), SQLBulkOperations(SQL_ADD).
SC_pos_add ==
  /\ MayChange
  /\ ~Cursor \/ "add_cursor" \in Risky
  /\ srv' = Inserted(Begun(srv), NumTotal + 1)
  /\ irow_insert(srv.next)
  /\ UNCHANGED <<call, seen>>

\* SC_Create_bookmark while fetching.
TakeBookmark(irow) ==
  /\ call.pc = "idle" /\ AtRow(irow)
  /\ mark' = [row |-> Target(irow), tid |-> KeyOf(Target(irow)).tid]
  /\ UNCHANGED <<res, srv, call, seen>>

\* QR_get_last_bookmark: the key that the lists have for a row.
QR_get_last_bookmark(g, t) ==
  LET dl == {k \in DOMAIN res.deleted : res.deleted[k].row = g}
      up == {k \in DOMAIN res.updated : res.updated[k].row = g}
  IN IF dl # {} THEN res.deleted[Min(dl)].key.tid
     ELSE IF up # {} THEN res.updated[Max(up)].key.tid ELSE t

\* SQLBulkOperations(SQL_UPDATE_BY_BOOKMARK or SQL_DELETE_BY_BOOKMARK) of one row:
\* bulk_ope_callback asks the lists for row s->idx, the place in the application's
\* array (row 1 here), not for the row of the bookmark; that key counts only
\* when the row is outside the keyset.
ByBookmark(update) ==
  /\ MayChange /\ mark.row \in 1..NumTotal
  /\ "bookmark_slot" \in Risky \/ InKeyset(mark.row) \/ QR_get_last_bookmark(1, 0) = 0
  /\ update => "update_added" \in Risky \/ mark.row <= N
  /\ LET key == IF InKeyset(mark.row) THEN KeyOf(mark.row)
                ELSE Key(QR_get_last_bookmark(1, mark.tid), {})
     IN IF key.tid \in srv.tab
        THEN IF update
             THEN /\ srv' = Updated(Begun(srv), key.tid)
                  /\ res' = RowUpdated(res, mark.row, key.tid, srv.next)
             ELSE /\ srv' = Deleted(Begun(srv), key.tid)
                  /\ res' = RowDeleted(res, mark.row, key)
        ELSE /\ srv' = Begun(srv)
             /\ UNCHANGED res
  /\ UNCHANGED <<call, seen, mark>>

\* Another session updates or deletes a row that this transaction has not touched.
OtherSession(t, update) ==
  /\ call.pc = "idle" /\ srv.others < MaxOther /\ Fresh
  /\ t \in srv.tab /\ (srv.open => t \in srv.base) /\ (srv.saved => t \in srv.save)
  /\ LET s == IF update THEN Updated(srv, t) ELSE Deleted(srv, t)
         new == IF update THEN {srv.next} ELSE {}
     IN srv' = [s EXCEPT !.base = (@ \ {t}) \cup new, !.save = IF s.saved THEN (@ \ {t}) \cup new ELSE @,
                         !.gone = @ \cup {t}, !.theirs = @ \cup new, !.others = @ + 1]
  /\ UNCHANGED <<res, call, seen, mark>>

-----------------------------------------------------------------------------
(* The end of a transaction, and of a part of it.                          *)

\* The keys of the three lists are settled.
CommitAdded(added) == [i \in DOMAIN added |-> Key(added[i].tid, Done(added[i].status))]
CommitUpdated(updated) == [i \in DOMAIN updated |-> [updated[i] EXCEPT !.key.status = Done(@)]]
CommitDeleted(deleted) == [i \in DOMAIN deleted |-> [deleted[i] EXCEPT !.key.status = Done(@)]]

\* DiscardRollback: with a cursor the lists are settled and the log stays; without,
\* the keys of the rows in the log are settled and the log is freed.
Logged(r) == {RowOf(r.rollback[i].index) : i \in DOMAIN r.rollback}
DiscardRollback(r) ==
  IF Cursor
  THEN [r EXCEPT !.added = CommitAdded(@), !.updated = CommitUpdated(@), !.deleted = CommitDeleted(@)]
  ELSE [r EXCEPT !.keyset = [k \in DOMAIN @ |-> IF k \in Logged(r) THEN Key(@[k].tid, Done(@[k].status)) ELSE @[k]],
                 !.rollback = <<>>]

Ended(s, tab) == [s EXCEPT !.tab = tab, !.base = tab, !.open = FALSE, !.save = {}, !.saved = FALSE]

\* COMMIT, also the one that ends the call when autocommit is on.
Commit ==
  /\ call.pc = "idle" /\ srv.open
  /\ ~Cursor \/ "after_commit" \in Risky \/ res.rollback = <<>>
  /\ srv' = Ended(srv, srv.tab)
  /\ res' = IF res.uncommitted THEN [DiscardRollback(res) EXCEPT !.uncommitted = FALSE] ELSE res
  /\ UNCHANGED <<call, seen, mark>>

\* ROLLBACK.
Rollback ==
  /\ call.pc = "idle" /\ srv.open
  /\ srv' = Ended(srv, srv.base)
  /\ call' = IF res.uncommitted THEN [Idle EXCEPT !.pc = "undo", !.i = Len(res.rollback)] ELSE call
  /\ res' = [res EXCEPT !.uncommitted = FALSE]
  /\ UNCHANGED <<seen, mark>>

Savepoint ==
  /\ call.pc = "idle" /\ srv.open
  /\ srv' = [srv EXCEPT !.save = srv.tab, !.saved = TRUE]
  /\ UNCHANGED <<res, call, seen, mark>>

\* UndoRollback(partial): the log does not say where the savepoint was.  An entry whose
\* old version is back was rolled back with all that follow.
tupleExists(i) == positioned_load(res.rollback[i].tid)
Reversed == {i \in DOMAIN res.rollback : res.rollback[i].option \in {"UPDATE", "DELETE", "NONE"} /\ tupleExists(i)}
\* A slip: the entry whose old version is back counts as kept.
FirstReversedKept == IF Reversed = {} THEN Len(res.rollback) ELSE Min(Reversed)
FirstReversed == IF Reversed = {} THEN Len(res.rollback) ELSE Min(Reversed) - 1

\* doubtp: entries up to it were certainly kept.
Doubtless(n) ==
  LET d[i \in 0..n] ==
        IF i = 0 THEN 0
        ELSE IF res.rollback[i].option = "ADD" THEN IF tupleExists(i) THEN i ELSE d[i - 1]
        ELSE IF d[i - 1] = i - 1 THEN i ELSE d[i - 1]
  IN d[n]

\* A row that was added and is not there was rolled back, unless it was deleted later.
RolledBackTo(n) ==
  LET lost(m) == {i \in (Doubtless(n) + 1)..m :
                    /\ res.rollback[i].option = "ADD"
                    /\ \A j \in (i + 1)..m : ~(/\ res.rollback[j].option = "DELETE"
                                               /\ RowOf(res.rollback[j].index) = RowOf(res.rollback[i].index))}
      p[m \in 0..n] == IF lost(m) = {} THEN m ELSE p[Min(lost(m)) - 1]
  IN p[n]

\* ROLLBACK TO, the application's or that of a failed statement.
RollbackTo ==
  /\ call.pc = "idle" /\ srv.open /\ srv.saved
  /\ ~Cursor \/ "partial_cursor" \in Risky
  /\ srv' = [srv EXCEPT !.tab = srv.save]
  /\ call' = [Idle EXCEPT !.pc = "probe"]
  /\ UNCHANGED <<res, seen, mark>>

Probe ==
  /\ call.pc = "probe"
  /\ call' = [Idle EXCEPT !.pc = "undo", !.i = Len(res.rollback), !.todo = RolledBackTo(FirstReversed)]
  /\ UNCHANGED <<res, srv, seen, mark>>

\* A slip: the key is put back and the columns stay those of the version undone.
RestoredKeyOnly(r, e, k) == [r EXCEPT !.keyset[k] = Key(e.tid, @.status \ {"DELETING", "UPDATING", "ROW_DELETED"})]

\* A key gets back the version of the log, and its columns if that version is there.
Restored(r, e, k) ==
  LET off == CASE e.option = "DELETE" -> {"DELETING"} [] e.option = "UPDATE" -> {"UPDATING"} [] OTHER -> {}
      st  == r.keyset[k].status \ (off \cup {"ROW_DELETED"})
      there == positioned_load(e.tid) /\ r.data[k] # 0
  IN [r EXCEPT !.keyset[k] = Key(e.tid, IF there THEN st \ {"NEEDS_REREAD"} ELSE st \cup {"NEEDS_REREAD"}),
               !.data[k] = IF there THEN e.tid ELSE @]

\* The row of an undone insertion is the last one in memory.
Dropped(r, k) ==
  [r EXCEPT !.keyset = SubSeq(@, 1, Len(@) - 1), !.data = SubSeq(@, 1, Len(@) - 1),
            !.ad_count = IF Cursor THEN @ ELSE @ - 1]

\* What an entry did to the lists of a cursor.
Unlisted(r, e) ==
  LET g == RowOf(e.index)
      a == IF e.option = "ADD" THEN RemoveAdded(r, g) ELSE r
  IN IF Cursor THEN RemoveUpdated(RemoveDeleted(a, g), g) ELSE r

\* One entry of the log, from the last one back to todo.
UndoEntry ==
  /\ call.pc = "undo" /\ call.i > call.todo
  /\ LET e == res.rollback[call.i]
         k == e.index - res.lo
         r == Unlisted(res, e)
     IN res' = IF e.index < 0 \/ k \notin DOMAIN res.keyset THEN r
               ELSE IF e.option = "ADD" THEN Dropped(r, k)
               ELSE Restored(r, e, k)
  /\ call' = [call EXCEPT !.i = @ - 1]
  /\ UNCHANGED <<srv, seen, mark>>

UndoDone ==
  /\ call.pc = "undo" /\ call.i = call.todo
  /\ res' = [res EXCEPT !.rollback = SubSeq(@, 1, call.todo)]
  /\ call' = Idle
  /\ UNCHANGED <<srv, seen, mark>>

Next ==
  \/ \E lo \in 0..(N + MaxLog) : Refill(lo)
  \/ \E start \in 1..(N + MaxLog) : Fetch(start)
  \/ ReloadFirst
  \/ SC_fetch
  \/ \E irow \in 1..Size : SC_pos_update(irow)
  \/ \E irow \in 1..Size : SC_pos_delete(irow)
  \/ SC_pos_add
  \/ \E irow \in 1..Size : TakeBookmark(irow)
  \/ \E update \in BOOLEAN : ByBookmark(update)
  \/ \E t \in 1..MaxTid, update \in BOOLEAN : OtherSession(t, update)
  \/ Commit
  \/ Rollback
  \/ Savepoint
  \/ RollbackTo
  \/ Probe
  \/ UndoEntry
  \/ UndoDone

Spec == Init /\ [][Next]_vars

-----------------------------------------------------------------------------
(* Properties.                                                             *)

Statuses == Dead \cup Pending \cup {"ADDED", "UPDATED", "NEEDS_REREAD", "IN_ROWSET", "ROW_DELETED"}
KeyType == [tid : 0..MaxTid, status : SUBSET Statuses]

\* The type of the state.
TypeOK ==
  /\ res.keyset \in Seq(KeyType) /\ res.added \in Seq(KeyType)
  /\ Len(res.data) = Len(res.keyset) /\ \A i \in DOMAIN res.data : res.data[i] \in 0..MaxTid
  /\ res.ad_count \in Nat /\ res.lo \in Nat /\ res.start \in Nat
  /\ \A i \in DOMAIN res.rollback : res.rollback[i].option \in {"ADD", "UPDATE", "DELETE", "NONE"}
  /\ srv.tab \subseteq 1..MaxTid /\ call.pc \in {"idle", "reload", "rows", "probe", "undo"}

\* What the driver takes for the key of row g: none when it is deleted.
View(g) ==
  LET dl == {k \in DOMAIN res.deleted : res.deleted[k].row = g}
      up == {k \in DOMAIN res.updated : res.updated[k].row = g}
      first == IF g <= N THEN g ELSE res.added[g - N].tid
  IN IF InKeyset(g) THEN IF KeyOf(g).status \cap Dead # {} THEN 0 ELSE KeyOf(g).tid
     ELSE IF dl # {} THEN 0
     ELSE IF up # {} THEN res.updated[Max(up)].key.tid
     ELSE first

\* Between calls the driver's keys are the rows of the table, each of them once: after
\* any mix of positioned changes, commits, rollbacks and rollbacks to a savepoint
\* (UndoRollback, DiscardRollback).  Rows that another session changed are apart.
\* Outside a transaction no key is being added, updated or deleted any more.
KeysTrue ==
  call.pc = "idle" =>
    LET rows == {g \in 1..NumTotal : View(g) # 0} IN
    /\ ~srv.open /\ ~Cursor =>
         \A k \in DOMAIN res.keyset : res.keyset[k].status \cap Pending = {}
    /\ \A g \in rows : View(g) \in srv.tab \cup srv.gone
    /\ \A g, h \in rows : View(g) = View(h) => g = h
    /\ srv.tab \subseteq {View(g) : g \in rows} \cup srv.theirs

\* The columns in memory are those of the version the key names, unless the row is
\* marked to be read again (MoveCachedRows, KeySetSet, CURS_NEEDS_REREAD): a
\* positioned update never overwrites a version that the application has not seen.
DataTrue ==
  call.pc = "idle" =>
    \A k \in DOMAIN res.keyset :
      \/ res.data[k] \in {0, res.keyset[k].tid}
      \/ res.keyset[k].status \cap (Dead \cup {"NEEDS_REREAD"}) # {}
      \/ res.keyset[k].tid = 0

\* A positioned change changes the row that the application named: the irow-th row of
\* its last fetch (CURS_IN_ROWSET), or the row of its bookmark.
PosHits ==
  [][/\ \A irow \in 1..Size : SC_pos_update(irow) \/ SC_pos_delete(irow) =>
          \A t \in srv.tab \ srv'.tab : srv.row[t] = seen[irow].row
     /\ \A update \in BOOLEAN : ByBookmark(update) =>
          \A t \in srv.tab \ srv'.tab : srv.row[t] = mark.row]_vars
=============================================================================
