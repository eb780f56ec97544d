---------------------------- MODULE Autobalance ----------------------------
(***************************************************************************)
(* Coordinator load balancing (Autobalance=1), connection.c 60-571 and     *)
(* PGAPI_Connect.  Every application thread that connects shares           *)
(*   - a one-time initialisation guarded by init_lock (double checked),    *)
(*   - two tables of coordinators (CN): orig_entry, parsed from the DSN,   *)
(*     and pgxc_entry, rewritten by a background refresh thread,           *)
(*   - the flag refresh_flag on which connecting threads busy-wait.        *)
(* The refresh thread connects through the very same code.                 *)
(***************************************************************************)
EXTENDS Integers, Sequences, FiniteSets

CONSTANTS
    Clients,        \* application threads, each with its own connection
    Refresher,      \* the thread that runs read_pgxc_node
    NoThread,       \* "nobody holds this lock"
    Nodes,          \* host:port pairs that exist, configured or not
    OrigList,       \* the pairs of the DSN, in order (ci->server, ci->port)
    PriorityThreads,\* threads whose connInfo.priority is 1
    Answers,        \* the row sequences the pgxc_node query may return
    MaxCN,          \* MAX_CN, 128 in the code
    Rands,          \* what rand() may return after srand(pthread_self())
    RefreshLimit,   \* 10 in the code
    StepMod         \* step[] matters only modulo every possible ip_count

Threads == Clients \cup {Refresher}
Entries == {"orig", "pgxc"}
Index   == 1..MaxCN              \* C index + 1
Configured == {OrigList[k] : k \in 1..Len(OrigList)}

ASSUME ThreadAssumption ==
    Refresher \notin Clients /\ NoThread \notin Threads
ASSUME ListAssumption ==
    /\ MaxCN \in Nat \ {0}
    /\ OrigList \in Seq(Nodes)
    /\ Len(OrigList) \in 1..MaxCN
    /\ Answers \subseteq Seq(Nodes)
    /\ PriorityThreads \subseteq Threads
ASSUME NumberAssumption ==
    RefreshLimit \in Nat /\ StepMod \in Nat \ {0} /\ Rands \subseteq Nat

VARIABLES
    inited,         \* conn_inited
    precheck,       \* conn_precheck
    initWriter,     \* who holds init_lock for writing
    refreshFlag,    \* refresh_flag = 1
    list,           \* [Entries -> Seq(Nodes)]: ip_list/port_list up to ip_count
    status,         \* ip_status
    step,           \* step, modulo StepMod
    readers, writer,\* ip_list_lock of each entry
    stepHolder,     \* step_lock of each entry
    pc,             \* where each thread is
    cur,            \* the entry it works on
    idx,            \* loop index of check_IP_connection, or ind of get_location
    base,           \* the ind whose step/step_lock get_location uses
    visited, count, \* visited[], visited_count of connect_random_IP
    found,          \* ret of check_IP_connection
    conn,           \* status of the thread's ConnectionClass
    rows, temp,     \* the refresh thread's result set and IP_list_temp
    fetchRc,        \* rc of the last SQLFetch
    refreshCount    \* refresh_count, capped at RefreshLimit + 1

initVars == <<inited, precheck, initWriter>>
tabVars  == <<list, status, step, readers, writer, stepHolder>>
walkVars == <<cur, idx, base, visited, count, found>>
refrVars == <<rows, temp, fetchRc, refreshCount>>
vars == <<initVars, refreshFlag, tabVars, pc, walkVars, conn, refrVars>>

Idle    == {"off", "idle", "connected", "failed"}
Walking == {"get_location", "outer", "step_lock", "inner", "dial"}
InInit  == {"init", "init_done"}
RefreshPcs == {"exec", "fetch", "after_fetch", "rewrite"}
PCs == Idle \cup Walking \cup InInit \cup RefreshPcs \cup
       {"precheck", "rd_init", "wr_init", "set_precheck", "wait_flag",
        "connect_IP", "chk_lock", "check", "rd_list", "fall_back"}

TypeShared ==
    /\ inited \in BOOLEAN /\ precheck \in BOOLEAN /\ refreshFlag \in BOOLEAN
    /\ initWriter \in Threads \cup {NoThread}

TypeTables ==
    /\ list \in [Entries -> Seq(Nodes)]
    /\ \A e \in Entries : Len(list[e]) <= MaxCN
    /\ status \in [Entries -> [Index -> {"EMPTY", "CORRECT", "WRONG"}]]
    /\ step \in [Entries -> [Index -> 0..(StepMod - 1)]]
    /\ readers \in [Entries -> SUBSET Threads]
    /\ writer \in [Entries -> Threads \cup {NoThread}]
    /\ stepHolder \in [Entries -> [Index -> Threads \cup {NoThread}]]

TypeThreads ==
    /\ pc \in [Threads -> PCs]
    /\ cur \in [Threads -> Entries]
    /\ idx \in [Threads -> Nat] /\ base \in [Threads -> Index]
    /\ visited \in [Threads -> SUBSET Nat] /\ count \in [Threads -> Nat]
    /\ found \in [Threads -> BOOLEAN]
    /\ conn \in [Threads -> {"NOT_CONNECTED", "CONNECTED", "DOWN"}]

TypeRefresh ==
    /\ rows \in Seq(Nodes) /\ temp \in Seq(Nodes) /\ Len(temp) <= MaxCN
    /\ fetchRc \in {"SUCCESS", "NO_DATA", "ERROR", "OVERFLOW"}
    /\ refreshCount \in 0..(RefreshLimit + 1)

\* Types, and the array bounds: neither table nor IP_list_temp outgrows MAX_CN.
TypeOK == TypeShared /\ TypeTables /\ TypeThreads /\ TypeRefresh

Init ==
    /\ inited = FALSE /\ precheck = FALSE /\ refreshFlag = FALSE
    /\ initWriter = NoThread
    /\ list = [e \in Entries |-> << >>]
    /\ status = [e \in Entries |-> [i \in Index |-> "EMPTY"]]
    /\ step = [e \in Entries |-> [i \in Index |-> 0]]
    /\ readers = [e \in Entries |-> {}]
    /\ writer = [e \in Entries |-> NoThread]
    /\ stepHolder = [e \in Entries |-> [i \in Index |-> NoThread]]
    /\ pc = [t \in Threads |-> IF t = Refresher THEN "off" ELSE "idle"]
    /\ cur = [t \in Threads |-> "orig"]
    /\ idx = [t \in Threads |-> 1] /\ base = [t \in Threads |-> 1]
    /\ visited = [t \in Threads |-> {}] /\ count = [t \in Threads |-> 0]
    /\ found = [t \in Threads |-> FALSE]
    /\ conn = [t \in Threads |-> "NOT_CONNECTED"]
    /\ rows = << >> /\ temp = << >> /\ fetchRc = "SUCCESS" /\ refreshCount = 0

Goto(t, l) == pc' = [pc EXCEPT ![t] = l]

\* the locals of connect_random_IP, check_IP_connection and get_location go out of
\* scope: give them one fixed value
LocalsGone(t) ==
    /\ idx' = [idx EXCEPT ![t] = 1] /\ base' = [base EXCEPT ![t] = 1]
    /\ visited' = [visited EXCEPT ![t] = {}] /\ count' = [count EXCEPT ![t] = 0]
    /\ found' = [found EXCEPT ![t] = FALSE]

----------------------------------------------------------------------------
(* PGAPI_Connect up to connect_IP: check_and_init and the wait for the flag *)

\* SQLConnect on a fresh connection handle
StartConnect(t) ==
    /\ pc[t] = "idle"
    /\ conn' = [conn EXCEPT ![t] = "NOT_CONNECTED"]
    /\ Goto(t, "precheck")
    /\ UNCHANGED <<initVars, refreshFlag, tabVars, walkVars, refrVars>>

\* the unlocked read of conn_precheck
Precheck(t) ==
    /\ pc[t] = "precheck"
    /\ Goto(t, IF precheck THEN "wait_flag" ELSE "rd_init")
    /\ UNCHANGED <<initVars, refreshFlag, tabVars, walkVars, conn, refrVars>>

\* rdlock(init_lock), read conn_inited, unlock: one step, nothing else happens inside
ReadInited(t) ==
    /\ pc[t] = "rd_init" /\ initWriter = NoThread
    /\ Goto(t, IF inited THEN "wait_flag" ELSE "wr_init")
    /\ UNCHANGED <<initVars, refreshFlag, tabVars, walkVars, conn, refrVars>>

\* a slip: conn_inited is not read again under the write lock
LockInit_Once(t) ==
    /\ pc[t] = "wr_init" /\ initWriter = NoThread
    /\ Goto(t, "init") /\ initWriter' = t
    /\ UNCHANGED <<inited, precheck, refreshFlag, tabVars, walkVars,
                   conn, refrVars>>

\* wrlock(init_lock) and the second check of conn_inited
LockInit(t) ==
    /\ pc[t] = "wr_init" /\ initWriter = NoThread
    /\ IF inited
       THEN Goto(t, "wait_flag") /\ UNCHANGED initWriter
       ELSE Goto(t, "init") /\ initWriter' = t
    /\ UNCHANGED <<inited, precheck, refreshFlag, tabVars, walkVars,
                   conn, refrVars>>

\* init_conn: wipe both entries (locks included) and parse the DSN into both
InitConn(t) ==
    /\ pc[t] = "init"
    /\ list' = [e \in Entries |-> OrigList]
    /\ status' = [e \in Entries |-> [i \in Index |-> "EMPTY"]]
    /\ step' = [e \in Entries |-> [i \in Index |-> 0]]
    /\ readers' = [e \in Entries |-> {}]
    /\ writer' = [e \in Entries |-> NoThread]
    /\ stepHolder' = [e \in Entries |-> [i \in Index |-> NoThread]]
    /\ cur' = [cur EXCEPT ![t] = "orig"]
    /\ Goto(t, "chk_lock")
    /\ UNCHANGED <<initVars, refreshFlag, idx, base, visited, count,
                   found, conn, refrVars>>

\* back from check_IP_connection(orig): copy the status, start the thread,
\* set conn_inited under the lock.  pthread_create may fail.
InitDone(t) ==
    /\ pc[t] = "init_done"
    /\ initWriter' = NoThread
    /\ IF found[t]
       THEN /\ status' = [status EXCEPT !["pgxc"] = status["orig"]]
            /\ \/ /\ inited' = TRUE
                  /\ pc' = [pc EXCEPT ![Refresher] = "idle", ![t] = "set_precheck"]
               \/ Goto(t, "failed") /\ UNCHANGED inited
       ELSE Goto(t, "failed") /\ UNCHANGED <<inited, status>>
    /\ LocalsGone(t)
    /\ UNCHANGED <<precheck, refreshFlag, list, step, readers, writer,
                   stepHolder, cur, conn, refrVars>>

\* conn_precheck = TRUE, written after the unlock
SetPrecheck(t) ==
    /\ pc[t] = "set_precheck"
    /\ precheck' = TRUE
    /\ Goto(t, "wait_flag")
    /\ UNCHANGED <<inited, initWriter, refreshFlag, tabVars, walkVars,
                   conn, refrVars>>

\* while (refresh_flag != 1) usleep: the refresh thread itself does not wait
WaitFlag(t) ==
    /\ pc[t] = "wait_flag"
    /\ t # Refresher => refreshFlag
    /\ Goto(t, "connect_IP")
    /\ UNCHANGED <<initVars, refreshFlag, tabVars, walkVars, conn, refrVars>>

\* connect_IP: a priority connection tries the configured nodes first
ConnectIP(t) ==
    /\ pc[t] = "connect_IP"
    /\ cur' = [cur EXCEPT ![t] = IF t \in PriorityThreads THEN "orig" ELSE "pgxc"]
    /\ Goto(t, "chk_lock")
    /\ UNCHANGED <<initVars, refreshFlag, tabVars, idx, base, visited,
                   count, found, conn, refrVars>>

----------------------------------------------------------------------------
(* check_IP_connection: probe every node of the entry under the write lock *)

\* a slip: a writer that does not wait for the readers
CanWrite_Slip(e) == writer[e] = NoThread

\* pthread_rwlock_wrlock(&entry->ip_list_lock) is granted
CanWrite(e) == writer[e] = NoThread /\ readers[e] = {}

CheckLock(t) ==
    LET e == cur[t] IN
    /\ pc[t] = "chk_lock"
    /\ CanWrite(e)
    /\ writer' = [writer EXCEPT ![e] = t]
    /\ idx' = [idx EXCEPT ![t] = 1]
    /\ found' = [found EXCEPT ![t] = FALSE]
    /\ Goto(t, "check")
    /\ UNCHANGED <<initVars, refreshFlag, list, status, step,
                   readers, stepHolder, cur, base, visited, count, conn, refrVars>>

\* one LIBPQ_connect, and PQfinish when it succeeds: the node accepts now or not
CheckOne(t) ==
    LET e == cur[t]
        i == idx[t]
    IN
    /\ pc[t] = "check" /\ i <= Len(list[e])
    /\ \/ /\ status' = [status EXCEPT ![e][i] = "CORRECT"]
          /\ found' = [found EXCEPT ![t] = TRUE]
       \/ status' = [status EXCEPT ![e][i] = "WRONG"] /\ UNCHANGED found
    /\ idx' = [idx EXCEPT ![t] = i + 1]
    /\ UNCHANGED <<initVars, refreshFlag, list, step, readers, writer,
                   stepHolder, pc, cur, base, visited, count, conn, refrVars>>

\* unlock and return: to init_conn, or to connect_random_IP
CheckUnlock(t) ==
    LET e == cur[t] IN
    /\ pc[t] = "check" /\ idx[t] > Len(list[e])
    /\ writer' = [writer EXCEPT ![e] = NoThread]
    /\ Goto(t, IF initWriter = t THEN "init_done"
               ELSE IF found[t] THEN "rd_list" ELSE "fall_back")
    /\ idx' = [idx EXCEPT ![t] = 1]
    /\ UNCHANGED <<initVars, refreshFlag, list, status, step,
                   readers, stepHolder, cur, base, visited, count, found, conn, refrVars>>

----------------------------------------------------------------------------
(* connect_random_IP and get_location, under the read lock of the entry *)

ReadLock(t) ==
    LET e == cur[t] IN
    /\ pc[t] = "rd_list" /\ writer[e] = NoThread
    /\ readers' = [readers EXCEPT ![e] = @ \cup {t}]
    /\ visited' = [visited EXCEPT ![t] = {}]
    /\ count' = [count EXCEPT ![t] = 0]
    /\ found' = [found EXCEPT ![t] = FALSE]
    /\ Goto(t, "get_location")
    /\ UNCHANGED <<initVars, refreshFlag, list, status, step,
                   writer, stepHolder, cur, idx, base, conn, refrVars>>

\* ind = rand() % ip_count
Starts(n) == {i \in 1..n : \E r \in Rands : i = (r % n) + 1}

\* the offset and its lock are those of the first ind
PickStart(t) ==
    /\ pc[t] = "get_location"
    /\ \E i \in Starts(Len(list[cur[t]])) :
          /\ idx' = [idx EXCEPT ![t] = i]
          /\ base' = [base EXCEPT ![t] = i]
    /\ Goto(t, "outer")
    /\ UNCHANGED <<initVars, refreshFlag, tabVars, cur, visited, count,
                   found, conn, refrVars>>

\* a slip: the limit is taken one node too early
Full_Early(t) == count[t] + 1 >= Len(list[cur[t]])

\* (*visited_count) == entry->ip_count
Full(t) == count[t] = Len(list[cur[t]])

\* entry->ip_status[ind] == WRONG || visited[ind] == TRUE
Rejected(t) == status[cur[t]][idx[t]] = "WRONG" \/ idx[t] \in visited[t]

\* a slip: visited_count is raised for a node that was already visited
MarkWrong_Twice(t) ==
    /\ pc[t] = "outer" /\ Rejected(t) /\ ~Full(t)
    /\ visited' = [visited EXCEPT ![t] = @ \cup {idx[t]}]
    /\ count' = [count EXCEPT ![t] = @ + 1]
    /\ Goto(t, "step_lock")
    /\ UNCHANGED <<initVars, refreshFlag, tabVars, cur, idx, base, found,
                   conn, refrVars>>

\* body of the outer while: mark a WRONG node as visited, then lock the step
MarkWrong(t) ==
    /\ pc[t] = "outer" /\ Rejected(t) /\ ~Full(t)
    /\ visited' = [visited EXCEPT ![t] = @ \cup {idx[t]}]
    /\ count' = [count EXCEPT ![t] = IF idx[t] \in visited[t] THEN @ ELSE @ + 1]
    /\ Goto(t, "step_lock")
    /\ UNCHANGED <<initVars, refreshFlag, tabVars, cur, idx, base, found,
                   conn, refrVars>>

StepLock(t) ==
    LET e == cur[t] IN
    /\ pc[t] = "step_lock" /\ stepHolder[e][base[t]] = NoThread
    /\ stepHolder' = [stepHolder EXCEPT ![e][base[t]] = t]
    /\ Goto(t, "inner")
    /\ UNCHANGED <<initVars, refreshFlag, list, status, step,
                   readers, writer, walkVars, conn, refrVars>>

\* a slip: the offset is not advanced
NextStep_Stuck(s) == s

\* (*offset)++, modulo StepMod
NextStep(s) == (s + 1) % StepMod

\* one turn of the inner while: ind = (ind + (*offset)++) % ip_count
Advance(t) ==
    LET e == cur[t]
        n == Len(list[e])
        s == step[e][base[t]]
    IN
    /\ pc[t] = "inner" /\ idx[t] \in visited[t] /\ ~Full(t)
    /\ idx' = [idx EXCEPT ![t] = ((@ - 1 + s) % n) + 1]
    /\ step' = [step EXCEPT ![e][base[t]] = NextStep(s)]
    /\ UNCHANGED <<initVars, refreshFlag, list, status, readers,
                   writer, stepHolder, pc, cur, base, visited, count, found, conn, refrVars>>

StepUnlock(t) ==
    LET e == cur[t] IN
    /\ pc[t] = "inner" /\ (idx[t] \notin visited[t] \/ Full(t))
    /\ stepHolder' = [stepHolder EXCEPT ![e][base[t]] = NoThread]
    /\ Goto(t, "outer")
    /\ UNCHANGED <<initVars, refreshFlag, list, status, step,
                   readers, writer, walkVars, conn, refrVars>>

\* get_location returns an index: it is marked visited and dialled next
Locate(t) ==
    /\ pc[t] = "outer" /\ (~Rejected(t) \/ Full(t))
    /\ idx[t] \notin visited[t]
    /\ visited' = [visited EXCEPT ![t] = @ \cup {idx[t]}]
    /\ count' = [count EXCEPT ![t] = @ + 1]
    /\ Goto(t, "dial")
    /\ UNCHANGED <<initVars, refreshFlag, tabVars, cur, idx, base, found,
                   conn, refrVars>>

\* get_location returns -1: unlock, connect_random_IP returns SQL_ERROR
GiveUp(t) ==
    LET e == cur[t] IN
    /\ pc[t] = "outer" /\ (~Rejected(t) \/ Full(t))
    /\ idx[t] \in visited[t]
    /\ readers' = [readers EXCEPT ![e] = @ \ {t}]
    /\ Goto(t, "fall_back") /\ LocalsGone(t)
    /\ UNCHANGED <<initVars, refreshFlag, list, status, step,
                   writer, stepHolder, cur, conn, refrVars>>

\* CC_connect succeeds: the node accepts, the initial queries succeed
DialOk(t) ==
    LET e == cur[t] IN
    /\ pc[t] = "dial" /\ conn[t] = "NOT_CONNECTED"
    /\ conn' = [conn EXCEPT ![t] = "CONNECTED"]
    /\ readers' = [readers EXCEPT ![e] = @ \ {t}]
    /\ Goto(t, IF t = Refresher THEN "exec" ELSE "connected") /\ LocalsGone(t)
    /\ cur' = [cur EXCEPT ![t] = "orig"]
    /\ UNCHANGED <<initVars, refreshFlag, list, status, step,
                   writer, stepHolder, refrVars>>

\* CC_connect fails.  CC_initial_log refuses a handle that is not fresh without
\* dialling; a refused dial or a failed CC_lookup_lo or client encoding leaves the
\* handle fresh; a session lost in the initial queries leaves it CONN_DOWN.
DialFail(t) ==
    /\ pc[t] = "dial"
    /\ \/ UNCHANGED conn
       \/ conn[t] = "NOT_CONNECTED" /\ conn' = [conn EXCEPT ![t] = "DOWN"]
    /\ Goto(t, "get_location")
    /\ UNCHANGED <<initVars, refreshFlag, tabVars, walkVars, refrVars>>

\* connect_IP: after a failed priority attempt try pgxc_entry, else give up;
\* the refresh thread frees its handles and starts over (continue)
FallBack(t) ==
    /\ pc[t] = "fall_back"
    /\ IF t \in PriorityThreads /\ cur[t] = "orig"
       THEN cur' = [cur EXCEPT ![t] = "pgxc"] /\ Goto(t, "chk_lock")
       ELSE /\ Goto(t, IF t = Refresher THEN "idle" ELSE "failed")
            /\ cur' = [cur EXCEPT ![t] = "orig"]
    /\ LocalsGone(t)
    /\ UNCHANGED <<initVars, refreshFlag, tabVars, conn, refrVars>>

----------------------------------------------------------------------------
(* read_pgxc_node, once its connection is open *)

\* SQLExecDirect of the pgxc_node query answers with some rows ...
ExecOk(t) ==
    /\ t = Refresher /\ pc[t] = "exec"
    /\ rows' \in Answers
    /\ temp' = << >> /\ fetchRc' = "SUCCESS"
    /\ Goto(t, "fetch")
    /\ UNCHANGED <<initVars, refreshFlag, tabVars, walkVars, conn,
                   refreshCount>>

\* ... or it, the statement allocation or the binding fails: free and continue
ExecFail(t) ==
    /\ t = Refresher /\ pc[t] = "exec"
    /\ Goto(t, "idle")
    /\ UNCHANGED <<initVars, refreshFlag, tabVars, walkVars, conn, refrVars>>

\* a slip: every row is taken for a configured node
IsConfigured_Any(n) == TRUE

\* cn_entry_contains(&orig_entry, ...): read without any lock
IsConfigured(n) == \E k \in 1..Len(list["orig"]) : list["orig"][k] = n

\* count >= MAX_CN
TempFull == Len(temp) >= MaxCN

\* SQLFetch returns a row: ignored when not configured, else kept, and the
\* first kept row already lets the waiting threads go
FetchRow(t) ==
    /\ t = Refresher /\ pc[t] = "fetch" /\ rows # << >>
    /\ IF ~IsConfigured(Head(rows))
       THEN rows' = Tail(rows) /\ UNCHANGED <<temp, refreshFlag, fetchRc, pc>>
       ELSE IF TempFull
       THEN /\ fetchRc' = "OVERFLOW" /\ rows' = << >>
            /\ Goto(t, "after_fetch") /\ UNCHANGED <<temp, refreshFlag>>
       ELSE /\ temp' = Append(temp, Head(rows)) /\ refreshFlag' = TRUE
            /\ rows' = Tail(rows)
            /\ UNCHANGED <<fetchRc, pc>>
    /\ UNCHANGED <<initVars, tabVars, walkVars, conn, refreshCount>>

\* SQLFetch returns SQL_NO_DATA at the end, or SQL_ERROR anywhere
FetchEnd(t) ==
    /\ t = Refresher /\ pc[t] = "fetch"
    /\ \/ rows = << >> /\ fetchRc' = "NO_DATA"
       \/ fetchRc' = "ERROR"
    /\ rows' = << >>
    /\ Goto(t, "after_fetch")
    /\ UNCHANGED <<initVars, refreshFlag, tabVars, walkVars, conn,
                   temp, refreshCount>>

\* refresh_count++, the give-up rule (an overflow sets rc to SQL_ERROR too), and
\* whether the list will be rewritten: if (!overflow && count != 0)
AfterFetch(t) ==
    /\ t = Refresher /\ pc[t] = "after_fetch"
    /\ refreshCount' = IF refreshCount > RefreshLimit THEN refreshCount
                       ELSE refreshCount + 1
    /\ refreshFlag' = (refreshFlag \/
                         (refreshCount' > RefreshLimit /\ fetchRc \in {"ERROR", "OVERFLOW"}))
    /\ IF fetchRc # "OVERFLOW" /\ temp # << >>
       THEN Goto(t, "rewrite") /\ UNCHANGED <<temp, fetchRc>>
       ELSE Goto(t, "idle") /\ temp' = << >> /\ fetchRc' = "SUCCESS"
    /\ UNCHANGED <<initVars, tabVars, walkVars, conn, rows>>

\* wrlock(pgxc_entry.ip_list_lock), rewrite hosts, ports and counts -- not
\* ip_status -- and unlock
RewriteList(t) ==
    /\ t = Refresher /\ pc[t] = "rewrite"
    /\ CanWrite("pgxc")
    /\ list' = [list EXCEPT !["pgxc"] = temp]
    /\ temp' = << >> /\ fetchRc' = "SUCCESS"
    /\ Goto(t, "idle")
    /\ UNCHANGED <<initVars, refreshFlag, status, step, readers,
                   writer, stepHolder, walkVars, conn, rows, refreshCount>>

----------------------------------------------------------------------------
Step(t) ==
    \/ StartConnect(t) \/ Precheck(t) \/ ReadInited(t) \/ LockInit(t)
    \/ InitConn(t) \/ InitDone(t) \/ SetPrecheck(t) \/ WaitFlag(t) \/ ConnectIP(t)
    \/ CheckLock(t) \/ CheckOne(t) \/ CheckUnlock(t)
    \/ ReadLock(t) \/ PickStart(t) \/ MarkWrong(t) \/ StepLock(t) \/ Advance(t)
    \/ StepUnlock(t) \/ Locate(t) \/ GiveUp(t) \/ DialOk(t) \/ DialFail(t)
    \/ FallBack(t)
    \/ ExecOk(t) \/ ExecFail(t) \/ FetchRow(t) \/ FetchEnd(t) \/ AfterFetch(t)
    \/ RewriteList(t)

Next == \E t \in Threads : Step(t)
Spec == Init /\ [][Next]_vars

----------------------------------------------------------------------------
(* Properties *)

\* Whatever the servers answer, every node in either table and in the refresh
\* thread's buffer, so every node that is probed or dialled, was named in the
\* DSN: rows of pgxc_node can only narrow that list (cn_entry_contains, 113-129).
OnlyConfigured ==
    /\ \A e \in Entries : \A k \in 1..Len(list[e]) : list[e][k] \in Configured
    /\ \A k \in 1..Len(temp) : temp[k] \in Configured

\* No thread looks at the tables before init_conn has completed, except the one
\* thread that is running init_conn under init_lock (check_and_init, 536-571).
InitBeforeUse ==
    \A t \in Threads :
       pc[t] \in {"chk_lock", "check", "rd_list", "fall_back"} \cup
                 Walking \cup RefreshPcs \cup {"connected"} =>
          inited \/ initWriter = t

\* init_conn runs once (check_and_init, 536-571).  After conn_inited the parsed DSN
\* never changes, no probed status is wiped, and no thread loses a lock it holds
\* to somebody else's memset: a lock is given up by a step of its holder.
InitOnce ==
    [][inited =>
        /\ inited' /\ list'["orig"] = list["orig"]
        /\ \A e \in Entries, i \in Index : status[e][i] # "EMPTY" => status'[e][i] # "EMPTY"
        /\ \A e \in Entries, t \in Threads :
              t \in (readers[e] \ readers'[e]) \/ (writer[e] = t /\ writer'[e] # t) =>
                 pc'[t] # pc[t]]_vars

\* While a thread walks or dials under the read lock of an entry nobody changes
\* that entry's nodes or status: host, port and status stay those of one list.
ReadersSeeStableTable ==
    [][\A e \in Entries : (\E t \in Threads : pc[t] \in Walking /\ cur[t] = e) =>
          list'[e] = list[e] /\ status'[e] = status[e]]_vars

\* visited_count counts the set bits of visited[] exactly (it decides when the
\* walk stops), and the position being dialled is one of the listed ones.
VisitedExact ==
    \A t \in Threads : pc[t] \in Walking =>
       /\ count[t] = Cardinality(visited[t])
       /\ visited[t] \subseteq 1..Len(list[cur[t]])
       /\ pc[t] # "get_location" => idx[t] \in 1..Len(list[cur[t]])

\* A walk that gives up has handed out every node not marked WRONG.
GiveUpComplete ==
    [][\A t \in Threads : pc[t] = "outer" /\ pc'[t] = "fall_back" =>
          \A i \in 1..Len(list[cur[t]]) : i \in visited[t] \/ status[cur[t]][i] = "WRONG"]_vars

\* The inner loop of get_location (453-457) moves by a growing offset, so by
\* triangular numbers: it never ends when all the positions it comes to are visited
\* and one it never comes to is not.  Of three nodes it comes to two.
Trapped(t) ==
    LET n == Len(list[cur[t]])
        s == step[cur[t]][base[t]]
        At(k) == ((idx[t] - 1 + k * s + (k * (k - 1)) \div 2) % n) + 1
    IN pc[t] = "inner" /\ ~Full(t) /\ \A k \in 0..(2 * n) : At(k) \in visited[t]

\* A client that waits for refresh_flag in PGAPI_Connect (694-708) returns once the
\* flag is set, whatever fails: probing, walking and falling back all end, unless a
\* thread is trapped in the inner loop (a defect: the comment of connection.c:493
\* says that only success or the failure of all nodes ends the walk).
WaitersReturn ==
    \A t \in Clients :
       (refreshFlag /\ pc[t] = "wait_flag") ~>
          (pc[t] \in {"connected", "failed"} \/ \E u \in Threads : Trapped(u))

============================================================================
