-------------------------------- MODULE XaLib --------------------------------
(***************************************************************************)
(* pgxalib.cpp: the XA routines the transaction manager loads into its own *)
(* process to settle, after a failure, the transactions the server still   *)
(* holds prepared.  xa_open registers a resource manager, xa_recover lists *)
(* the prepared transactions a few at a time, xa_commit and xa_rollback    *)
(* end one of them, xa_close forgets the resource manager.                 *)
(*                                                                         *)
(* One resource manager.  The order of the calls is the transaction        *)
(* manager's (external): open, scan to the end, settle what was found,     *)
(* close; a call that fails sends it back to the start.                    *)
(***************************************************************************)
EXTENDS Integers, Sequences, SequencesExt

CONSTANTS
  OwnXid,         \* the transaction of the application: [gtrid, bqual]
  ForeignGid,     \* the name of a transaction somebody else prepared
  ScanCount,      \* how many identifiers fit into the array of xa_recover
  MaxFaults,      \* a bound on the failures of servers, connections, threads
  Risky           \* circumstances in which a property does not hold

Bytes == 0 .. 255
\* A name is a sequence of characters, given by their values as digits; a
\* dash read as a digit (chr - '0') is -3.
Dash  == -3

ASSUME XidAssumption ==
  OwnXid \in [gtrid : Seq(Bytes), bqual : Seq(Bytes)] /\ OwnXid.gtrid # << >>
ASSUME GidAssumption == ForeignGid \in Seq(-3 .. 15)
ASSUME ScanAssumption == ScanCount \in Nat \ {0} /\ MaxFaults \in Nat

-----------------------------------------------------------------------------
(* Names: two hexadecimal digits for each byte, a dash between the parts.  *)

Hex(bytes) == [i \in 1 .. 2 * Len(bytes) |->
                 IF i % 2 = 1 THEN bytes[(i + 1) \div 2] \div 16 ELSE bytes[i \div 2] % 16]

XidToText(xid) == Hex(xid.gtrid) \o <<Dash>> \o Hex(xid.bqual)

\* The digits of a byte are taken as they come, high half first; the last
\* digit of an odd number of them is dropped with the length of the part.
\* slip: the halves the other way round.
pg_hex2binSwapped(s) == [i \in 1 .. Len(s) \div 2 |-> s[2 * i - 1] + 16 * s[2 * i]]
pg_hex2bin(s) == [i \in 1 .. Len(s) \div 2 |-> 16 * s[2 * i - 1] + s[2 * i]]

\* The first dash divides the name; a name without one is all gtrid.
TextToXid(g) ==
  LET dashes == {i \in DOMAIN g : g[i] = Dash}
      at     == IF dashes = {} THEN Len(g) + 1 ELSE CHOOSE i \in dashes : \A j \in dashes : i <= j
  IN [gtrid |-> pg_hex2bin(SubSeq(g, 1, at - 1)),
      bqual |-> pg_hex2bin(SubSeq(g, at + 1, Len(g)))]

-----------------------------------------------------------------------------
VARIABLES
  gids,           \* pg_prepared_xacts: the names of the prepared transactions
  faults,         \* how many failures there have been
  xaConn,         \* xaconn of the table entry: "none" (no entry), "null", "live", "stale"
  xaVec,          \* qvec: the names of the scan
  xaPos,          \* pos: the next name to hand out, counted from 0; -1 is none
  xaFound,        \* the identifiers the transaction manager has been given
  xaPc            \* where the transaction manager is: "off", "open", "scan", "more", "end", "settle", "close"

xaVars == <<xaConn, xaVec, xaPos, xaFound, xaPc>>

OwnGid == XidToText(OwnXid)

XaInit ==
  /\ gids = {ForeignGid}
  /\ faults = 0
  /\ xaConn = "none"
  /\ xaVec = << >>
  /\ xaPos = -1
  /\ xaFound = {}
  /\ xaPc = "off"

\* A server command or a thread creation may fail while the bound lasts.
Fault == faults < MaxFaults /\ faults' = faults + 1
NoFault == UNCHANGED faults

\* ActivateConnection: the connection is made at the first need and kept.
\* A handle whose connect fails is freed and yet kept: the next caller gets it
\* ("connect_fails").
ActivateConnection(made) ==
  \/ xaConn = "live" /\ made /\ NoFault /\ UNCHANGED xaConn
  \/ xaConn = "null" /\ made /\ NoFault /\ xaConn' = "live"
  \/ xaConn = "null" /\ ~made /\ "connect_fails" \in Risky /\ Fault /\ xaConn' = "stale"
  \/ xaConn = "stale" /\ made /\ NoFault /\ UNCHANGED xaConn

\* The constructor: no connection, no scan.  With immediateConnection the
\* connection is made at once, else by the first routine that needs it.
xa_open ==
  /\ xaPc = "open"
  /\ xaConn = "none"
  /\ \/ xaConn' = "null" /\ NoFault
     \/ xaConn' = "live" /\ NoFault
     \/ "connect_fails" \in Risky /\ Fault /\ xaConn' = "stale"
  /\ xaVec' = << >> /\ xaPos' = -1 /\ xaFound' = {}
  /\ xaPc' = IF xaConn' = "stale" THEN "close" ELSE "scan"
  /\ UNCHANGED gids

xa_close ==
  /\ xaPc = "close"
  /\ xaConn' = "none" /\ xaVec' = << >> /\ xaPos' = -1 /\ xaFound' = {}
  /\ xaPc' = "off"
  /\ UNCHANGED <<gids, faults>>

\* What a part of the scan hands out of vec, from pos on.
Handed(vec, pos) ==
  LET n == Len(vec) - pos IN IF n > ScanCount THEN ScanCount ELSE n

\* xa_recover with TMSTARTRSCAN: the query, then the first part.  A server
\* that refuses the query leaves pos at -1 and the routine answers
\* XAER_RMERR; a connection that cannot be made answers XAER_RMERR too, or 0
\* for an authentication error, and then the transaction manager believes
\* that nothing is prepared.
xa_recoverStart ==
  /\ xaPc = "scan"
  /\ \/ /\ ActivateConnection(TRUE)
        /\ \E vec \in SetToSeqs(gids) :
             LET n == Handed(vec, 0) IN
             /\ xaVec' = vec
             /\ xaPos' = n
             /\ xaFound' = {TextToXid(vec[i]) : i \in 1 .. n}
             /\ xaPc' = IF n < ScanCount THEN "end" ELSE "more"
     \/ /\ xaConn \in {"null", "live"} /\ xaConn' = "live"
        /\ Fault
        /\ xaVec' = << >> /\ xaPos' = -1
        /\ xaPc' = "close"
        /\ UNCHANGED xaFound
     \/ /\ ActivateConnection(FALSE)
        /\ xaPc' \in {"settle", "close"}
        /\ UNCHANGED <<xaVec, xaPos, xaFound>>
  /\ UNCHANGED gids

\* A further part of the scan, and the call with TMENDRSCAN, which hands out
\* what is left and forgets the names.
xa_recoverNext ==
  /\ xaPc = "more"
  /\ LET n == Handed(xaVec, xaPos) IN
     /\ xaFound' = xaFound \cup {TextToXid(xaVec[xaPos + i]) : i \in 1 .. n}
     /\ xaPos' = xaPos + n
     /\ xaPc' = IF n < ScanCount THEN "end" ELSE "more"
  /\ UNCHANGED <<gids, faults, xaConn, xaVec>>

xa_recoverEnd ==
  /\ xaPc = "end"
  /\ xaFound' = xaFound \cup {TextToXid(xaVec[xaPos + i]) : i \in 1 .. Handed(xaVec, xaPos)}
  /\ xaVec' = << >> /\ xaPos' = -1
  /\ xaPc' = "settle"
  /\ UNCHANGED <<gids, faults, xaConn>>

\* xa_commit and xa_rollback: COMMIT or ROLLBACK PREPARED on the connection.
\* A transaction that is no longer there (42704) is XA_HEURHAZ: nothing is
\* left to do.  Any other failure is XAER_RMERR and the transaction manager
\* comes back.
xa_resolve(xid) ==
  /\ xaPc = "settle"
  /\ xid \in xaFound
  /\ \/ /\ ActivateConnection(TRUE)
        /\ gids' = gids \ {XidToText(xid)}
        /\ xaFound' = xaFound \ {xid}
        /\ UNCHANGED xaPc
     \/ /\ xaConn \in {"null", "live"} /\ xaConn' = "live"
        /\ Fault
        /\ xaPc' = "close"
        /\ UNCHANGED <<gids, xaFound>>
  /\ UNCHANGED <<xaVec, xaPos>>

\* The transaction manager leaves alone what it never started (external).
SettledAll ==
  /\ xaPc = "settle"
  /\ OwnXid \notin xaFound
  /\ xaPc' = "close"
  /\ UNCHANGED <<gids, faults, xaConn, xaVec, xaPos, xaFound>>

XaRoutine == xa_open \/ xa_close \/ xa_recoverStart \/ xa_recoverNext \/ xa_recoverEnd \/ SettledAll
==============================================================================
