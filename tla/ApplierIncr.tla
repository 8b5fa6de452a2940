---------------------------- MODULE ApplierIncr ----------------------------
(***************************************************************************)
(* The incremental replay of driver/mysql/applier_incr.go: the goroutine   *)
(* that handles the entries of the binlog stream in order (handleEntry),   *)
(* the MTS workers that apply and commit them on the target MySQL, the     *)
(* executor of the big-transaction pipe, LcUpdater, and updateGtidLoop of  *)
(* driver/mysql/applier.go.                                                *)
(*                                                                         *)
(* An entry is a transaction, or a part of a big one.  Its rows stand for  *)
(* the rows of one row event; a DDL entry is a single DDL statement.  The  *)
(* target database is openTx (the open transaction of each connection),    *)
(* log (what was committed, in order) and the gtid_executed table of the   *)
(* job: gtidRows (one row per transaction) and gtidSummary (the row with   *)
(* gtid = 0).                                                              *)
(***************************************************************************)
EXTENDS WritesetManager, MtsManager, SequencesExt

CONSTANTS
  Cases,               \* configurations with the stream the source sends, see CaseOK
  ParallelWorkers,
  MtsQueueCap,         \* capacity of applyBinlogMtsTxQueue
  BigTxQueueCap,       \* capacity of bigTxEventQueue
  ResendInFlight       \* may a complete transaction be sent again before it is in gtidSet?

VARIABLES
  case,                \* one of Cases
  pos, resends,
  hpc,                 \* the replaying goroutine
  blocked,             \* it is in the select of a wait
  cur, rotated,        \* locals of handleEntry
  replayingBinlogFile, prevDDL, nRow,
  inBigTx,
  columns,             \* tableItem.Columns: the schema version it was read at, or Nil
  mtsQueue, thr,       \* applyBinlogMtsTxQueue; the goroutines inside ApplyBinlogEvent
  dbMutex,             \* holder of DbMutex of connection 0
  bigTxEventQueue, bigTxEventWg,
  openTx, log, gtidRows, gtidSummary,
  gtidCh, gtidSet,
  consulGtid,          \* the GTID set last saved in Consul
  shutdown,            \* "no" | "closing" | "waiting" | "closed"
  closer,              \* the goroutine that runs Applier.Shutdown
  panicked, restarts, errors

srcVars  == <<case, pos, resends>>
hVars    == <<hpc, blocked, cur, rotated, replayingBinlogFile, prevDDL, nRow>>
wVars    == <<mtsQueue, thr, dbMutex>>
bigVars  == <<bigTxEventQueue, bigTxEventWg>>
dbVars   == <<openTx, log, gtidRows, gtidSummary>>
gtidVars == <<gtidCh, gtidSet, consulGtid>>
endVars  == <<shutdown, closer, panicked, restarts, errors>>
vars == <<case, pos, resends, hpc, blocked, cur, rotated, replayingBinlogFile, prevDDL, nRow,
          lastCommitted, lastEnqueue, updated, m, upc, history, lastCommonParent,
          inBigTx, columns, mtsQueue, thr, dbMutex, bigTxEventQueue, bigTxEventWg,
          openTx, log, gtidRows, gtidSummary, gtidCh, gtidSet, consulGtid,
          shutdown, closer, panicked, restarts, errors>>

Nil == -1
Worker   == 0..(ParallelWorkers - 1)
Replayer == ParallelWorkers       \* the replaying goroutine, as a user of a connection
Executor == ParallelWorkers + 1   \* bigTxQueueExecutor
Driver   == ParallelWorkers + 2   \* the caller of Shutdown from outside
Thread   == Worker \cup {Replayer}
Conn(t)  == IF t = Replayer THEN 0 ELSE t

IsPartOfBigTx(e) == ~(e.index = 0 /\ e.final)

NoEntry == [gno |-> 0, file |-> 0, seq |-> 0, lc |-> 0, index |-> 0, final |-> TRUE,
            ddl |-> FALSE, own |-> FALSE, rows |-> <<>>, cols |-> Nil]
NoTx    == [gno |-> 0, rows |-> <<>>]
Idle    == [pc |-> "idle", e |-> NoEntry, i |-> 0]

-----------------------------------------------------------------------------
\* What the replay must look like from outside.
stream == case.stream
Target == INSTANCE ParallelReplay WITH stream <- stream, log <- log

\* The version of the target's schema: the number of DDLs executed.
SchemaVersion == Cardinality({i \in DOMAIN log : Target!IsDDL(log[i].gno)})

\* A stream the source can send: the parts of a transaction follow each other,
\* sequence numbers grow within a file, and last_committed covers conflicts.
WellFormed(s) ==
  \A i \in DOMAIN s :
    /\ \/ s[i].index = 0
       \/ i > 1 /\ s[i - 1].gno = s[i].gno /\ s[i].index = s[i - 1].index + 1
    /\ i > 1 /\ s[i].index = 0 => s[i - 1].final /\ s[i - 1].gno < s[i].gno
    /\ s[i].seq # 0 => s[i].seq \in SeqNum /\ s[i].lc < s[i].seq
    /\ \A j \in 1..(i - 1) :
         s[j].file = s[i].file /\ s[j].gno # s[i].gno /\ s[i].seq # 0 =>
           s[j].seq < s[i].seq /\ (Conflict(s[j], s[i]) => s[j].seq <= s[i].lc)

\* UseMySQLDependency; noPipe: DTLE_NO_BIG_TX_DML_PIPE is set; cleanup:
\* cleanupGtidExecutedLimit; what may happen: lost connections to the source,
\* restarts of this task, errors of the target database, a failed bigtx_ack
\* request, a shutdown by the driver
CaseOK(c) ==
  /\ WellFormed(c.stream)
  /\ c.cleanup \in Nat \ {0} /\ {c.resends, c.restarts, c.errors} \subseteq Nat
  /\ {c.mysqlDependency, c.noPipe, c.ackMayFail, c.mayShutdown} \subseteq BOOLEAN

ASSUME ApplierAssumption ==
  /\ ParallelWorkers \in Nat \ {0}
  /\ {MtsQueueCap, BigTxQueueCap} \subseteq Nat \ {0}
  /\ ResendInFlight \in BOOLEAN
  /\ \A c \in Cases : CaseOK(c)

Init ==
  /\ case \in Cases
  /\ pos = 1
  /\ resends = 0
  /\ hpc = "select"
  /\ blocked = FALSE
  /\ cur = NoEntry
  /\ rotated = FALSE
  /\ replayingBinlogFile = 0
  /\ prevDDL = FALSE
  /\ nRow = 0
  /\ MtsInit
  /\ WsInit
  /\ inBigTx = FALSE
  /\ columns = Nil
  /\ mtsQueue = <<>>
  /\ thr = [t \in Thread |-> Idle]
  /\ dbMutex = Nil
  /\ bigTxEventQueue = <<>>
  /\ bigTxEventWg = 0
  /\ openTx = [c \in Worker |-> NoTx]
  /\ log = <<>>
  /\ gtidRows = {}
  /\ gtidSummary = {}
  /\ gtidCh = <<>>
  /\ gtidSet = {}
  /\ consulGtid = {}
  /\ shutdown = "no"
  /\ closer = Nil
  /\ panicked = FALSE
  /\ restarts = 0
  /\ errors = 0

-----------------------------------------------------------------------------
(* handleEntry, up to the decision what to do with the entry.              *)

\* What handleEntry does with any entry: a first part that arrives inside a
\* big transaction means that the source is resending.
NextEntry == stream[pos]

TakeEntry ==
  LET resent == inBigTx /\ NextEntry.index = 0
  IN  /\ hpc = "select"
      /\ pos \in DOMAIN stream
      /\ pos' = pos + 1
      /\ openTx' = IF resent THEN [openTx EXCEPT ![0] = NoTx] ELSE openTx
      /\ lastEnqueue' = IF resent THEN 0 ELSE lastEnqueue
      /\ inBigTx' = (inBigTx /\ ~resent)
      /\ UNCHANGED <<case, resends, lastCommitted, updated, m, upc, history, lastCommonParent,
                     blocked, prevDDL, columns, mtsQueue, thr, dbMutex, bigTxEventQueue, bigTxEventWg,
                     log, gtidRows, gtidSummary, gtidSet, consulGtid,
                     shutdown, closer, panicked, restarts, errors>>

\* Mutant of ExecutedGtid: every part of a big transaction counts.
ExecutedGtidOfPart(e) == Append(gtidCh, e.gno)

\* EntryExecutedHook: the GTID goes to updateGtidLoop with the last part.
ExecutedGtid(e) == IF e.final THEN Append(gtidCh, e.gno) ELSE gtidCh

\* A transaction that this target executed first (or that the forward job of
\* a two-way pair executed): the hook only makes the GTID set continuous.
HandleOwnEntry ==
  /\ TakeEntry
  /\ NextEntry.own
  /\ gtidCh' = ExecutedGtid(NextEntry)
  /\ UNCHANGED <<hpc, cur, rotated, replayingBinlogFile, nRow>>

HandleExecutedEntry ==
  /\ TakeEntry
  /\ ~NextEntry.own
  /\ NextEntry.gno \in gtidSet
  /\ UNCHANGED <<hpc, cur, rotated, replayingBinlogFile, nRow, gtidCh>>

\* Where handleEntry goes once the gtid_executed table has room.
AfterCleanup(e, rot) ==
  IF e.seq = 0 \/ e.index # 0 THEN "dispatch" ELSE IF rot THEN "rotate" ELSE "skip"

HandleNewEntry ==
  /\ TakeEntry
  /\ ~NextEntry.own
  /\ NextEntry.gno \notin gtidSet
  /\ cur' = NextEntry
  /\ rotated' = (replayingBinlogFile # NextEntry.file)
  /\ replayingBinlogFile' = NextEntry.file
  /\ IF nRow >= case.cleanup
     THEN hpc' = "clean" /\ UNCHANGED nRow
     ELSE hpc' = AfterCleanup(NextEntry, rotated') /\ nRow' = nRow + 1
  /\ UNCHANGED gtidCh

-----------------------------------------------------------------------------
(* The waits of the replaying goroutine.                                   *)

WaitTest(pc, condition) == hpc = pc /\ ~blocked /\ condition

\* The condition of the wait does not hold: into the select.
Block ==
  /\ \/ WaitTest("clean", ~AllCommitted)
     \/ WaitTest("rotate", ~AllCommitted)
     \/ WaitTest("all", ~AllCommitted)
     \/ WaitTest("exec", ~MayExecute(cur.lc))
  /\ blocked' = TRUE
  /\ UNCHANGED <<srcVars, hpc, cur, rotated, replayingBinlogFile, prevDDL, nRow, mtsVars, wsVars,
                 inBigTx, columns, wVars, bigVars, dbVars, gtidVars, endVars>>

\* case <-mm.updated
Woken ==
  /\ blocked
  /\ Wakeup
  /\ blocked' = FALSE
  /\ UNCHANGED <<srcVars, hpc, cur, rotated, replayingBinlogFile, prevDDL, nRow, wsVars,
                 inBigTx, columns, wVars, bigVars, dbVars, gtidVars, endVars>>

\* Mutant of Aborted: the waits have no shutdown case.
NeverAborted == FALSE /\ UNCHANGED vars

\* case <-mm.shutdownCh: the wait returns false.  cleanGtidExecuted then
\* returns nil and handleEntry goes on; the other waits end handleEntry.
Aborted ==
  /\ blocked
  /\ shutdown # "no"
  /\ blocked' = FALSE
  /\ IF hpc = "clean"
     THEN hpc' = AfterCleanup(cur, rotated) /\ nRow' = 2
     ELSE hpc' = "select" /\ UNCHANGED nRow
  /\ UNCHANGED <<srcVars, cur, rotated, replayingBinlogFile, prevDDL, mtsVars, wsVars,
                 inBigTx, columns, wVars, bigVars, dbVars, gtidVars, endVars>>

\* What a statement does on connection c that commits its open transaction.
ImplicitCommit(c) == IF openTx[c].gno = 0 THEN log ELSE Append(log, openTx[c])

\* What cleanGtidExecuted writes in place of the rows: a.gtidSet.
CleanedGtidSet == gtidSet

\* cleanGtidExecuted, after its wait: one transaction on connection 0 deletes
\* the rows of the job and inserts the summary; to begin it commits the
\* transaction that is open there.
CleanGtidExecuted ==
  /\ WaitTest("clean", AllCommitted)
  /\ gtidRows' = {}
  /\ gtidSummary' = CleanedGtidSet
  /\ log' = ImplicitCommit(0)
  /\ openTx' = [openTx EXCEPT ![0] = NoTx]
  /\ nRow' = 2
  /\ hpc' = AfterCleanup(cur, rotated)
  /\ UNCHANGED <<srcVars, blocked, cur, rotated, replayingBinlogFile, prevDDL, mtsVars, wsVars,
                 inBigTx, columns, wVars, bigVars, gtidVars, endVars>>

RotateBinlog ==
  /\ WaitTest("rotate", AllCommitted)
  /\ ResetSeq
  /\ ResetCommonParent(0)
  /\ hpc' = "skip"
  /\ UNCHANGED <<srcVars, blocked, cur, rotated, replayingBinlogFile, prevDDL, nRow,
                 inBigTx, columns, wVars, bigVars, dbVars, gtidVars, endVars>>

\* Numbers left out by the source are reported as executed; the send has no
\* shutdown case.
SkipSeq ==
  /\ hpc = "skip"
  /\ lastEnqueue + 1 < cur.seq
  /\ LcUpdaterReceive(lastEnqueue + 1)
  /\ lastEnqueue' = lastEnqueue + 1
  /\ UNCHANGED <<srcVars, hVars, lastCommitted, updated, wsVars,
                 inBigTx, columns, wVars, bigVars, dbVars, gtidVars, endVars>>

MustBeSeparate(e) == e.ddl \/ prevDDL \/ IsPartOfBigTx(e)

SkipDone ==
  /\ hpc = "skip"
  /\ lastEnqueue + 1 >= cur.seq
  /\ hpc' = IF MustBeSeparate(cur) THEN "all" ELSE "dispatch"
  /\ UNCHANGED <<srcVars, blocked, cur, rotated, replayingBinlogFile, prevDDL, nRow, mtsVars, wsVars,
                 inBigTx, columns, wVars, bigVars, dbVars, gtidVars, endVars>>

\* DDL, the transaction behind a DDL, and the first part of a big transaction
SeparateTx ==
  /\ WaitTest("all", AllCommitted)
  /\ hpc' = "dispatch"
  /\ prevDDL' = cur.ddl
  /\ IF IsPartOfBigTx(cur)
     THEN inBigTx' = TRUE /\ ResetCommonParent(cur.seq)
     ELSE UNCHANGED <<inBigTx, wsVars>>
  /\ UNCHANGED <<srcVars, blocked, cur, rotated, replayingBinlogFile, nRow, mtsVars,
                 columns, wVars, bigVars, dbVars, gtidVars, endVars>>

\* setTableItemForBinlogEntry: a DML entry needs the columns of its table,
\* cached or read from the target.
SetTableItem(e) ==
  IF e.ddl
  THEN UNCHANGED columns
  ELSE columns' = IF columns = Nil THEN SchemaVersion ELSE columns

\* Parts of a big transaction, and everything when the source has no logical
\* clock (seq = 0), are applied by this goroutine.
DispatchSync ==
  /\ hpc = "dispatch"
  /\ cur.seq = 0 \/ IsPartOfBigTx(cur)
  /\ SetTableItem(cur)
  /\ inBigTx' = (inBigTx \/ (cur.seq = 0 /\ IsPartOfBigTx(cur)))
  /\ lastEnqueue' = IF cur.seq # 0 /\ cur.index = 0 THEN cur.seq ELSE lastEnqueue
  /\ thr' = [thr EXCEPT ![Replayer] = [pc |-> "lock", e |-> [cur EXCEPT !.cols = columns'], i |-> 1]]
  /\ hpc' = "apply"
  /\ cur' = NoEntry
  /\ UNCHANGED <<srcVars, blocked, rotated, replayingBinlogFile, prevDDL, nRow, lastCommitted, updated, m, upc,
                 wsVars, mtsQueue, dbMutex, bigVars, dbVars, gtidVars, endVars>>

\* Other transactions: GatLastCommit, and the first line of WaitForExecution
DispatchMts ==
  /\ hpc = "dispatch"
  /\ cur.seq # 0
  /\ ~IsPartOfBigTx(cur)
  /\ SetTableItem(cur)
  /\ IF case.mysqlDependency
     THEN cur' = [cur EXCEPT !.cols = columns'] /\ UNCHANGED wsVars
     ELSE cur' = [cur EXCEPT !.cols = columns', !.lc = LastCommitOf(cur)] /\ GatLastCommit(cur)
  /\ lastEnqueue' = cur.seq
  /\ hpc' = "exec"
  /\ UNCHANGED <<srcVars, blocked, rotated, replayingBinlogFile, prevDDL, nRow, lastCommitted, updated, m, upc,
                 inBigTx, wVars, bigVars, dbVars, gtidVars, endVars>>

\* WaitForExecution returns true, then the send to the workers, which has no
\* shutdown case.
Enqueue ==
  /\ WaitTest("exec", MayExecute(cur.lc))
  /\ Len(mtsQueue) < MtsQueueCap
  /\ mtsQueue' = Append(mtsQueue, cur)
  /\ hpc' = "select"
  /\ cur' = NoEntry
  /\ UNCHANGED <<srcVars, blocked, rotated, replayingBinlogFile, prevDDL, nRow, mtsVars, wsVars,
                 inBigTx, columns, thr, dbMutex, bigVars, dbVars, gtidVars, endVars>>

ReplayExit ==
  /\ hpc = "select"
  /\ shutdown # "no"
  /\ hpc' = "exited"
  /\ UNCHANGED <<srcVars, blocked, cur, rotated, replayingBinlogFile, prevDDL, nRow, mtsVars, wsVars,
                 inBigTx, columns, wVars, bigVars, dbVars, gtidVars, endVars>>

-----------------------------------------------------------------------------
(* ApplyBinlogEvent, by a worker on its own connection or by the replaying *)
(* goroutine on connection 0.                                              *)

At(t, pc) == thr[t].pc = pc
Goto(t, pc) == thr' = [thr EXCEPT ![t].pc = pc]

\* OnError: the first error starts Applier.Shutdown in the failing goroutine.
OnError(t) ==
  /\ shutdown' = IF shutdown = "no" THEN "closing" ELSE shutdown
  /\ closer' = IF shutdown = "no" THEN t ELSE closer

\* ApplyBinlogEvent returns an error: the worker ends; the replaying goroutine
\* leaves its wait group before it calls OnError.
ApplyError(t) ==
  /\ thr' = [thr EXCEPT ![t] = [Idle EXCEPT !.pc = "dead"]]
  /\ dbMutex' = IF dbMutex = t THEN Nil ELSE dbMutex
  /\ hpc' = IF t = Replayer THEN "exited" ELSE hpc
  /\ OnError(t)
  /\ UNCHANGED <<srcVars, blocked, cur, rotated, replayingBinlogFile, prevDDL, nRow, mtsVars, wsVars,
                 inBigTx, columns, mtsQueue, bigTxEventQueue, dbVars, gtidVars, panicked, restarts>>

\* A row of transaction g executed on connection c, outside a transaction
\* with autocommit.
ExecRow(c, g, row) ==
  IF openTx[c].gno = 0
  THEN log' = Append(log, [gno |-> g, rows |-> <<row>>]) /\ UNCHANGED openTx
  ELSE openTx' = [openTx EXCEPT ![c].rows = Append(@, row)] /\ UNCHANGED log

Dequeue(w) ==
  /\ At(w, "idle")
  /\ mtsQueue # <<>>
  /\ thr' = [thr EXCEPT ![w] = [pc |-> "lock", e |-> Head(mtsQueue), i |-> 1]]
  /\ mtsQueue' = Tail(mtsQueue)
  /\ UNCHANGED <<srcVars, hVars, mtsVars, wsVars, inBigTx, columns, dbMutex,
                 bigVars, dbVars, gtidVars, endVars>>

WorkerExit(w) ==
  /\ At(w, "idle")
  /\ shutdown # "no"
  /\ Goto(w, "dead")
  /\ UNCHANGED <<srcVars, hVars, mtsVars, wsVars, inBigTx, columns, mtsQueue, dbMutex,
                 bigVars, dbVars, gtidVars, endVars>>

\* DbMutex.Lock() and "begin"
Begin(t) ==
  /\ At(t, "lock")
  /\ shutdown # "closed"
  /\ Conn(t) = 0 => dbMutex = Nil
  /\ dbMutex' = IF Conn(t) = 0 THEN t ELSE dbMutex
  /\ Goto(t, "event")
  /\ IF thr[t].e.index = 0 /\ ~thr[t].e.ddl
     THEN /\ log' = ImplicitCommit(Conn(t))
          /\ openTx' = [openTx EXCEPT ![Conn(t)] = [gno |-> thr[t].e.gno, rows |-> <<>>]]
     ELSE UNCHANGED <<log, openTx>>
  /\ UNCHANGED <<srcVars, hVars, mtsVars, wsVars, inBigTx, columns, mtsQueue,
                 bigVars, gtidRows, gtidSummary, gtidVars, endVars>>

\* Mutant of ResetsTableItem: the cached columns survive a DDL.
KeepsTableItem(e) == FALSE

ResetsTableItem(e) == shutdown = "no" /\ e.ddl

\* The head of the loop over the events: HasShutdown, and the reset of the
\* cached columns of the table a DDL changes.
StartEvent(t) ==
  /\ At(t, "event")
  /\ LET e == thr[t].e
     IN  /\ Goto(t, IF shutdown # "no" \/ (~e.ddl /\ e.rows = <<>>) THEN "wait"
                    ELSE IF e.ddl THEN "ddl" ELSE "rows")
         /\ columns' = IF ResetsTableItem(e) THEN Nil ELSE columns
  /\ UNCHANGED <<srcVars, hVars, mtsVars, wsVars, inBigTx, mtsQueue, dbMutex,
                 bigVars, dbVars, gtidVars, endVars>>

ExecDDL(t) ==
  /\ At(t, "ddl")
  /\ shutdown # "closed"
  /\ log' = Append(ImplicitCommit(Conn(t)), [gno |-> thr[t].e.gno, rows |-> <<>>])
  /\ openTx' = [openTx EXCEPT ![Conn(t)] = NoTx]
  /\ Goto(t, "wait")
  /\ UNCHANGED <<srcVars, hVars, mtsVars, wsVars, inBigTx, columns, mtsQueue, dbMutex,
                 bigVars, gtidRows, gtidSummary, gtidVars, endVars>>

NextRow(t) ==
  thr' = [thr EXCEPT ![t].i = @ + 1,
                     ![t].pc = IF thr[t].i = Len(thr[t].e.rows) THEN "wait" ELSE "rows"]

UsePipe == inBigTx /\ ~case.noPipe

\* queueOrExec
ExecDirect(t) ==
  /\ At(t, "rows")
  /\ ~UsePipe
  /\ shutdown # "closed"
  /\ ExecRow(Conn(t), thr[t].e.gno, thr[t].e.rows[thr[t].i])
  /\ NextRow(t)
  /\ UNCHANGED <<srcVars, hVars, mtsVars, wsVars, inBigTx, columns, mtsQueue, dbMutex,
                 bigVars, gtidRows, gtidSummary, gtidVars, endVars>>

QueueRow(t) ==
  /\ At(t, "rows")
  /\ UsePipe
  /\ shutdown \in {"no", "closing"}
  /\ Len(bigTxEventQueue) < BigTxQueueCap
  /\ bigTxEventQueue' = Append(bigTxEventQueue, [gno |-> thr[t].e.gno, row |-> thr[t].e.rows[thr[t].i]])
  /\ bigTxEventWg' = bigTxEventWg + 1
  /\ NextRow(t)
  /\ UNCHANGED <<srcVars, hVars, mtsVars, wsVars, inBigTx, columns, mtsQueue, dbMutex,
                 dbVars, gtidVars, endVars>>

\* The send case of the select on a closed channel: the process dies.
QueueClosed(t) ==
  /\ At(t, "rows")
  /\ UsePipe
  /\ shutdown \in {"waiting", "closed"}
  /\ panicked' = TRUE
  /\ shutdown' = "closed"
  /\ hpc' = "exited" /\ blocked' = FALSE /\ upc' = "exited"
  /\ thr' = [u \in Thread |-> [Idle EXCEPT !.pc = "dead"]]
  /\ bigTxEventQueue' = <<>>
  /\ openTx' = [c \in Worker |-> NoTx]
  /\ UNCHANGED <<srcVars, cur, rotated, replayingBinlogFile, prevDDL, nRow, wsVars,
                 lastCommitted, lastEnqueue, updated, m, inBigTx, columns, mtsQueue, dbMutex, bigTxEventWg,
                 log, gtidRows, gtidSummary, gtidVars, closer, restarts, errors>>

\* The shutdown case of the select: what was added to the wait group stays.
QueueShutdown(t) ==
  /\ At(t, "rows")
  /\ UsePipe
  /\ shutdown # "no"
  /\ bigTxEventWg' = bigTxEventWg + 1
  /\ ApplyError(t)
  /\ UNCHANGED errors

\* bigTxEventWg.Wait()
EventsDone == bigTxEventWg = 0

TxComplete == EventsDone /\ shutdown = "no"

AfterEvents(t) ==
  /\ At(t, "wait")
  /\ TxComplete
  /\ Goto(t, IF thr[t].e.final THEN "commit" ELSE "hook")
  /\ UNCHANGED <<srcVars, hVars, mtsVars, wsVars, inBigTx, columns, mtsQueue, dbMutex,
                 bigVars, dbVars, gtidVars, endVars>>

AbandonTx(t) ==
  /\ At(t, "wait")
  /\ EventsDone
  /\ shutdown # "no"
  /\ ApplyError(t)
  /\ UNCHANGED <<bigTxEventWg, errors>>

RecordGtid(e) == gtidRows' = gtidRows \cup {e.gno}

\* The row of gtid_executed is written in the transaction (after a DDL, in a
\* transaction of its own), then "commit".
Commit(t) ==
  /\ At(t, "commit")
  /\ shutdown # "closed"
  /\ RecordGtid(thr[t].e)
  /\ log' = ImplicitCommit(Conn(t))
  /\ openTx' = [openTx EXCEPT ![Conn(t)] = NoTx]
  /\ Goto(t, "report")
  /\ UNCHANGED <<srcVars, hVars, mtsVars, wsVars, inBigTx, columns, mtsQueue, dbMutex,
                 bigVars, gtidSummary, gtidVars, endVars>>

\* mtsManager.Executed
Executed(t) ==
  /\ At(t, "report")
  /\ \/ LcUpdaterReceive(thr[t].e.seq)
     \/ shutdown # "no" /\ UNCHANGED <<m, upc>>
  /\ Goto(t, "reset")
  /\ UNCHANGED <<srcVars, hVars, lastCommitted, lastEnqueue, updated, wsVars, inBigTx, columns,
                 mtsQueue, dbMutex, bigVars, dbVars, gtidVars, endVars>>

ResetInBigTx(t) ==
  /\ At(t, "reset")
  /\ inBigTx' = FALSE
  /\ Goto(t, "hook")
  /\ UNCHANGED <<srcVars, hVars, mtsVars, wsVars, columns, mtsQueue, dbMutex,
                 bigVars, dbVars, gtidVars, endVars>>

\* EntryExecutedHook; the deferred DbMutex.Unlock(); back to the loop
Hook(t) ==
  /\ At(t, "hook")
  /\ gtidCh' = ExecutedGtid(thr[t].e)
  /\ dbMutex' = IF dbMutex = t THEN Nil ELSE dbMutex
  /\ thr' = [thr EXCEPT ![t] = Idle]
  /\ hpc' = IF t = Replayer THEN "select" ELSE hpc
  /\ UNCHANGED <<srcVars, blocked, cur, rotated, replayingBinlogFile, prevDDL, nRow, mtsVars, wsVars,
                 inBigTx, columns, mtsQueue, bigVars, dbVars, gtidSet, consulGtid, endVars>>

\* The bigtx_ack request of the hook fails: onError runs Shutdown inside it.
HookAckFails(t) ==
  /\ At(t, "hook")
  /\ case.ackMayFail
  /\ IsPartOfBigTx(thr[t].e)
  /\ shutdown = "no"
  /\ gtidCh' = ExecutedGtid(thr[t].e)
  /\ OnError(t)
  /\ Goto(t, "shutdown")
  /\ UNCHANGED <<srcVars, hVars, mtsVars, wsVars, inBigTx, columns, mtsQueue, dbMutex,
                 bigVars, dbVars, gtidSet, consulGtid, panicked, restarts, errors>>

\* A statement fails on the target, or its connection was closed by Shutdown.
StatementFails(t) ==
  /\ thr[t].pc \in {"lock", "ddl", "commit"} \/ (At(t, "rows") /\ ~UsePipe)
  /\ IF shutdown = "closed"
     THEN UNCHANGED errors
     ELSE errors < case.errors /\ errors' = errors + 1
  /\ ApplyError(t)
  /\ UNCHANGED bigTxEventWg

-----------------------------------------------------------------------------
(* bigTxQueueExecutor                                                      *)
ExecuteItem ==
  /\ bigTxEventQueue # <<>>
  /\ closer # Executor
  /\ bigTxEventQueue' = Tail(bigTxEventQueue)
  /\ bigTxEventWg' = bigTxEventWg - 1
  /\ IF shutdown = "no"
     THEN ExecRow(0, Head(bigTxEventQueue).gno, Head(bigTxEventQueue).row)
     ELSE UNCHANGED <<openTx, log>>
  /\ UNCHANGED <<srcVars, hVars, mtsVars, wsVars, inBigTx, columns, wVars,
                 gtidRows, gtidSummary, gtidVars, endVars>>

\* OnError comes before bigTxEventWg.Done().
ExecuteItemFails ==
  /\ bigTxEventQueue # <<>>
  /\ closer # Executor
  /\ shutdown = "no"
  /\ errors < case.errors
  /\ errors' = errors + 1
  /\ bigTxEventQueue' = Tail(bigTxEventQueue)
  /\ OnError(Executor)
  /\ UNCHANGED <<srcVars, hVars, mtsVars, wsVars, inBigTx, columns, wVars, bigTxEventWg,
                 dbVars, gtidVars, panicked, restarts>>

-----------------------------------------------------------------------------
(* LcUpdater, and updateGtidLoop of driver/mysql/applier.go                *)
LcUpdater ==
  /\ \/ LcUpdaterStep
     \/ /\ upc = "recv" /\ shutdown # "no"
        /\ upc' = "exited"
        /\ UNCHANGED <<lastCommitted, lastEnqueue, updated, m>>
  /\ UNCHANGED <<srcVars, hVars, wsVars, inBigTx, columns, wVars, bigVars, dbVars, gtidVars, endVars>>

UpdateGtidSet ==
  /\ gtidCh # <<>>
  /\ shutdown = "no"
  /\ gtidSet' = gtidSet \cup {Head(gtidCh)}
  /\ gtidCh' = Tail(gtidCh)
  /\ UNCHANGED <<srcVars, hVars, mtsVars, wsVars, inBigTx, columns, wVars, bigVars, dbVars,
                 consulGtid, endVars>>

\* doUpdate, doUpload.  What is saved matters to a restart only.
UploadGtid ==
  /\ restarts < case.restarts
  /\ shutdown = "no"
  /\ consulGtid # gtidSet
  /\ consulGtid' = gtidSet
  /\ UNCHANGED <<srcVars, hVars, mtsVars, wsVars, inBigTx, columns, wVars, bigVars, dbVars,
                 gtidCh, gtidSet, endVars>>

-----------------------------------------------------------------------------
(* Applier.Shutdown: close(shutdownCh), close(bigTxEventQueue), wait for   *)
(* the replaying goroutine, close the connections.                         *)
ShutdownByDriver ==
  /\ case.mayShutdown
  /\ shutdown = "no"
  /\ shutdown' = "closing"
  /\ closer' = Driver
  /\ UNCHANGED <<srcVars, hVars, mtsVars, wsVars, inBigTx, columns, wVars, bigVars, dbVars, gtidVars,
                 panicked, restarts, errors>>

CloseQueue ==
  /\ shutdown = "closing"
  /\ shutdown' = "waiting"
  /\ UNCHANGED <<srcVars, hVars, mtsVars, wsVars, inBigTx, columns, wVars, bigVars, dbVars, gtidVars,
                 closer, panicked, restarts, errors>>

CloseConns ==
  /\ shutdown = "waiting"
  /\ hpc = "exited"
  /\ shutdown' = "closed"
  /\ openTx' = [c \in Worker |-> NoTx]
  /\ UNCHANGED <<srcVars, hVars, mtsVars, wsVars, inBigTx, columns, wVars, bigVars,
                 log, gtidRows, gtidSummary, gtidVars, closer, panicked, restarts, errors>>

\* Mutant of RecoveredGtidSet: the gtid_executed table is not read.
RecoveredFromConsul == consulGtid

\* Consul, then SelectAllGtidExecuted
RecoveredGtidSet == consulGtid \cup gtidRows \cup gtidSummary

\* The process dies, or has shut down, and the task is started again: Run
\* reads the GTID set from Consul and adds the gtid_executed table
\* (SelectAllGtidExecuted); the source sends again what is not in Consul, of
\* which gtidSet is a superset.
Restart ==
  /\ restarts < case.restarts
  /\ restarts' = restarts + 1
  /\ pos' = 1
  /\ hpc' = "select" /\ blocked' = FALSE /\ cur' = NoEntry
  /\ rotated' = FALSE /\ replayingBinlogFile' = 0 /\ prevDDL' = FALSE
  /\ nRow' = Cardinality(gtidRows) + (IF gtidSummary = {} THEN 0 ELSE 1)
  /\ lastCommitted' = 0 /\ lastEnqueue' = 0 /\ updated' = FALSE
  /\ m' = [s \in SeqNum |-> 0] /\ upc' = "recv"
  /\ ResetCommonParent(0)
  /\ inBigTx' = FALSE /\ columns' = Nil
  /\ mtsQueue' = <<>> /\ thr' = [t \in Thread |-> Idle] /\ dbMutex' = Nil
  /\ bigTxEventQueue' = <<>> /\ bigTxEventWg' = 0
  /\ openTx' = [c \in Worker |-> NoTx]
  /\ gtidCh' = <<>> /\ gtidSet' = RecoveredGtidSet
  /\ shutdown' = "no" /\ closer' = Nil /\ panicked' = FALSE
  /\ UNCHANGED <<case, resends, log, gtidRows, gtidSummary, consulGtid, errors>>

\* The connection from the binlog reader to the source is lost and made again:
\* the go-mysql syncer continues behind the transaction before the one it
\* read last, so that one, complete or not, is sent again.
Resend ==
  /\ resends < case.resends
  /\ pos > 1
  /\ hpc = "select"
  /\ LET last == stream[pos - 1]
     IN  /\ ResendInFlight \/ ~last.final \/ last.gno \in gtidSet
         /\ pos' = Min({i \in DOMAIN stream : stream[i].gno = last.gno})
  /\ resends' = resends + 1
  /\ UNCHANGED <<case, hVars, mtsVars, wsVars, inBigTx, columns, wVars, bigVars, dbVars, gtidVars, endVars>>

-----------------------------------------------------------------------------
HandleEntry == HandleOwnEntry \/ HandleExecutedEntry \/ HandleNewEntry

Replay ==
  \/ HandleEntry
  \/ Block
  \/ Woken
  \/ Aborted
  \/ CleanGtidExecuted
  \/ RotateBinlog
  \/ SkipSeq
  \/ SkipDone
  \/ SeparateTx
  \/ DispatchSync
  \/ DispatchMts
  \/ Enqueue
  \/ ReplayExit

ApplyBinlogEvent(t) ==
  \/ Begin(t)
  \/ StartEvent(t)
  \/ ExecDDL(t)
  \/ ExecDirect(t)
  \/ QueueRow(t)
  \/ QueueClosed(t)
  \/ QueueShutdown(t)
  \/ AfterEvents(t)
  \/ AbandonTx(t)
  \/ Commit(t)
  \/ Executed(t)
  \/ ResetInBigTx(t)
  \/ Hook(t)

MtsWorker(w) == Dequeue(w) \/ WorkerExit(w)

Shutdown == CloseQueue \/ CloseConns

Next ==
  \/ Replay
  \/ \E w \in Worker : MtsWorker(w)
  \/ \E t \in Thread : ApplyBinlogEvent(t) \/ HookAckFails(t) \/ StatementFails(t)
  \/ ExecuteItem
  \/ ExecuteItemFails
  \/ LcUpdater
  \/ UpdateGtidSet
  \/ UploadGtid
  \/ ShutdownByDriver
  \/ Shutdown
  \/ Restart
  \/ Resend

Spec == Init /\ [][Next]_vars

\* Every goroutine keeps running, and statements on the target end.
Fairness ==
  /\ WF_vars(Replay)
  /\ \A w \in Worker : WF_vars(MtsWorker(w))
  /\ \A t \in Thread : WF_vars(ApplyBinlogEvent(t))
  /\ WF_vars(ExecuteItem)
  /\ WF_vars(LcUpdater)
  /\ WF_vars(UpdateGtidSet)
  /\ WF_vars(Shutdown)

FairSpec == Spec /\ Fairness

-----------------------------------------------------------------------------
\* The state of the goroutines and of the target has its type.
TypeOK ==
  /\ pos \in 1..(Len(stream) + 1)
  /\ hpc \in {"select", "clean", "rotate", "skip", "all", "dispatch", "exec", "apply", "exited"}
  /\ lastCommitted \in 0..MaxSeq /\ lastEnqueue \in 0..MaxSeq
  /\ m \in [SeqNum -> Nat] /\ upc \in {"recv", "drain", "notify", "exited"}
  /\ {blocked, rotated, prevDDL, updated, inBigTx, panicked} \subseteq BOOLEAN
  /\ Len(mtsQueue) <= MtsQueueCap /\ Len(bigTxEventQueue) <= BigTxQueueCap
  /\ bigTxEventWg \in Nat /\ dbMutex \in {Nil, 0, Replayer}
  /\ \A t \in Thread : thr[t].pc \in {"idle", "lock", "event", "ddl", "rows", "wait", "commit",
                                      "report", "reset", "hook", "shutdown", "dead"}
  /\ gtidSet \cup gtidRows \cup gtidSummary \cup consulGtid \cup Target!Applied \subseteq Target!Gnos
  /\ shutdown \in {"no", "closing", "waiting", "closed"}

\* The replay implements ParallelReplay: every commit on the target is that of
\* a whole transaction, once, in an order its conflicts and DDLs allow.
Replayed == Target!Spec

\* A transaction between its "begin" and its "commit".
Applying(t) == thr[t].pc \in {"event", "ddl", "rows", "wait", "commit"}

\* "DDL must be executed separatedly": while a DDL is executed no other
\* transaction is open.
DDLSeparate ==
  \A t, u \in Thread : t # u /\ Applying(t) /\ thr[t].e.ddl => ~Applying(u)

\* The cached columns a transaction is applied with (setTableItemForBinlogEntry
\* in the replaying goroutine, Reset in a worker) are those of the schema after
\* the DDLs that precede it.
ColumnsFresh ==
  \A t \in Thread :
    Applying(t) /\ ~thr[t].e.ddl =>
      thr[t].e.cols = Cardinality({g \in Target!Gnos : /\ g < thr[t].e.gno
                                                      /\ Target!IsDDL(g) /\ ~Target!IsOwn(g)})

\* Every committed record of the target is a whole transaction, its rows in
\* the order of the source.
CommitsWhole == \A i \in DOMAIN log : log[i].rows = Target!RowsOf(log[i].gno)

\* The GTID sets of memory, of Consul and of the gtid_executed table name
\* only transactions that are committed, or are the target's own.
GtidNotAhead ==
  \A g \in gtidSet \cup gtidRows \cup gtidSummary \cup consulGtid :
    g \in Target!Applied \/ Target!IsOwn(g)

\* The gtid_executed table, rows and summary together, names every
\* transaction committed (a DDL is committed before its row is written).
\* cleanGtidExecuted breaks it: "Summary of all GTIDs" is made from gtidSet.
AllRecorded == \A g \in Target!Applied : Target!IsDDL(g) \/ g \in gtidRows \cup gtidSummary

\* As long as the stream is too short for cleanGtidExecuted it is so, through
\* errors, shutdowns and restarts: nothing is executed twice (RecordGtid).
CommitRecorded == Len(stream) <= case.cleanup => AllRecorded

\* "DTLE_BUG: lcPendingTx should be 0": when the wait at a rotation is over no
\* sequence number of the old file is left in m, where it would be counted for
\* a transaction of the new file.
NoPendingAtRotation == WaitTest("rotate", AllCommitted) => Pending = {}

\* A DDL is alone, and no transaction is applied with columns from before it
DDLIsolated == DDLSeparate /\ ColumnsFresh

\* The applier's books agree with what the target has committed: no GTID set is
\* ahead, the table misses nothing, no number of a file is left behind in it
BooksExact == TypeOK /\ GtidNotAhead /\ CommitRecorded /\ NoPendingAtRotation

\* Every transaction of the stream ends up in the GTID set: committed by a
\* worker or by the replaying goroutine, or skipped as the target's own, as long
\* as nothing fails and nobody stops the task.
AllReplayed == case.errors = 0 /\ ~case.mayShutdown => <>(gtidSet = Target!Gnos)

\* Applier.Shutdown returns and closes the connections to the target, without
\* the pipe and with acknowledgements that do not fail: bigTxQueueExecutor and
\* the hook run it in goroutines that it waits for.
ShutdownCompletes == case.noPipe /\ ~case.ackMayFail => (shutdown # "no" ~> shutdown = "closed")

\* "to avoid writing closed channel": nothing is sent to bigTxEventQueue
\* after it was closed.
NoSendOnClosed == ~panicked
=============================================================================
