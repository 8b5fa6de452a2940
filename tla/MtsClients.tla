---------------------------- MODULE MtsClients ----------------------------
(***************************************************************************)
(* MtsManager together with what calls it: the replaying goroutine         *)
(* (handleEntry of driver/mysql/applier_incr.go), which numbers, waits and *)
(* hands transactions out, and the workers, which commit and report them.  *)
(* Only the numbers are kept: a transaction is its sequence number, its    *)
(* dependency lc, and whether it is separate (a DDL, the transaction after *)
(* a DDL, or a big transaction).                                           *)
(***************************************************************************)
EXTENDS MtsManager, FiniteSets

CONSTANTS MaxRotate  \* bound: the number of binlog rotations

ASSUME RotateAssumption == MaxRotate \in Nat

VARIABLES
  hpc,       \* replaying goroutine: "select" | "skip" | "all" | "exec"
  blocked,   \* it is in the select of a wait, past the test of the condition
  tx,        \* the transaction it handles
  rotating,  \* the pending wait is the one of a rotation
  running,   \* transactions handed out and not committed
  reporting, \* transactions committed and not yet received by LcUpdater
  done,      \* sequence numbers executed, or skipped, in this file
  rotations

hVars == <<hpc, blocked, tx, rotating>>
vars == <<lastCommitted, lastEnqueue, updated, m, upc,
          hpc, blocked, tx, rotating, running, reporting, done, rotations>>

Tx == {t \in [seq : SeqNum, lc : 0..MaxSeq, separate : BOOLEAN] : t.lc < t.seq}

NoTx == [seq |-> 0, lc |-> 0, separate |-> FALSE]

Init ==
  /\ MtsInit
  /\ hpc = "select"
  /\ blocked = FALSE
  /\ tx = NoTx
  /\ rotating = FALSE
  /\ running = {}
  /\ reporting = {}
  /\ done = {}
  /\ rotations = 0

\* The next transaction of the file: numbers grow, and some are left out by
\* the source.
HandleEntry(t) ==
  /\ hpc = "select"
  /\ lastEnqueue < t.seq
  /\ tx' = t
  /\ hpc' = "skip"
  /\ UNCHANGED <<lastCommitted, lastEnqueue, updated, m, upc,
                 blocked, rotating, running, reporting, done, rotations>>

\* The first transaction of the next file.
HandleRotated(t) ==
  /\ hpc = "select"
  /\ rotations < MaxRotate
  /\ tx' = t
  /\ rotations' = rotations + 1
  /\ rotating' = TRUE
  /\ hpc' = "all"
  /\ UNCHANGED <<lastCommitted, lastEnqueue, updated, m, upc,
                 blocked, running, reporting, done>>

\* for lastEnqueue+1 < seq: report the numbers skipped by the source
SkipSeq ==
  /\ hpc = "skip"
  /\ lastEnqueue + 1 < tx.seq
  /\ LcUpdaterReceive(lastEnqueue + 1)
  /\ lastEnqueue' = lastEnqueue + 1
  /\ done' = done \cup {lastEnqueue + 1}
  /\ UNCHANGED <<lastCommitted, updated, hpc, blocked, tx, rotating, running, reporting, rotations>>

SkipDone ==
  /\ hpc = "skip"
  /\ lastEnqueue + 1 >= tx.seq
  /\ hpc' = IF tx.separate THEN "all" ELSE "exec"
  /\ UNCHANGED <<lastCommitted, lastEnqueue, updated, m, upc,
                 blocked, tx, rotating, running, reporting, done, rotations>>

\* WaitForAllCommitted
AllTest ==
  /\ hpc = "all"
  /\ ~blocked
  /\ IF AllCommitted
     THEN IF rotating
          THEN /\ ResetSeq
               /\ done' = {}
               /\ rotating' = FALSE
               /\ hpc' = "skip"
               /\ UNCHANGED blocked
          ELSE /\ hpc' = "exec"
               /\ UNCHANGED <<lastCommitted, lastEnqueue, updated, m, upc, blocked, rotating, done>>
     ELSE /\ blocked' = TRUE
          /\ UNCHANGED <<lastCommitted, lastEnqueue, updated, m, upc, hpc, rotating, done>>
  /\ UNCHANGED <<tx, running, reporting, rotations>>

\* WaitForExecution, and the hand-over to a worker
ExecTest ==
  /\ hpc = "exec"
  /\ ~blocked
  /\ lastEnqueue' = tx.seq
  /\ IF MayExecute(tx.lc)
     THEN /\ running' = running \cup {tx}
          /\ hpc' = "select"
          /\ UNCHANGED blocked
     ELSE /\ blocked' = TRUE
          /\ UNCHANGED <<running, hpc>>
  /\ UNCHANGED <<lastCommitted, updated, m, upc, tx, rotating, reporting, done, rotations>>

\* case <-mm.updated
Woken ==
  /\ blocked
  /\ Wakeup
  /\ blocked' = FALSE
  /\ UNCHANGED <<hpc, tx, rotating, running, reporting, done, rotations>>

\* A worker commits.
Commit(t) ==
  /\ t \in running
  /\ running' = running \ {t}
  /\ reporting' = reporting \cup {t}
  /\ done' = done \cup {t.seq}
  /\ UNCHANGED <<lastCommitted, lastEnqueue, updated, m, upc, hpc, blocked, tx, rotating, rotations>>

\* Executed
Executed(t) ==
  /\ t \in reporting
  /\ LcUpdaterReceive(t.seq)
  /\ reporting' = reporting \ {t}
  /\ UNCHANGED <<lastCommitted, lastEnqueue, updated, hpc, blocked, tx, rotating, running, done, rotations>>

LcUpdater ==
  /\ LcUpdaterStep
  /\ UNCHANGED <<hpc, blocked, tx, rotating, running, reporting, done, rotations>>

Replay ==
  \/ SkipSeq
  \/ SkipDone
  \/ AllTest
  \/ ExecTest
  \/ Woken

Next ==
  \/ \E t \in Tx : HandleEntry(t) \/ HandleRotated(t)
  \/ Replay
  \/ \E t \in running : Commit(t)
  \/ \E t \in reporting : Executed(t)
  \/ LcUpdater

Spec == Init /\ [][Next]_vars

\* Every goroutine keeps running: the replayer once it has an entry, LcUpdater,
\* and the workers (a transaction on the target ends).
Fairness ==
  /\ WF_vars(Replay)
  /\ WF_vars(LcUpdater)
  /\ \A t \in Tx : WF_vars(Commit(t)) /\ WF_vars(Executed(t))

FairSpec == Spec /\ Fairness

-----------------------------------------------------------------------------
InFlight == running \cup reporting

\* The numbers, the queue and the sets of transactions have their types.
TypeOK ==
  /\ lastCommitted \in 0..MaxSeq
  /\ lastEnqueue \in 0..MaxSeq
  /\ updated \in BOOLEAN
  /\ m \in [SeqNum -> Nat]
  /\ upc \in {"recv", "drain", "notify"}
  /\ hpc \in {"select", "skip", "all", "exec"}
  /\ blocked \in BOOLEAN
  /\ tx \in Tx \cup {NoTx}
  /\ rotating \in BOOLEAN
  /\ running \in SUBSET Tx
  /\ reporting \in SUBSET Tx
  /\ done \in SUBSET SeqNum
  /\ rotations \in 0..MaxRotate

\* LcUpdater: when lastCommitted = N, every transaction up to N has been
\* executed, in whatever order the workers reported.
LCSound == 1..lastCommitted \subseteq done

\* WaitForExecution: a transaction in the hands of a worker has all its
\* dependencies committed, unless MTS is forced.
DependencyHonoured == ForceMts \/ \A t \in InFlight : 1..t.lc \subseteq done

\* WaitForAllCommitted before a DDL, after a DDL and before a big
\* transaction: when it is handed out no earlier transaction is running.
SeparateAlone == \A a \in running, b \in InFlight : b.separate => b.seq <= a.seq

\* WaitForAllCommitted at a rotation: lastCommitted goes back only when no
\* transaction is in flight and nothing is pending in m (the condition that
\* handleEntry logs as DTLE_BUG when it is broken).
RotateQuiet ==
  [][lastCommitted' < lastCommitted => InFlight = {} /\ Pending = {}]_vars

\* The 1-buffered updated channel loses no wakeup: an entry being handled is
\* always handed out.
EntryHandedOut == (hpc # "select") ~> (hpc = "select")
=============================================================================
