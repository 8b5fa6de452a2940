------------------------- MODULE MtsClients_proofs -------------------------
(***************************************************************************)
(* Proofs that MtsManager, used as handleEntry and the workers use it,     *)
(* keeps its promises for every number of transactions, whatever MaxSeq,   *)
(* MaxRotate and ForceMts are.                                             *)
(***************************************************************************)
EXTENDS MtsClients, TLAPS

\* The numbers up to Handed have been skipped or handed out: lastEnqueue runs
\* one ahead while WaitForExecution waits.
Handed == IF hpc = "exec" THEN tx.seq - 1 ELSE lastEnqueue

\* Where the replaying goroutine is.
HandlerInv ==
  /\ hpc # "select" => tx \in Tx
  /\ hpc = "exec" => lastEnqueue = tx.seq - 1 \/ lastEnqueue = tx.seq
  /\ hpc = "skip" => lastEnqueue < tx.seq
  /\ hpc = "all" /\ ~rotating => lastEnqueue = tx.seq - 1
  /\ rotating => hpc = "all"
  /\ hpc = "exec" /\ tx.separate => InFlight = {}

\* A number above lastCommitted and up to Handed is in at most one place: with
\* a worker, on its way to LcUpdater, or once in m.
AccountInv ==
  /\ lastCommitted <= Handed
  /\ \A t \in InFlight : lastCommitted < t.seq /\ t.seq <= Handed /\ m[t.seq] = 0
  /\ \A a, b \in InFlight : a.seq = b.seq => a = b
  /\ running \cap reporting = {}
  /\ \A s \in SeqNum : m[s] > 0 => lastCommitted < s /\ s <= Handed /\ m[s] = 1

\* What is counted or reported has been executed.
DoneInv ==
  /\ \A t \in reporting : t.seq \in done
  /\ \A s \in SeqNum : m[s] > 0 => s \in done
  /\ LCSound
  /\ DependencyHonoured

IInv == TypeOK /\ HandlerInv /\ AccountInv /\ DoneInv /\ SeparateAlone

-----------------------------------------------------------------------------
\* The initial state satisfies the invariant: nothing is numbered or in flight.
LEMMA InitIInv == Init => IInv
<1> SUFFICES ASSUME Init PROVE IInv
  OBVIOUS
<1> USE MtsAssumption, RotateAssumption DEF Init, MtsInit, SeqNum
<1>1. TypeOK
  <2>1. updated \in BOOLEAN /\ blocked \in BOOLEAN /\ rotating \in BOOLEAN
    BY Zenon
  <2>2. m \in [SeqNum -> Nat]
    OBVIOUS
  <2>3. /\ lastCommitted \in 0..MaxSeq /\ lastEnqueue \in 0..MaxSeq
        /\ rotations \in 0..MaxRotate
    OBVIOUS
  <2> QED
    BY <2>1, <2>2, <2>3 DEF TypeOK
<1>2. HandlerInv /\ AccountInv
  BY DEF HandlerInv, AccountInv, Handed, InFlight
<1>3. DoneInv /\ SeparateAlone
  BY DEF DoneInv, LCSound, DependencyHonoured, SeparateAlone, InFlight
<1> QED
  BY <1>1, <1>2, <1>3 DEF IInv

\* Nothing is in flight or pending when WaitForAllCommitted returns.
LEMMA QuietWhenAllCommitted ==
  ASSUME IInv, hpc = "all", AllCommitted
  PROVE  InFlight = {} /\ Pending = {}
<1>1. InFlight \subseteq Tx /\ lastCommitted \in Nat
  BY DEF IInv, TypeOK, InFlight
<1>2. Handed = lastCommitted
  BY DEF Handed, AllCommitted
<1>3. InFlight = {}
  BY <1>1, <1>2 DEF IInv, AccountInv, Tx, SeqNum
<1>4. Pending = {}
  BY <1>1, <1>2 DEF IInv, AccountInv, Pending, SeqNum
<1> QED
  BY <1>3, <1>4

\* Reading an entry of the same file keeps the invariant.
LEMMA HandleEntryIInv ==
  ASSUME IInv, NEW t \in Tx, HandleEntry(t) PROVE IInv'
<1> USE MtsAssumption, RotateAssumption DEF IInv, SeqNum
<1>1. TypeOK'
  BY DEF HandleEntry, TypeOK, Tx, NoTx
<1>2. HandlerInv'
  BY DEF HandleEntry, TypeOK, HandlerInv, Tx, NoTx, InFlight
<1>3. AccountInv'
  BY DEF HandleEntry, TypeOK, HandlerInv, AccountInv, Handed, Tx, InFlight
<1>4. DoneInv'
  BY DEF HandleEntry, TypeOK, DoneInv, HandlerInv, AccountInv, Handed, LCSound, DependencyHonoured, Tx, InFlight
<1>5. SeparateAlone'
  BY DEF HandleEntry, TypeOK, SeparateAlone, HandlerInv, AccountInv, Handed, Tx, InFlight
<1> QED
  BY <1>1, <1>2, <1>3, <1>4, <1>5

\* Reading the first entry of a new file keeps the invariant.
LEMMA HandleRotatedIInv ==
  ASSUME IInv, NEW t \in Tx, HandleRotated(t) PROVE IInv'
<1> USE MtsAssumption, RotateAssumption DEF IInv, SeqNum
<1>1. TypeOK'
  BY DEF HandleRotated, TypeOK, Tx, NoTx
<1>2. HandlerInv'
  BY DEF HandleRotated, TypeOK, HandlerInv, Tx, NoTx, InFlight
<1>3. AccountInv'
  BY DEF HandleRotated, TypeOK, HandlerInv, AccountInv, Handed, Tx, InFlight
<1>4. DoneInv'
  BY DEF HandleRotated, TypeOK, DoneInv, HandlerInv, AccountInv, Handed, LCSound, DependencyHonoured, Tx, InFlight
<1>5. SeparateAlone'
  BY DEF HandleRotated, TypeOK, SeparateAlone, HandlerInv, AccountInv, Handed, Tx, InFlight
<1> QED
  BY <1>1, <1>2, <1>3, <1>4, <1>5

\* Reporting a number the source left out keeps the invariant: the number is
\* new to m.
LEMMA SkipSeqIInv ==
  ASSUME IInv, SkipSeq PROVE IInv'
<1> USE MtsAssumption, RotateAssumption DEF IInv, SeqNum
<1>1. TypeOK'
  <2>1. (updated \in BOOLEAN /\ blocked \in BOOLEAN /\ rotating \in BOOLEAN)'
    BY Zenon DEF SkipSeq, LcUpdaterReceive, TypeOK
  <2>2. (lastCommitted \in 0..MaxSeq /\ lastEnqueue \in 0..MaxSeq)'
    BY DEF SkipSeq, LcUpdaterReceive, TypeOK, HandlerInv, AccountInv, Handed, Tx
  <2>3. (m \in [SeqNum -> Nat] /\ done \in SUBSET SeqNum)'
    <3>1. lastEnqueue + 1 \in SeqNum
      BY DEF SkipSeq, TypeOK, HandlerInv, Tx
    <3>2. m' = m \/ m' = [m EXCEPT ![lastEnqueue + 1] = @ + 1]
      BY DEF SkipSeq, LcUpdaterReceive
    <3>3. (m \in [SeqNum -> Nat])'
      BY <3>1, <3>2 DEF TypeOK
    <3> QED
      BY <3>1, <3>3 DEF SkipSeq, TypeOK
  <2>4. (running \in SUBSET Tx /\ reporting \in SUBSET Tx /\ tx \in Tx \cup {NoTx})'
    BY DEF SkipSeq, LcUpdaterReceive, TypeOK, HandlerInv
  <2>5. (/\ upc \in {"recv", "drain", "notify"}
         /\ hpc \in {"select", "skip", "all", "exec"}
         /\ rotations \in 0..MaxRotate)'
    BY DEF SkipSeq, LcUpdaterReceive, TypeOK
  <2> QED
    BY <2>1, <2>2, <2>3, <2>4, <2>5 DEF TypeOK
<1>2. HandlerInv'
  BY DEF SkipSeq, LcUpdaterReceive, TypeOK, HandlerInv, Tx, NoTx, InFlight
<1>3. AccountInv'
  BY DEF SkipSeq, LcUpdaterReceive, TypeOK, HandlerInv, AccountInv, Handed, Tx, InFlight
<1>4. DoneInv'
  BY DEF SkipSeq, LcUpdaterReceive, TypeOK, DoneInv, HandlerInv, AccountInv, Handed, LCSound, DependencyHonoured, Tx, InFlight
<1>5. SeparateAlone'
  BY DEF SkipSeq, LcUpdaterReceive, TypeOK, SeparateAlone, HandlerInv, AccountInv, Handed, Tx, InFlight
<1> QED
  BY <1>1, <1>2, <1>3, <1>4, <1>5

\* Going on from the skipped numbers to a wait keeps the invariant.
LEMMA SkipDoneIInv ==
  ASSUME IInv, SkipDone PROVE IInv'
<1> USE MtsAssumption, RotateAssumption DEF IInv, SeqNum
<1>1. TypeOK'
  BY DEF SkipDone, TypeOK, Tx, NoTx
<1>2. HandlerInv'
  BY DEF SkipDone, TypeOK, HandlerInv, Tx, NoTx, InFlight
<1>3. AccountInv'
  BY DEF SkipDone, TypeOK, HandlerInv, AccountInv, Handed, Tx, InFlight
<1>4. DoneInv'
  BY DEF SkipDone, TypeOK, DoneInv, HandlerInv, AccountInv, Handed, LCSound, DependencyHonoured, Tx, InFlight
<1>5. SeparateAlone'
  BY DEF SkipDone, TypeOK, SeparateAlone, HandlerInv, AccountInv, Handed, Tx, InFlight
<1> QED
  BY <1>1, <1>2, <1>3, <1>4, <1>5

\* A test of WaitForAllCommitted keeps the invariant: when it succeeds nothing
\* is in flight, so the numbers may be reset.
LEMMA AllTestIInv ==
  ASSUME IInv, AllTest PROVE IInv'
<1> USE MtsAssumption, RotateAssumption DEF IInv, SeqNum
<1>1. TypeOK'
  <2>1. (updated \in BOOLEAN /\ blocked \in BOOLEAN /\ rotating \in BOOLEAN)'
    BY Zenon DEF AllTest, AllCommitted, ResetSeq, TypeOK
  <2>2. (lastCommitted \in 0..MaxSeq /\ lastEnqueue \in 0..MaxSeq)'
    BY DEF AllTest, AllCommitted, ResetSeq, TypeOK, HandlerInv, AccountInv, Handed, Tx
  <2>3. (m \in [SeqNum -> Nat] /\ done \in SUBSET SeqNum)'
    BY DEF AllTest, AllCommitted, ResetSeq, TypeOK, HandlerInv, AccountInv, Tx
  <2>4. (running \in SUBSET Tx /\ reporting \in SUBSET Tx /\ tx \in Tx \cup {NoTx})'
    BY DEF AllTest, AllCommitted, ResetSeq, TypeOK, HandlerInv
  <2>5. (/\ upc \in {"recv", "drain", "notify"}
         /\ hpc \in {"select", "skip", "all", "exec"}
         /\ rotations \in 0..MaxRotate)'
    BY DEF AllTest, AllCommitted, ResetSeq, TypeOK
  <2> QED
    BY <2>1, <2>2, <2>3, <2>4, <2>5 DEF TypeOK
<1>2. HandlerInv'
  <2>1. CASE AllCommitted /\ rotating
    BY <2>1 DEF AllTest, ResetSeq, HandlerInv, Tx
  <2>2. CASE AllCommitted /\ ~rotating
    BY <2>2, QuietWhenAllCommitted DEF AllTest, HandlerInv, InFlight
  <2>3. CASE ~AllCommitted
    BY <2>3 DEF AllTest, HandlerInv, InFlight
  <2> QED
    BY <2>1, <2>2, <2>3
<1>3. AccountInv'
  <2>1. CASE AllCommitted /\ rotating
    <3>1. InFlight = {} /\ \A s \in SeqNum : m[s] = 0
      <4>1. InFlight = {} /\ Pending = {}
        BY <2>1, QuietWhenAllCommitted DEF AllTest
      <4> QED
        BY <4>1 DEF Pending, TypeOK
    <3>2. lastCommitted' = 0 /\ m' = m /\ InFlight' = {}
      BY <2>1, <3>1 DEF AllTest, ResetSeq, InFlight
    <3>3. lastCommitted' <= Handed' /\ (running \cap reporting = {})'
      BY <2>1, <3>2 DEF AllTest, ResetSeq, Handed, AccountInv, HandlerInv, TypeOK, Tx
    <3> QED
      BY <3>1, <3>2, <3>3 DEF AccountInv
  <2>2. CASE ~(AllCommitted /\ rotating)
    BY <2>2 DEF AllTest, AllCommitted, TypeOK, HandlerInv, AccountInv, Handed, Tx, InFlight
  <2> QED
    BY <2>1, <2>2
<1>4. DoneInv'
  BY DEF AllTest, AllCommitted, ResetSeq, TypeOK, DoneInv, HandlerInv, AccountInv, Handed, LCSound, DependencyHonoured, Tx, InFlight
<1>5. SeparateAlone'
  BY DEF AllTest, AllCommitted, ResetSeq, TypeOK, SeparateAlone, HandlerInv, AccountInv, Handed, Tx, InFlight
<1> QED
  BY <1>1, <1>2, <1>3, <1>4, <1>5

\* A test of WaitForExecution keeps the invariant: the transaction handed out
\* has a number that is nowhere else.
LEMMA ExecTestIInv ==
  ASSUME IInv, ExecTest PROVE IInv'
<1> USE MtsAssumption, RotateAssumption DEF IInv, SeqNum
<1>1. TypeOK'
  <2>1. (updated \in BOOLEAN /\ blocked \in BOOLEAN /\ rotating \in BOOLEAN)'
    BY Zenon DEF ExecTest, MayExecute, TypeOK
  <2>2. (lastCommitted \in 0..MaxSeq /\ lastEnqueue \in 0..MaxSeq)'
    BY DEF ExecTest, MayExecute, TypeOK, HandlerInv, AccountInv, Handed, Tx
  <2>3. (m \in [SeqNum -> Nat] /\ done \in SUBSET SeqNum)'
    BY DEF ExecTest, MayExecute, TypeOK, HandlerInv, AccountInv, Tx
  <2>4. (running \in SUBSET Tx /\ reporting \in SUBSET Tx /\ tx \in Tx \cup {NoTx})'
    BY DEF ExecTest, MayExecute, TypeOK, HandlerInv
  <2>5. (/\ upc \in {"recv", "drain", "notify"}
         /\ hpc \in {"select", "skip", "all", "exec"}
         /\ rotations \in 0..MaxRotate)'
    BY DEF ExecTest, MayExecute, TypeOK
  <2> QED
    BY <2>1, <2>2, <2>3, <2>4, <2>5 DEF TypeOK
<1>2. HandlerInv'
  BY DEF ExecTest, MayExecute, TypeOK, HandlerInv, Tx, NoTx, InFlight
<1>3. AccountInv'
  <2>1. tx \in Tx /\ tx.seq \in SeqNum /\ Handed = tx.seq - 1
    BY DEF ExecTest, HandlerInv, Handed, Tx
  <2>2. CASE MayExecute(tx.lc)
    <3>1. Handed' = tx.seq /\ InFlight' = InFlight \cup {tx}
      BY <2>2 DEF ExecTest, Handed, InFlight
    <3>2. m[tx.seq] = 0
      BY <2>1 DEF AccountInv, TypeOK
    <3>3. \A t \in InFlight : t.seq # tx.seq
      BY <2>1 DEF AccountInv, TypeOK, Tx, InFlight
    <3>4. InFlight \subseteq Tx
      BY DEF TypeOK, InFlight
    <3>5. (running \cap reporting = {})'
      BY <2>2, <3>3 DEF ExecTest, AccountInv, InFlight
    <3>6. (\A t \in InFlight : lastCommitted < t.seq /\ t.seq <= Handed /\ m[t.seq] = 0)'
      BY <2>1, <3>1, <3>2, <3>4 DEF ExecTest, AccountInv, TypeOK, Tx
    <3>7. (\A a, b \in InFlight : a.seq = b.seq => a = b)'
      BY <3>1, <3>3 DEF AccountInv
    <3>8. (/\ lastCommitted <= Handed
           /\ \A s \in SeqNum : m[s] > 0 => lastCommitted < s /\ s <= Handed /\ m[s] = 1)'
      BY <2>1, <3>1 DEF ExecTest, AccountInv, TypeOK
    <3> QED
      BY <3>5, <3>6, <3>7, <3>8 DEF AccountInv
  <2>3. CASE ~MayExecute(tx.lc)
    BY <2>3 DEF ExecTest, AccountInv, Handed, InFlight
  <2> QED
    BY <2>2, <2>3
<1>4. DoneInv'
  BY DEF ExecTest, MayExecute, TypeOK, DoneInv, HandlerInv, AccountInv, Handed, LCSound, DependencyHonoured, Tx, InFlight
<1>5. SeparateAlone'
  BY DEF ExecTest, MayExecute, TypeOK, SeparateAlone, HandlerInv, AccountInv, Handed, Tx, InFlight
<1> QED
  BY <1>1, <1>2, <1>3, <1>4, <1>5

\* Receiving from the channel updated keeps the invariant.
LEMMA WokenIInv ==
  ASSUME IInv, Woken PROVE IInv'
<1> USE MtsAssumption, RotateAssumption DEF IInv, SeqNum
<1>1. TypeOK'
  BY DEF Woken, Wakeup, TypeOK, Tx, NoTx
<1>2. HandlerInv'
  BY DEF Woken, Wakeup, TypeOK, HandlerInv, Tx, NoTx, InFlight
<1>3. AccountInv'
  BY DEF Woken, Wakeup, TypeOK, HandlerInv, AccountInv, Handed, Tx, InFlight
<1>4. DoneInv'
  BY DEF Woken, Wakeup, TypeOK, DoneInv, HandlerInv, AccountInv, Handed, LCSound, DependencyHonoured, Tx, InFlight
<1>5. SeparateAlone'
  BY DEF Woken, Wakeup, TypeOK, SeparateAlone, HandlerInv, AccountInv, Handed, Tx, InFlight
<1> QED
  BY <1>1, <1>2, <1>3, <1>4, <1>5

\* The commit of a transaction by a worker keeps the invariant.
LEMMA CommitIInv ==
  ASSUME IInv, NEW t \in running, Commit(t) PROVE IInv'
<1> USE MtsAssumption, RotateAssumption DEF IInv, SeqNum
<1>1. TypeOK'
  BY DEF Commit, TypeOK, Tx, NoTx
<1>2. HandlerInv'
  BY DEF Commit, TypeOK, HandlerInv, Tx, NoTx, InFlight
<1>3. AccountInv'
  BY DEF Commit, TypeOK, HandlerInv, AccountInv, Handed, Tx, InFlight
<1>4. DoneInv'
  BY DEF Commit, TypeOK, DoneInv, HandlerInv, AccountInv, Handed, LCSound, DependencyHonoured, Tx, InFlight
<1>5. SeparateAlone'
  BY DEF Commit, TypeOK, SeparateAlone, HandlerInv, AccountInv, Handed, Tx, InFlight
<1> QED
  BY <1>1, <1>2, <1>3, <1>4, <1>5

\* A worker's report of its number to LcUpdater keeps the invariant.
LEMMA ExecutedIInv ==
  ASSUME IInv, NEW t \in reporting, Executed(t) PROVE IInv'
<1> USE MtsAssumption, RotateAssumption DEF IInv, SeqNum
<1>1. TypeOK'
  <2>1. (updated \in BOOLEAN /\ blocked \in BOOLEAN /\ rotating \in BOOLEAN)'
    BY Zenon DEF Executed, LcUpdaterReceive, TypeOK
  <2>2. (lastCommitted \in 0..MaxSeq /\ lastEnqueue \in 0..MaxSeq)'
    BY DEF Executed, LcUpdaterReceive, TypeOK, HandlerInv, AccountInv, Handed, Tx
  <2>3. (m \in [SeqNum -> Nat] /\ done \in SUBSET SeqNum)'
    <3>1. t.seq \in SeqNum
      BY DEF Executed, TypeOK, HandlerInv, Tx
    <3>2. m' = m \/ m' = [m EXCEPT ![t.seq] = @ + 1]
      BY DEF Executed, LcUpdaterReceive
    <3>3. (m \in [SeqNum -> Nat])'
      <4> HIDE DEF SeqNum
      <4> QED
        BY <3>1, <3>2 DEF TypeOK
    <3> QED
      BY <3>1, <3>3 DEF Executed, TypeOK
  <2>4. (running \in SUBSET Tx /\ reporting \in SUBSET Tx /\ tx \in Tx \cup {NoTx})'
    BY DEF Executed, LcUpdaterReceive, TypeOK, HandlerInv
  <2>5. (/\ upc \in {"recv", "drain", "notify"}
         /\ hpc \in {"select", "skip", "all", "exec"}
         /\ rotations \in 0..MaxRotate)'
    BY DEF Executed, LcUpdaterReceive, TypeOK
  <2> QED
    BY <2>1, <2>2, <2>3, <2>4, <2>5 DEF TypeOK
<1>2. HandlerInv'
  BY DEF Executed, LcUpdaterReceive, TypeOK, HandlerInv, Tx, NoTx, InFlight
<1>3. AccountInv'
  <2>1. t \in Tx /\ t.seq \in SeqNum /\ InFlight \subseteq Tx
    BY DEF TypeOK, Tx, InFlight
  <2>2. lastCommitted < t.seq /\ t.seq <= Handed /\ m[t.seq] = 0
    BY DEF AccountInv, InFlight
  <2>3. m' = [m EXCEPT ![t.seq] = 1]
    BY <2>1, <2>2 DEF Executed, LcUpdaterReceive, TypeOK, Tx
  <2>4. Handed' = Handed /\ InFlight' = InFlight \ {t} /\ lastCommitted' = lastCommitted
    BY DEF Executed, Handed, InFlight, AccountInv
  <2>5. \A u \in InFlight' : u.seq # t.seq
    BY <2>4 DEF AccountInv, InFlight
  <2>6. (\A u \in InFlight : lastCommitted < u.seq /\ u.seq <= Handed /\ m[u.seq] = 0)'
    BY <2>1, <2>3, <2>4, <2>5 DEF AccountInv, TypeOK, Tx
  <2>7. (\A s \in SeqNum : m[s] > 0 => lastCommitted < s /\ s <= Handed /\ m[s] = 1)'
    BY <2>1, <2>2, <2>3, <2>4 DEF AccountInv, TypeOK
  <2>8. (running \cap reporting = {})'
    BY DEF Executed, AccountInv
  <2> QED
    BY <2>4, <2>6, <2>7, <2>8 DEF AccountInv
<1>4. DoneInv'
  BY DEF Executed, LcUpdaterReceive, TypeOK, DoneInv, HandlerInv, AccountInv, Handed, LCSound, DependencyHonoured, Tx, InFlight
<1>5. SeparateAlone'
  BY DEF Executed, LcUpdaterReceive, TypeOK, SeparateAlone, HandlerInv, AccountInv, Handed, Tx, InFlight
<1> QED
  BY <1>1, <1>2, <1>3, <1>4, <1>5

\* A step of LcUpdater keeps the invariant: it passes only executed numbers.
LEMMA LcUpdaterIInv ==
  ASSUME IInv, LcUpdater PROVE IInv'
<1> USE MtsAssumption, RotateAssumption DEF IInv, SeqNum
<1>1. TypeOK'
  <2>1. (updated \in BOOLEAN /\ blocked \in BOOLEAN /\ rotating \in BOOLEAN)'
    BY Zenon DEF LcUpdater, LcUpdaterStep, LcUpdaterAdvance, LcUpdaterNotify, LcUpdaterRest, LeastIsNext, Pending, TypeOK
  <2>2. (lastCommitted \in 0..MaxSeq /\ lastEnqueue \in 0..MaxSeq)'
    <3>1. CASE LcUpdaterAdvance
      BY <3>1 DEF LcUpdaterAdvance, LeastIsNext, Pending, TypeOK
    <3>2. CASE LcUpdaterNotify \/ LcUpdaterRest
      BY <3>2 DEF LcUpdaterNotify, LcUpdaterRest, TypeOK
    <3> QED
      BY <3>1, <3>2 DEF LcUpdater, LcUpdaterStep
  <2>3. (m \in [SeqNum -> Nat] /\ done \in SUBSET SeqNum)'
    <3>1. CASE LcUpdaterAdvance
      BY <3>1 DEF LcUpdater, LcUpdaterAdvance, LeastIsNext, Pending, TypeOK
    <3>2. CASE LcUpdaterNotify \/ LcUpdaterRest
      BY <3>2 DEF LcUpdater, LcUpdaterNotify, LcUpdaterRest, TypeOK
    <3> QED
      BY <3>1, <3>2 DEF LcUpdater, LcUpdaterStep
  <2>4. (running \in SUBSET Tx /\ reporting \in SUBSET Tx /\ tx \in Tx \cup {NoTx})'
    BY DEF LcUpdater, LcUpdaterStep, LcUpdaterAdvance, LcUpdaterNotify, LcUpdaterRest, LeastIsNext, Pending, TypeOK, HandlerInv
  <2>5. (/\ upc \in {"recv", "drain", "notify"}
         /\ hpc \in {"select", "skip", "all", "exec"}
         /\ rotations \in 0..MaxRotate)'
    BY DEF LcUpdater, LcUpdaterStep, LcUpdaterAdvance, LcUpdaterNotify, LcUpdaterRest, LeastIsNext, Pending, TypeOK
  <2> QED
    BY <2>1, <2>2, <2>3, <2>4, <2>5 DEF TypeOK
<1>2. HandlerInv'
  BY DEF LcUpdater, LcUpdaterStep, LcUpdaterAdvance, LcUpdaterNotify, LcUpdaterRest, LeastIsNext, Pending, TypeOK, HandlerInv, Tx, NoTx, InFlight
<1>3. AccountInv'
  <2>1. CASE LcUpdaterAdvance
    <3> DEFINE n == lastCommitted + 1
    <3>1. n \in SeqNum /\ m[n] = 1 /\ n <= Handed
      BY <2>1 DEF LcUpdaterAdvance, LeastIsNext, Pending, AccountInv
    <3>2. lastCommitted' = n /\ m' = [m EXCEPT ![n] = 0]
      BY <2>1, <3>1 DEF LcUpdaterAdvance, TypeOK
    <3>3. Handed' = Handed /\ InFlight' = InFlight
      BY <2>1 DEF LcUpdater, LcUpdaterAdvance, Handed, InFlight
    <3>4. InFlight \subseteq Tx /\ \A t \in InFlight : t.seq # n
      BY <3>1 DEF AccountInv, TypeOK, InFlight
    <3>5. (\A t \in InFlight : lastCommitted < t.seq /\ t.seq <= Handed /\ m[t.seq] = 0)'
      BY <3>1, <3>2, <3>3, <3>4 DEF AccountInv, TypeOK, Tx
    <3>6. (\A s \in SeqNum : m[s] > 0 => lastCommitted < s /\ s <= Handed /\ m[s] = 1)'
      BY <3>1, <3>2, <3>3 DEF AccountInv, TypeOK
    <3>7. (running \cap reporting = {})'
      BY DEF LcUpdater, AccountInv
    <3> QED
      BY <3>1, <3>2, <3>3, <3>5, <3>6, <3>7 DEF AccountInv
  <2>2. CASE LcUpdaterNotify \/ LcUpdaterRest
    BY <2>2 DEF LcUpdater, LcUpdaterNotify, LcUpdaterRest, AccountInv, Handed, InFlight
  <2> QED
    BY <2>1, <2>2 DEF LcUpdater, LcUpdaterStep
<1>4. DoneInv'
  <2>1. CASE LcUpdaterAdvance
    <3> DEFINE n == lastCommitted + 1
    <3>1. n \in SeqNum /\ n \in done /\ m[n] > 0
      BY <2>1 DEF LcUpdaterAdvance, LeastIsNext, Pending, DoneInv
    <3>2. lastCommitted' = n /\ m' = [m EXCEPT ![n] = @ - 1] /\ done' = done
      BY <2>1 DEF LcUpdater, LcUpdaterAdvance
    <3>3. running' = running /\ reporting' = reporting /\ InFlight' = InFlight
      BY DEF LcUpdater, InFlight
    <3>4. \A s \in SeqNum : m'[s] > 0 => m[s] > 0
      BY <3>1, <3>2 DEF TypeOK
    <3>5. LCSound'
      BY <3>1, <3>2 DEF DoneInv, LCSound, TypeOK
    <3> QED
      BY <3>2, <3>3, <3>4, <3>5 DEF DoneInv, DependencyHonoured
  <2>2. CASE LcUpdaterNotify \/ LcUpdaterRest
    BY <2>2 DEF LcUpdater, LcUpdaterNotify, LcUpdaterRest, DoneInv, LCSound, DependencyHonoured, InFlight
  <2> QED
    BY <2>1, <2>2 DEF LcUpdater, LcUpdaterStep
<1>5. SeparateAlone'
  BY DEF LcUpdater, LcUpdaterStep, LcUpdaterAdvance, LcUpdaterNotify, LcUpdaterRest, LeastIsNext, Pending, TypeOK, SeparateAlone, HandlerInv, AccountInv, Handed, Tx, InFlight
<1> QED
  BY <1>1, <1>2, <1>3, <1>4, <1>5

\* Every step of the manager and its clients keeps the invariant.
LEMMA NextIInv == IInv /\ [Next]_vars => IInv'
<1> SUFFICES ASSUME IInv, [Next]_vars PROVE IInv'
  OBVIOUS
<1>1. ASSUME NEW t \in Tx, HandleEntry(t) PROVE IInv'
  BY <1>1, HandleEntryIInv
<1>2. ASSUME NEW t \in Tx, HandleRotated(t) PROVE IInv'
  BY <1>2, HandleRotatedIInv
<1>3. CASE Replay
  BY <1>3, SkipSeqIInv, SkipDoneIInv, AllTestIInv, ExecTestIInv, WokenIInv DEF Replay
<1>4. ASSUME NEW t \in running, Commit(t) PROVE IInv'
  BY <1>4, CommitIInv
<1>5. ASSUME NEW t \in reporting, Executed(t) PROVE IInv'
  BY <1>5, ExecutedIInv
<1>6. CASE LcUpdater
  BY <1>6, LcUpdaterIInv
<1>7. CASE UNCHANGED vars
  BY <1>7 DEF vars, IInv, TypeOK, HandlerInv, AccountInv, DoneInv, SeparateAlone,
              Handed, InFlight, LCSound, DependencyHonoured
<1> QED
  BY <1>1, <1>2, <1>3, <1>4, <1>5, <1>6, <1>7 DEF Next

\* The inductive invariant holds in every reachable state of MtsManager.
THEOREM Invariance == Spec => []IInv
  BY InitIInv, NextIInv, PTL DEF Spec

\* Type correctness of MtsManager and its clients.
THEOREM TypeCorrect == Spec => []TypeOK
<1>1. IInv => TypeOK
  BY DEF IInv
<1> QED
  BY <1>1, Invariance, PTL

\* LcUpdater: when lastCommitted is N, every transaction with a number up to N
\* has been executed, for any number of transactions and any order of reports.
THEOREM LastCommittedSound == Spec => []LCSound
<1>1. IInv => LCSound
  BY DEF IInv, DoneInv
<1> QED
  BY <1>1, Invariance, PTL

\* WaitForExecution: no worker has a transaction with an uncommitted dependency.
THEOREM Dependencies == Spec => []DependencyHonoured
<1>1. IInv => DependencyHonoured
  BY DEF IInv, DoneInv
<1> QED
  BY <1>1, Invariance, PTL

\* WaitForAllCommitted: a separate transaction runs with no earlier one.
THEOREM Separation == Spec => []SeparateAlone
<1>1. IInv => SeparateAlone
  BY DEF IInv
<1> QED
  BY <1>1, Invariance, PTL

\* handleEntry resets the numbers at a rotation only when nothing is in flight
\* and nothing is pending in the priority queue of LcUpdater.
THEOREM RotationQuiet == Spec => RotateQuiet
<1>1. ASSUME IInv, [Next]_vars, lastCommitted' < lastCommitted
      PROVE  InFlight = {} /\ Pending = {}
  <2>1. lastCommitted \in Nat
    BY <1>1 DEF IInv, TypeOK
  <2>2. CASE AllTest
    BY <1>1, <2>1, <2>2, QuietWhenAllCommitted DEF AllTest
  <2>3. CASE LcUpdater
    BY <1>1, <2>1, <2>3 DEF LcUpdater, LcUpdaterStep, LcUpdaterAdvance, LcUpdaterNotify, LcUpdaterRest
  <2>4. CASE lastCommitted' = lastCommitted
    BY <1>1, <2>1, <2>4
  <2> QED
    BY <1>1, <2>2, <2>3, <2>4 DEF Next, Replay, vars, HandleEntry, HandleRotated, SkipSeq,
                                 SkipDone, ExecTest, Woken, Wakeup, Commit, Executed
<1>2. IInv /\ [Next]_vars => [lastCommitted' < lastCommitted => InFlight = {} /\ Pending = {}]_vars
  BY <1>1
<1> QED
  BY <1>2, Invariance, PTL DEF Spec, RotateQuiet
=============================================================================
