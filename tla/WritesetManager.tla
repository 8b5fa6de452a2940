-------------------------- MODULE WritesetManager --------------------------
(***************************************************************************)
(* The WritesetManager of driver/mysql/applier_mts.go: the dependency      *)
(* ("last committed") number the applier computes for a transaction from   *)
(* the unique keys of the rows it writes, instead of the number the source *)
(* MySQL put in the binlog.                                                *)
(***************************************************************************)
EXTENDS Transactions, FiniteSets, FiniteSetsExt

CONSTANT DependencyHistorySize

ASSUME HistoryAssumption == DependencyHistorySize \in Nat

VARIABLES history,          \* hash -> the last sequence number that wrote it
          lastCommonParent

wsVars == <<history, lastCommonParent>>

\* len(hashes): the slice keeps a hash once per row image that has it.
HashCount(tx) ==
  MapThenSumSet(LAMBDA i : Cardinality(RowKeys[tx.rows[i]]), DOMAIN tx.rows)

HasFKParent(tx) == Rows(tx) \cap FKParentRow # {}

CanUseWritesets(tx) == HashTx(tx) # {} /\ ~HasFKParent(tx)

ExceedsCapacity(tx) ==
  /\ CanUseWritesets(tx)
  /\ Cardinality(DOMAIN history) + HashCount(tx) > DependencyHistorySize

\* Mutant of Parents: lastCommit starts at 0 instead of the common parent.
ParentsFromZero(tx) ==
  {0} \cup {history[k] : k \in {h \in HashTx(tx) \cap DOMAIN history : history[h] < tx.seq}}

\* The numbers the loop over the hashes may raise lastCommit to.
Parents(tx) ==
  {lastCommonParent} \cup
  {history[k] : k \in {h \in HashTx(tx) \cap DOMAIN history : history[h] < tx.seq}}

\* The LastCommitted that GatLastCommit returns.
LastCommitOf(tx) ==
  IF CanUseWritesets(tx)
  THEN Max(Parents(tx))
  ELSE tx.lc

WsInit ==
  /\ history = [k \in {} |-> 0]
  /\ lastCommonParent = 0

\* Mutant of ResetCommonParent: the new parent is forgotten.
ResetForgetsParent(seq) ==
  /\ history' = [k \in {} |-> 0]
  /\ UNCHANGED lastCommonParent

\* resetCommonParent
ResetCommonParent(seq) ==
  /\ history' = [k \in {} |-> 0]
  /\ lastCommonParent' = seq

\* What GatLastCommit does to the manager.
GatLastCommit(tx) ==
  IF CanUseWritesets(tx) /\ ~ExceedsCapacity(tx)
  THEN /\ history' = [k \in DOMAIN history \cup HashTx(tx) |->
                        IF k \in HashTx(tx) THEN tx.seq ELSE history[k]]
       /\ UNCHANGED lastCommonParent
  ELSE ResetCommonParent(tx.seq)
=============================================================================
