--------------------------- MODULE WritesetOrder ---------------------------
(***************************************************************************)
(* The WritesetManager driven as handleEntry of driver/mysql/              *)
(* applier_incr.go drives it: one transaction after the other, with the    *)
(* resets for a big transaction and for a new binlog file.  assigned       *)
(* records the transactions of the current file with the numbers they got. *)
(***************************************************************************)
EXTENDS WritesetManager

CONSTANTS MaxSeq,  \* bound: the largest sequence number
          MaxRows, \* bound: row images in one transaction
          MixedTx  \* may one transaction write rows with and without keys?

ASSUME OrderAssumption == MaxSeq \in Nat /\ MaxRows \in Nat /\ MixedTx \in BOOLEAN

VARIABLE assigned

vars == <<history, lastCommonParent, assigned>>

Tx == [seq : 1..MaxSeq, lc : 0..MaxSeq, rows : UNION {[1..n -> Row] : n \in 0..MaxRows}]

\* Sequence numbers of one binlog file grow; some are skipped by the source.
NextTx(tx) ==
  /\ \A a \in assigned : a.seq < tx.seq
  /\ SourceDependency(tx, assigned)
  /\ MixedTx \/ Unmixed(tx)

Init == WsInit /\ assigned = {}

AssignTx(tx) ==
  /\ NextTx(tx)
  /\ GatLastCommit(tx)
  /\ assigned' = assigned \cup {[tx EXCEPT !.lc = LastCommitOf(tx)]}

\* A big transaction: everything before it has been committed when it starts
\* (its number is seq - 1) and everything after it must wait for it.
BigTx(tx) ==
  /\ NextTx(tx)
  /\ ResetCommonParent(tx.seq)
  /\ assigned' = assigned \cup {[tx EXCEPT !.lc = tx.seq - 1]}

\* A new binlog file: sequence numbers start again.
Rotate ==
  /\ ResetCommonParent(0)
  /\ assigned' = {}

Next ==
  \/ \E tx \in Tx : AssignTx(tx) \/ BigTx(tx)
  \/ Rotate

Spec == Init /\ [][Next]_vars

-----------------------------------------------------------------------------
\* The history maps hashes to sequence numbers of the file.
TypeOK ==
  /\ DOMAIN history \subseteq Key
  /\ \A k \in DOMAIN history : history[k] \in 1..MaxSeq
  /\ lastCommonParent \in 0..MaxSeq
  /\ assigned \subseteq Tx

\* GatLastCommit: a transaction's number covers every earlier transaction of
\* the file it conflicts with, whatever was forgotten when the history was
\* full or reset, and stays below its own sequence number.
DependencySound ==
  \A b \in assigned :
    /\ b.lc < b.seq
    /\ \A a \in assigned : a.seq < b.seq /\ Conflict(a, b) => a.seq <= b.lc

\* GatLastCommit forgets no write: every earlier write is in the history, at
\* its own number or a later one, or is covered by the common parent.
Remembered ==
  \A a \in assigned :
    /\ \A k \in HashTx(a) :
         \/ a.seq <= lastCommonParent
         \/ k \in DOMAIN history /\ a.seq <= history[k]
    /\ ~CanUseWritesets(a) => a.seq <= lastCommonParent
=============================================================================
