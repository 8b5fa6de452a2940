---------------------------- MODULE Transactions ----------------------------
(***************************************************************************)
(* What the applier looks at in a replicated transaction tx: tx.seq and    *)
(* tx.lc (the binlog's sequence_number and last_committed) and tx.rows,    *)
(* the row images of its events in order.                                  *)
(*                                                                         *)
(* A row image is a member of Row; RowKeys[r] is the set of unique key     *)
(* values HashTx hashes for it, empty when its table has no unique key or  *)
(* when every unique key of the image has a NULL column.  FKParentRow      *)
(* holds the rows of tables that have foreign key children (the FKParent   *)
(* flag of an event) and FKRef the pairs <<child, parent>> of rows.        *)
(***************************************************************************)
EXTENDS Integers, Sequences

CONSTANTS Row,         \* row images
          Key,         \* hashed unique key values
          RowKeys,     \* RowKeys[r]: the hashes of row image r
          FKParentRow, \* rows of tables with FKChildren
          FKRef        \* <<child, parent>>

ASSUME RowAssumption ==
  /\ RowKeys \in [Row -> SUBSET Key]
  /\ FKParentRow \subseteq Row
  /\ FKRef \subseteq Row \X FKParentRow

Rows(tx) == {tx.rows[i] : i \in DOMAIN tx.rows}

HashTx(tx) == UNION {RowKeys[r] : r \in Rows(tx)}

\* Two transactions that must not be reordered: they write the same row, the
\* same unique key value, or a child and its foreign key parent.
Conflict(a, b) ==
  \/ Rows(a) \cap Rows(b) # {}
  \/ HashTx(a) \cap HashTx(b) # {}
  \/ \E ref \in FKRef : \/ ref[1] \in Rows(a) /\ ref[2] \in Rows(b)
                        \/ ref[2] \in Rows(a) /\ ref[1] \in Rows(b)

\* The contract of the source: last_committed in the binlog is below the
\* sequence number and covers every earlier transaction of the same file
\* that conflicts.
SourceDependency(tx, earlier) ==
  /\ tx.lc < tx.seq
  /\ \A a \in earlier : a.seq < tx.seq /\ Conflict(a, tx) => a.seq <= tx.lc

\* HashTx sees all rows of the transaction or none of them.
Unmixed(tx) == (\A r \in Rows(tx) : RowKeys[r] # {}) \/ HashTx(tx) = {}
=============================================================================
