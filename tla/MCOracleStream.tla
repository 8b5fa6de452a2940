--------------------------- MODULE MCOracleStream ---------------------------
(* Transactions that overlap, one of them partly rolled back, one that is  *)
(* rolled back, a DDL and a switch of the redo log.  The copy is made at   *)
(* any SCN, inside of transactions too                                     *)
EXTENDS OracleStream

R(op, tx, row) == [op |-> op, tx |-> tx, row |-> row]
MCRedo ==
  << R("start", "z", ""), R("dml", "z", "r0"),
     R("start", "a", ""), R("dml", "a", "r1"), R("start", "b", ""), R("dml", "b", "r2"), R("start", "c", ""),
     R("commit", "b", ""), R("dml", "a", "r3"), R("undo", "a", "r3"), R("commit", "a", ""), R("ddl", "d", "r5"),
     R("dml", "c", "r4"), R("commit", "c", ""), R("rollback", "z", "") >>
=============================================================================
