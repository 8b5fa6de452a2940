--------------------------- MODULE ParallelReplay ---------------------------
(***************************************************************************)
(* What the incremental replay promises, without its goroutines: the       *)
(* transactions of the stream are committed on the target one at a time,   *)
(* each at most once and with exactly its rows in their order, a           *)
(* transaction after those it conflicts with, and a DDL after everything   *)
(* before it and before everything after it.                               *)
(***************************************************************************)
EXTENDS Transactions, SequencesExt

VARIABLES stream, \* the entries sent by the source
          log     \* what was committed on the target, in order

\* The transactions of the stream.
Gnos == {stream[i].gno : i \in DOMAIN stream}
PartsOf(g) == SelectSeq(stream, LAMBDA e : e.gno = g)
RowsOf(g) == FoldLeft(LAMBDA acc, e : acc \o e.rows, <<>>, PartsOf(g))
TxOf(g) == [PartsOf(g)[1] EXCEPT !.rows = RowsOf(g)]
IsDDL(g) == PartsOf(g)[1].ddl
IsOwn(g) == PartsOf(g)[1].own

Applied == {log[i].gno : i \in DOMAIN log}

MustPrecede(p, g) ==
  /\ p < g
  /\ ~IsOwn(p)
  /\ IsDDL(p) \/ IsDDL(g) \/ Conflict(TxOf(p), TxOf(g))

Init == log = <<>>

CommitTx(g) ==
  /\ g \notin Applied
  /\ ~IsOwn(g)
  /\ \A p \in Gnos : MustPrecede(p, g) => p \in Applied
  /\ log' = Append(log, [gno |-> g, rows |-> RowsOf(g)])
  /\ UNCHANGED stream

Next == \E g \in Gnos : CommitTx(g)

Spec == Init /\ [][Next]_<<stream, log>>
=============================================================================
