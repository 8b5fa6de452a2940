---------------------------- MODULE MCApplierIncr ----------------------------
EXTENDS ApplierIncr
CONSTANTS r1, r2, r3, k1, k2, k3

MCRow == {r1, r2, r3}
MCKey == {k1, k2, k3}
MCRowKeys == r1 :> {k1} @@ r2 :> {k2} @@ r3 :> {k3}

E0 == [NoEntry EXCEPT !.file = 1]
Dml(g, s, l, rows) == [E0 EXCEPT !.gno = g, !.seq = s, !.lc = l, !.rows = rows]
Ddl(g, s) == [E0 EXCEPT !.gno = g, !.seq = s, !.ddl = TRUE]
Part(g, s, i, final, rows) ==
  [E0 EXCEPT !.gno = g, !.seq = s, !.lc = s - 1, !.index = i, !.final = final, !.rows = rows]
Own(e) == [e EXCEPT !.own = TRUE]
In(f, e) == [e EXCEPT !.file = f]

\* Independent and conflicting transactions.
OrdinaryTxs == <<Dml(1, 1, 0, <<r1>>), Dml(2, 2, 0, <<r2>>), Dml(3, 3, 1, <<r1, r3>>)>>
\* A number left out by the source, then a DDL between transactions.
AroundDDL == <<Dml(1, 1, 0, <<r1>>), Ddl(2, 3), Dml(3, 4, 1, <<r1>>), Dml(4, 5, 0, <<r2>>)>>
\* A transaction of the target itself, and the next binlog file.
Rotated == <<Dml(1, 1, 0, <<r1>>), Own(Dml(2, 2, 0, <<r2>>)), In(2, Dml(3, 1, 0, <<r1>>)), In(2, Dml(4, 2, 0, <<r2>>))>>
\* A big transaction behind an ordinary one, and the one behind it.
BigBehind == <<Dml(1, 1, 0, <<r3>>), Part(2, 2, 0, FALSE, <<r1, r2>>), Part(2, 2, 1, TRUE, <<r3>>), Dml(3, 3, 2, <<r1>>)>>
BigLast == SubSeq(BigBehind, 1, 3)
\* A big transaction first, then ordinary ones.
BigFirst == <<Part(1, 1, 0, FALSE, <<r1, r2>>), Part(1, 1, 1, TRUE, <<r3>>), Dml(2, 2, 1, <<r1>>), Dml(3, 3, 1, <<r2>>)>>
\* A source without a logical clock.
NonMts == <<[Part(1, 0, 0, FALSE, <<r1, r2>>) EXCEPT !.lc = 0],
            [Part(1, 0, 1, TRUE, <<r3>>) EXCEPT !.lc = 0], Ddl(2, 0), Dml(3, 0, 0, <<r1>>)>>
\* Short streams for errors, shutdowns and restarts.
ShortDDL == <<Dml(1, 1, 0, <<r1>>), Ddl(2, 2)>>
ShortBig == <<Part(1, 1, 0, FALSE, <<r1, r2>>), Part(1, 1, 1, TRUE, <<r3>>), Dml(2, 2, 1, <<r1>>)>>
\* Two transactions that may be committed in either order.
TwoTxs == <<Dml(1, 1, 0, <<r1, r3>>), Dml(2, 2, 0, <<r2>>)>>

Quiet == [stream |-> << >>, mysqlDependency |-> FALSE, noPipe |-> FALSE, cleanup |-> 100,
          resends |-> 0, restarts |-> 0, errors |-> 0, ackMayFail |-> FALSE, mayShutdown |-> FALSE]
Of(c, streams) == {[c EXCEPT !.stream = s] : s \in streams}

\* Nothing fails; gtid_executed is cleaned up, the source sends again
ReplayCases == Of([Quiet EXCEPT !.cleanup = 3, !.resends = 1], {OrdinaryTxs, AroundDDL, Rotated, BigFirst, NonMts})
\* An error or a shutdown
StopCases ==
  Of([Quiet EXCEPT !.mysqlDependency = TRUE, !.noPipe = TRUE, !.errors = 1, !.mayShutdown = TRUE], {TwoTxs, ShortDDL, BigLast})
\* Errors, acknowledgements that fail, shutdowns and restarts
FailureCases ==
  Of([Quiet EXCEPT !.restarts = 1, !.errors = 1], {TwoTxs})
  \cup Of([Quiet EXCEPT !.restarts = 1, !.errors = 1, !.ackMayFail = TRUE, !.mayShutdown = TRUE], {ShortBig})
\* What the replay is known to go wrong with
PipeCases == Of(Quiet, {BigBehind})
CleanupCases == Of([Quiet EXCEPT !.cleanup = 2], {OrdinaryTxs})
CloseCases == Of([Quiet EXCEPT !.mayShutdown = TRUE], {BigFirst})

MCCases == ReplayCases \cup StopCases \cup FailureCases
=============================================================================
