------------------------------- MODULE Dumper -------------------------------
(***************************************************************************)
(* The dump of one table by chunks: driver/common/dumper.go and            *)
(* driver/mysql/dumper.go.  A goroutine reads chunk after chunk, cuts it   *)
(* into entries and sends them to ResultsChannel, which it closes at the   *)
(* end.  The rows of table t are 1 .. Rows[t] in the order of the query.   *)
(***************************************************************************)
EXTENDS Integers, Sequences, FiniteSetsExt

CONSTANTS
  Rows,            \* number of rows of each table
  HasUniqueKey,    \* the tables with a UseUniqueKey
  ChunkSize,
  DumpEntryLimit,  \* in rows
  ResultsCap       \* capacity of ResultsChannel: 24

ASSUME DumperAssumption ==
  /\ Rows \in Seq(Nat)
  /\ ChunkSize \in Nat \ {0} /\ DumpEntryLimit \in Nat \ {0} /\ ResultsCap \in Nat \ {0}

NoDumper == [table |-> 0, iteration |-> 0, lastMax |-> 0, unsent |-> << >>,
             results |-> << >>, closed |-> TRUE, err |-> FALSE]

NewDumper(t) == [NoDumper EXCEPT !.table = t, !.closed = FALSE]

\* The last row before the chunk: the key of buildQueryOnUniqueKey, or the
\* OFFSET of buildQueryOldWay
ChunkAfter(d) == IF d.table \in HasUniqueKey THEN d.lastMax ELSE d.iteration * ChunkSize

NRows(d) == Max({0, Min({ChunkSize, Rows[d.table] - ChunkAfter(d)})})

\* The entries of a chunk: consecutive rows, cut when DumpEntryLimit is reached
SplitChunk(d) ==
  [i \in 1 .. (NRows(d) + DumpEntryLimit - 1) \div DumpEntryLimit |->
     [table |-> d.table,
      first |-> ChunkAfter(d) + (i - 1) * DumpEntryLimit + 1,
      last  |-> ChunkAfter(d) + Min({i * DumpEntryLimit, NRows(d)})]]

\* Dump: one round of the loop; an empty chunk is the end
GetChunkData(d) ==
  [d EXCEPT !.iteration = @ + 1, !.unsent = SplitChunk(d),
            !.lastMax = IF NRows(d) = 0 THEN @ ELSE ChunkAfter(d) + NRows(d),
            !.closed = NRows(d) = 0]

ChunkFails(d) == [d EXCEPT !.iteration = @ + 1, !.err = TRUE, !.closed = TRUE]

HandleEntry(d) ==
  [d EXCEPT !.unsent = Tail(@), !.results = Append(@, Head(d.unsent))]
=============================================================================
