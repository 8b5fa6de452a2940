---------------------------- MODULE OracleStream ----------------------------
(***************************************************************************)
(* An Oracle source: the full copy as of a system change number (SCN), the *)
(* loop that asks LogMiner for windows of redo records, the goroutine that *)
(* collects them into transactions (LogMinerTxCache), the target that      *)
(* executes the transactions and saves the position, and restarts of the   *)
(* job from that position.                                                 *)
(*                                                                         *)
(* Redo is a sequence of records [op, tx, row], at SCN 1, 2, ...: op is    *)
(* "start", "commit", "rollback", "ddl", "dml" or "undo", a "dml" that a   *)
(* partial rollback wrote (rollback = 1).  The records of a transaction    *)
(* are a set of rows: a row collected twice is collected once.             *)
(* Oracle, LogMiner and the tables of the target are external.             *)
(***************************************************************************)
EXTENDS Naturals, Sequences, SequencesExt, FiniteSets, FiniteSetsExt

CONSTANTS
  Redo,
  Switches,    \* SCNs after which Oracle writes to another redo log
  ConfigScns,  \* values of SrcOracleConfig.Scn, 0 asks for a full copy
  Interval,    \* SCNs of a window
  RecordsCap,  \* capacity of the channel of records
  PipeCap,     \* entries between the handler and the target
  MaxRestarts,
  Seen         \* bound: the SCNs that CURRENT_SCN is seen to have

VARIABLES
  latest,    \* CURRENT_SCN
  config,    \* SrcOracleConfig.Scn
  store,     \* OracleSCNPos in Consul: [oldest, committed], 0: none
  src,       \* extractor: [pc, start, committed, snap, end, next, files, fp]
  cache,     \* LogMinerTxCache: sequence of [tx, start, rows], oldest first
  hand,      \* handler goroutine: [pc, rec, entry]
  records,   \* channel of records: SCNs
  pipe,      \* dataChannel, sender, NATS and queue of the target
  app,       \* target: the entry that is executed and not saved, << >>: none
  base,      \* SCN of the copy that the target has
  applied,   \* transaction -> the sets of rows that were executed for it
  restarts

srcVars == <<src, cache, hand, records>>
vars == <<latest, config, store, src, cache, hand, records, pipe, app, base, applied, restarts>>

LogOf(scn) == 1 + Quantify(Switches, LAMBDA s : s < scn)
Op(scn) == Redo[scn].op

\* Transactions; a DDL is one of its own
Of(scn) == Redo[scn].tx
TxIds == {Of(scn) : scn \in DOMAIN Redo}
Ends == {scn \in DOMAIN Redo : Op(scn) \in {"commit", "ddl"}}
StartOf == [t \in TxIds |-> CHOOSE scn \in DOMAIN Redo : Of(scn) = t /\ Op(scn) \in {"start", "ddl"}]

\* The rows of a transaction that no partial rollback undid
Rows ==
  [t \in TxIds |-> {Redo[s].row : s \in {s \in DOMAIN Redo :
     /\ Op(s) \in {"dml", "ddl"} /\ Of(s) = t
     /\ \A u \in s + 1 .. Len(Redo) : Op(u) = "undo" /\ Redo[u].tx = t => Redo[u].row # Redo[s].row}}]

NoEntry == << >>
NewHand == [pc |-> "take", rec |-> 0, entry |-> NoEntry]
NewSrc == [pc |-> "run", start |-> 0, committed |-> 0, snap |-> 0, end |-> 0, next |-> 0, files |-> 0, fp |-> 0]

Init ==
  /\ latest = Min(Seen) /\ config \in ConfigScns
  /\ store = [oldest |-> 0, committed |-> 0]
  /\ src = NewSrc /\ cache = << >> /\ hand = NewHand /\ records = << >>
  /\ pipe = << >> /\ app = NoEntry /\ base = config
  /\ applied = [t \in TxIds |-> {}] /\ restarts = 0

-----------------------------------------------------------------------------
(* Run: the position, and the full copy                                    *)

CalculateSCNPos(p, scn) ==
  IF p.committed = 0 THEN [start |-> scn, committed |-> 0]
  ELSE [start |-> IF p.oldest = 0 THEN p.committed ELSE p.oldest - 1, committed |-> p.committed]

Run ==
  LET p == CalculateSCNPos(store, config)
      fullCopy == config = 0 /\ p.start = 0 /\ p.committed = 0
  IN  /\ src.pc = "run"
      /\ src' = [src EXCEPT !.pc = IF fullCopy THEN "full" ELSE "files", !.start = p.start, !.committed = p.committed,
                            !.snap = IF config = 0 THEN latest ELSE config]
      /\ UNCHANGED <<latest, config, store, cache, hand, records, pipe, app, base, applied, restarts>>

\* oracleDump: every table AS OF SCN.  An error closes the NATS connection, and
\* full_complete is not sent
OracleDump ==
  /\ src.pc = "full"
  /\ \/ src' = [src EXCEPT !.pc = "full_complete"] /\ base' = src.snap
     \/ src' = [src EXCEPT !.pc = "dead"] /\ UNCHANGED base
  /\ UNCHANGED <<latest, config, store, cache, hand, records, pipe, app, applied, restarts>>

\* The target saves the position of the copy before it answers
SendFullComplete ==
  /\ src.pc = "full_complete"
  /\ store' = [oldest |-> src.snap, committed |-> src.snap]
  /\ src' = [src EXCEPT !.pc = "files", !.start = src.snap, !.committed = src.snap]
  /\ UNCHANGED <<latest, config, cache, hand, records, pipe, app, base, applied, restarts>>

-----------------------------------------------------------------------------
(* LoopLogminerRecord                                                      *)

\* initLogMiner: the list of log files, then the fingerprint of the current one
AddLogMinerFile ==
  /\ src.pc = "files"
  /\ src' = [src EXCEPT !.pc = "fp", !.files = LogOf(latest)]
  /\ UNCHANGED <<latest, config, store, cache, hand, records, pipe, app, base, applied, restarts>>

CurrentRedoLogSequenceFp ==
  /\ src.pc = "fp"
  /\ src' = [src EXCEPT !.pc = "bounds", !.fp = LogOf(latest)]
  /\ UNCHANGED <<latest, config, store, cache, hand, records, pipe, app, base, applied, restarts>>

\* Variant: the fingerprint of the first log stays
NeverChanged == FALSE
Changed == src.fp # LogOf(latest)

CheckRedoLogChanged ==
  /\ src.pc = "window"
  /\ src' = [src EXCEPT !.pc = IF Changed THEN "files" ELSE "bounds"]
  /\ UNCHANGED <<latest, config, store, cache, hand, records, pipe, app, base, applied, restarts>>

GetEndScn == IF src.start + Interval < latest THEN src.start + Interval ELSE latest

\* The current log may have been switched since the fingerprint was compared
StartLogMiner ==
  /\ src.pc = "bounds"
  /\ src' = [src EXCEPT !.pc = IF GetEndScn = src.start THEN "window" ELSE "query", !.end = GetEndScn]
  /\ UNCHANGED <<latest, config, store, cache, hand, records, pipe, app, base, applied, restarts>>

\* The query reads l.startScn again: the handler may have moved it
QueryRecords ==
  /\ src.pc = "query"
  /\ src' = [src EXCEPT !.pc = "read", !.next = src.start + 1]
  /\ UNCHANGED <<latest, config, store, cache, hand, records, pipe, app, base, applied, restarts>>

\* The records that LogMiner knows of
InFiles(scn) == scn <= src.end /\ LogOf(scn) <= src.files

GetLogMinerRecord ==
  /\ src.pc = "read" /\ InFiles(src.next) /\ Len(records) < RecordsCap
  /\ records' = Append(records, src.next)
  /\ src' = [src EXCEPT !.next = @ + 1]
  /\ UNCHANGED <<latest, config, store, cache, hand, pipe, app, base, applied, restarts>>

QueryEnds ==
  /\ src.pc = "read" /\ ~InFiles(src.next)
  /\ src' = [src EXCEPT !.pc = "window"]
  /\ UNCHANGED <<latest, config, store, cache, hand, records, pipe, app, base, applied, restarts>>

-----------------------------------------------------------------------------
(* Handler goroutine: LogMinerTxCache                                      *)

Cached(t) == \E i \in DOMAIN cache : cache[i].tx = t
Uncached(t) == SelectSeq(cache, LAMBDA c : c.tx # t)
InCache(t) == CHOOSE c \in Range(cache) : c.tx = t

\* Variant: the transaction that was started last
GetNewestUncommittedSCN(c) == IF c = << >> THEN 0 ELSE c[Len(c)].start
GetOldestUncommittedSCN(c) == IF c = << >> THEN 0 ELSE c[1].start

StartTx(scn) == IF Cached(Of(scn)) THEN cache ELSE Append(cache, [tx |-> Of(scn), start |-> scn, rows |-> {}])

AddTxRecord(scn) ==
  [i \in DOMAIN cache |->
     IF cache[i].tx # Of(scn) THEN cache[i]
     ELSE [cache[i] EXCEPT !.rows = IF Op(scn) = "undo" THEN @ \ {Redo[scn].row} ELSE @ \cup {Redo[scn].row}]]

NewCache(scn) ==
  CASE Op(scn) = "start" -> StartTx(scn)
    [] Op(scn) \in {"commit", "rollback"} -> Uncached(Of(scn))
    [] Op(scn) \in {"dml", "undo"} -> AddTxRecord(scn)
    [] Op(scn) = "ddl" -> cache

\* commitTx: a transaction without records is not handed on
Committed(scn) ==
  \/ Op(scn) = "ddl"
  \/ Op(scn) = "commit" /\ Cached(Of(scn)) /\ InCache(Of(scn)).rows # {}

\* The Handler of DataStreamEvents skips what the target has.
Skipped(scn) == scn <= src.committed

\* handleSQLs
HandleSQLs(scn) ==
  [tx |-> Of(scn), end |-> scn, oldest |-> GetOldestUncommittedSCN(Uncached(Of(scn))),
   rows |-> IF Op(scn) = "ddl" THEN {Redo[scn].row} ELSE InCache(Of(scn)).rows]

\* startScn follows the records, but only once the entry is handed on
Handle ==
  LET scn == Head(records)
  IN  /\ hand.pc = "take" /\ records # << >>
      /\ records' = Tail(records) /\ cache' = NewCache(scn)
      /\ IF Committed(scn) /\ ~Skipped(scn)
         THEN hand' = [pc |-> "send", rec |-> scn, entry |-> <<HandleSQLs(scn)>>] /\ UNCHANGED src
         ELSE src' = [src EXCEPT !.start = scn] /\ UNCHANGED hand
      /\ UNCHANGED <<latest, config, store, pipe, app, base, applied, restarts>>

HandleSend ==
  /\ hand.pc = "send" /\ Len(pipe) < PipeCap
  /\ pipe' = pipe \o hand.entry
  /\ hand' = NewHand
  /\ src' = [src EXCEPT !.start = hand.rec]
  /\ UNCHANGED <<latest, config, store, cache, records, app, base, applied, restarts>>

-----------------------------------------------------------------------------
(* Target: handleEntryOracle, EntryExecutedHook                            *)

HandleEntryOracle ==
  LET e == Head(pipe)
  IN  /\ app = NoEntry /\ pipe # << >>
      /\ pipe' = Tail(pipe) /\ app' = <<e>>
      /\ applied' = [applied EXCEPT ![e.tx] = @ \cup {e.rows}]
      /\ UNCHANGED <<latest, config, store, srcVars, base, restarts>>

SaveOracleSCNPos ==
  /\ app # NoEntry
  /\ store' = [oldest |-> app[1].oldest, committed |-> app[1].end]
  /\ app' = NoEntry
  /\ UNCHANGED <<latest, config, srcVars, pipe, base, applied, restarts>>

-----------------------------------------------------------------------------
(* Oracle goes on; the job is restarted                                    *)

Advance ==
  /\ latest < Len(Redo)
  /\ latest' = Min({scn \in Seen : scn > latest})
  /\ UNCHANGED <<config, store, srcVars, pipe, app, base, applied, restarts>>

Restart ==
  /\ restarts < MaxRestarts
  /\ restarts' = restarts + 1
  /\ src' = NewSrc /\ cache' = << >> /\ hand' = NewHand /\ records' = << >> /\ pipe' = << >> /\ app' = NoEntry
  /\ UNCHANGED <<latest, config, store, base, applied>>

Source ==
  \/ Run \/ OracleDump \/ SendFullComplete \/ AddLogMinerFile \/ CurrentRedoLogSequenceFp \/ CheckRedoLogChanged
  \/ StartLogMiner \/ QueryRecords \/ GetLogMinerRecord \/ QueryEnds
Handler == Handle \/ HandleSend
Target == HandleEntryOracle \/ SaveOracleSCNPos

Next == Source \/ Handler \/ Target \/ Advance \/ Restart

Spec == Init /\ [][Next]_vars

\* Goroutines run, Oracle answers and goes on; nothing is restarted by right
FairSpec == Spec /\ WF_vars(Source) /\ WF_vars(Handler) /\ WF_vars(Target) /\ WF_vars(Advance)

-----------------------------------------------------------------------------
(* Properties                                                              *)

\* Transactions that began after the copy and change something: a change that
\* is open at the SCN of the copy is in neither
Due(t) == StartOf[t] > base /\ Rows[t] # {}
EndsBy(scn) == {Of(s) : s \in {s \in Ends : s <= scn}}

\* Positions, windows and queues are of their kind; a position that is saved
\* is one that Oracle has reached
TypeOK ==
  /\ src.pc \in {"run", "full", "full_complete", "files", "fp", "window", "bounds", "query", "read", "dead"}
  /\ store.committed <= latest /\ store.oldest <= latest /\ src.start <= latest /\ src.end <= latest
  /\ Len(records) <= RecordsCap /\ Len(pipe) <= PipeCap
  /\ hand.pc \in {"take", "send"}

\* Whatever the target has saved as committed it has executed: no restart at
\* the saved position can skip a transaction (calculateSCNPos, Handler)
SavedIsApplied == \A t \in EndsBy(store.committed) : Due(t) => applied[t] # {}

\* The position restarts before the start of every transaction that is not
\* executed (crash recovery: "start with scn1-1, and ignore tx 2"), also when
\* records that are read again move the position back
ResumeCovers ==
  store.committed # 0 =>
    \A t \in TxIds : Due(t) /\ applied[t] = {} => StartOf[t] > CalculateSCNPos(store, config).start

\* A restart at the position that is saved at any moment loses nothing: it skips
\* only what was executed, and reads all of the rest from its start
Recoverable == TypeOK /\ SavedIsApplied /\ ResumeCovers


\* Every transaction is executed in the end, unless a redo log was switched
\* between the list of the files and the fingerprint in initLogMiner, which
\* is noticed only at the next switch, or the full copy failed
AllApplied ==
  <>(\/ src.pc = "dead" \/ src.files < src.fp
     \/ latest = Len(Redo) /\ \A t \in EndsBy(latest) : Due(t) => applied[t] # {})
=============================================================================
