---------------------------- MODULE KafkaRunner ----------------------------
(***************************************************************************)
(* The Kafka target of a job: driver/kafka/kafka3.go with SendMessages of  *)
(* kafka2.go.  Three subscriptions fill two channels, handleFullCopy and   *)
(* handleIncr empty them into Kafka, updateGtidLoop saves the position in  *)
(* Consul.  A runner that was shut down is replaced by a new one, but its  *)
(* goroutines live on in the plugin's process until they look at           *)
(* "shutdown": runners are numbered and several may be at work.            *)
(*                                                                         *)
(* Messages are whole (NatsMsgMerger has the segments) and the source is   *)
(* reduced to what it sends (FullCopy and BinlogReader have the rest).     *)
(* Positions: entry i of the dump is at i - Len(Dump), entry i of the      *)
(* stream at i.  Reads and writes of the Go string Gtid are whole.         *)
(***************************************************************************)
EXTENDS Integers, Sequences, SequencesExt, FiniteSetsExt

CONSTANTS
  Dump,          \* entries of the dump: [sql, def, groups]
  Stream,        \* entries of the binlog: [gno, final, ddl]
  Run,           \* bound: runners of the job, 1 .. n
  ChanCap,       \* capacity of chDumpEntry and chBinlogEntries: 2
  GroupMax,      \* entries that make up MessageGroupMaxSize
  MaxBatch,      \* bound: entries in one message of the source
  KeepOrder,     \* is the order of the messages in Kafka recorded?
  MaxFault       \* bound: crashes, pauses and failed calls

ASSUME KafkaAssumption == ChanCap \in Nat \ {0} /\ GroupMax \in Nat \ {0}

VARIABLES
  consul,   \* Gtid and BinlogFilePos of the job
  kafka,    \* what the brokers have accepted
  run,      \* the runners
  cur,      \* the runner of the task; 0: none yet
  src,      \* the source
  faults

vars == <<consul, kafka, run, cur, src, faults>>

NoGtid == {}           \* the empty string
Snapshot == 0          \* the member that stands for the GTID set of the dump
Version(i) == Cardinality({j \in 1 .. i : Stream[j].ddl})
\* The messages of an entry
DumpItems(i) == {[pos |-> i - Len(Dump), group |-> g] : g \in 1 .. Dump[i].groups}
StreamItem(i) == [pos |-> i, group |-> 1]
\* What a GTID set says was delivered
Items(gtid) ==
  (IF Snapshot \in gtid THEN UNION {DumpItems(i) : i \in DOMAIN Dump} ELSE {})
    \cup {StreamItem(i) : i \in {j \in DOMAIN Stream : Stream[j].gno \in gtid}}

-----------------------------------------------------------------------------
NewKafkaRunner ==
  [st |-> "none", shutdown |-> FALSE, natsConn |-> FALSE,
   full |-> 0, fullComplete |-> << >>, incr |-> << >>,  \* the three callbacks
   chDumpEntry |-> << >>, chBinlogEntries |-> << >>, fullWg |-> 0,
   hf |-> "none", dumpData |-> 0, group |-> 0,          \* handleFullCopy
   hi |-> "none", rest |-> << >>, entriesWillBeSent |-> << >>, byTimeout |-> FALSE,
   tables |-> -1,           \* version of the cached table; -1: none
   loop |-> "none",         \* updateGtidLoop
   gtidSet |-> NoGtid, Gtid |-> NoGtid, lastSavedGtid |-> NoGtid, pos |-> -Len(Dump)]

SrcOff == [st |-> "down", next |-> 0, start |-> 0, coord |-> [gtid |-> NoGtid, pos |-> 0],
           msg |-> << >>]

Init ==
  /\ consul = [gtid |-> NoGtid, pos |-> -Len(Dump)]
  /\ kafka = [sent |-> {}, schema |-> {}, last |-> -Len(Dump), gap |-> FALSE]
  /\ run = [r \in Run |-> NewKafkaRunner]
  /\ cur = 0 /\ src = SrcOff
  /\ faults = 0

\* What no goroutine of a runner that was shut down will read again
Forget(k) ==
  IF ~k.shutdown THEN k
  ELSE LET f == IF k.hf # "done" THEN k
                ELSE [k EXCEPT !.chDumpEntry = << >>, !.dumpData = 0, !.group = 0, !.full = 0,
                               !.fullWg = IF k.fullComplete = << >> THEN 0 ELSE @]
           i == IF f.hi # "done" THEN f
                ELSE [f EXCEPT !.chBinlogEntries = << >>, !.rest = << >>, !.incr = << >>,
                               !.entriesWillBeSent = << >>, !.byTimeout = FALSE]
           l == IF i.loop # "done" THEN i
                ELSE [i EXCEPT !.Gtid = NoGtid, !.lastSavedGtid = NoGtid, !.pos = 0]
       IN  IF l.hi = "done" /\ l.hf = "done" THEN [l EXCEPT !.tables = -1] ELSE l
Set(r, rec) == run' = [run EXCEPT ![r] = Forget(rec)]

-----------------------------------------------------------------------------
(* The source (external).  A request is answered or waits: src.msg is the  *)
(* one that is not answered yet.                                           *)

\* After the handshake: GetGtidFromConsul, and the dump if nothing is there
SrcStart ==
  /\ src.st = "down" /\ cur # 0 /\ run[cur].natsConn
  /\ LET first == IF \E i \in DOMAIN Stream : Stream[i].gno \notin consul.gtid
                  THEN Min({i \in DOMAIN Stream : Stream[i].gno \notin consul.gtid})
                  ELSE Len(Stream) + 1
     IN  src' = IF consul.gtid = NoGtid
                THEN [SrcOff EXCEPT !.st = "full", !.next = 1, !.start = 1,
                                    !.coord = [gtid |-> {Snapshot}, pos |-> 0]]
                ELSE [SrcOff EXCEPT !.st = "complete", !.start = first, !.coord = consul]
  /\ UNCHANGED <<consul, kafka, run, cur, faults>>

SrcSend ==
  /\ src.msg = << >>
  /\ src' = CASE src.st = "full" ->
                   [src EXCEPT !.msg = <<[subject |-> "full", entries |-> <<src.next>>]>>]
              [] src.st = "complete" ->
                   [src EXCEPT !.msg = <<[subject |-> "full_complete", entries |-> << >>]>>]
              [] OTHER -> src
  /\ src.st \in {"full", "complete"}
  /\ UNCHANGED <<consul, kafka, run, cur, faults>>

SrcSendIncr ==
  /\ src.msg = << >> /\ src.st = "incr" /\ src.next <= Len(Stream)
  /\ \E n \in 1 .. Min({MaxBatch, Len(Stream) - src.next + 1}) :
       src' = [src EXCEPT !.msg = <<[subject |-> "incr_hete",
                                     entries |-> [k \in 1 .. n |-> src.next + k - 1]]>>]
  /\ UNCHANGED <<consul, kafka, run, cur, faults>>

\* The reply arrives
Answered(s) ==
  LET n == Len(s.msg[1].entries)
      t == [s EXCEPT !.msg = << >>]
  IN  CASE s.st = "full" /\ s.next < Len(Dump) -> [t EXCEPT !.next = @ + 1]
        [] s.st = "full" -> [t EXCEPT !.st = "complete"]
        [] s.st = "complete" -> [t EXCEPT !.st = "incr", !.next = s.start]
        [] s.st = "incr" -> [t EXCEPT !.next = @ + n]

\* The table comes with the first event on it, and again when it was changed
HasTable(i) == i = src.start \/ Version(i) # Version(i - 1)

-----------------------------------------------------------------------------
(* Start and end of a runner                                               *)

\* Shutdown: nothing waits for processWg
ShutDown(k) == [k EXCEPT !.shutdown = TRUE, !.natsConn = FALSE]

\* onError: the source is told over control2
OnError(r, k) ==
  /\ Set(r, ShutDown(k))
  /\ src' = IF run[r].shutdown \/ r # cur THEN src ELSE SrcOff

\* Run: GetGtidForJob, GetBinlogFilePosForJob, initNatSubClient, initiateStreaming
RunnerStart ==
  /\ cur + 1 \in Run /\ (cur > 0 => run[cur].shutdown)
  /\ cur' = cur + 1
  /\ Set(cur + 1, [NewKafkaRunner EXCEPT !.st = "subscribed", !.natsConn = TRUE,
                     !.gtidSet = consul.gtid, !.Gtid = consul.gtid, !.pos = consul.pos])
  /\ src' = SrcOff
  /\ UNCHANGED <<consul, kafka, faults>>

\* Run after DstPutNats: NewKafkaManager and the three goroutines
RunnerRun(r) ==
  /\ run[r].st = "subscribed" /\ ~run[r].shutdown
  /\ Set(r, [run[r] EXCEPT !.st = "run", !.hf = "select", !.hi = "select", !.loop = "sleep"])
  /\ UNCHANGED <<consul, kafka, cur, src, faults>>

RunnerFails(r) ==
  /\ run[r].st = "subscribed" /\ ~run[r].shutdown /\ faults < MaxFault
  /\ OnError(r, run[r])
  /\ faults' = faults + 1
  /\ UNCHANGED <<consul, kafka, cur>>

\* The pause API, or the end of the source
Pause(r) ==
  /\ r = cur /\ run[r].natsConn /\ faults < MaxFault
  /\ Set(r, ShutDown(run[r]))
  /\ src' = SrcOff
  /\ faults' = faults + 1
  /\ UNCHANGED <<consul, kafka, cur>>

\* The process of the plugin dies with every goroutine in it
Crash ==
  /\ cur # 0 /\ faults < MaxFault
  /\ run' = [r \in Run |-> IF r <= cur THEN [NewKafkaRunner EXCEPT !.st = "dead", !.shutdown = TRUE]
                                       ELSE run[r]]
  /\ src' = SrcOff
  /\ faults' = faults + 1
  /\ UNCHANGED <<consul, kafka, cur>>

-----------------------------------------------------------------------------
(* initiateStreaming: the callbacks.  Each runs in a goroutine of its own  *)
(* and takes the next message when it has returned.                        *)

Received(r, subject) ==
  r = cur /\ run[r].natsConn /\ src.msg # << >> /\ src.msg[1].subject = subject

FullMsg(r) ==
  /\ Received(r, "full") /\ run[r].full = 0
  /\ Set(r, [run[r] EXCEPT !.full = src.msg[1].entries[1], !.fullWg = @ + 1])
  /\ UNCHANGED <<consul, kafka, cur, src, faults>>

\* The reply is lost when the connection was closed
Reply(r) == src' = IF r = cur /\ run[r].natsConn THEN Answered(src) ELSE src

FullEnqueue(r) ==
  /\ run[r].full # 0 /\ Len(run[r].chDumpEntry) < ChanCap
  /\ Set(r, [run[r] EXCEPT !.full = 0, !.chDumpEntry = Append(@, run[r].full)])
  /\ Reply(r)
  /\ UNCHANGED <<consul, kafka, cur, faults>>

FullCompleteMsg(r) ==
  /\ Received(r, "full_complete") /\ run[r].fullComplete = << >>
  /\ Set(r, [run[r] EXCEPT !.fullComplete = <<src.coord>>])
  /\ UNCHANGED <<consul, kafka, cur, src, faults>>

\* Variant: what was queued is waited for, not what is being sent
FullWgQueued(k) == k.chDumpEntry = << >>
FullWgWait(k) == k.fullWg = 0

\* fullWg.Wait does not look at shutdown
FullCompleted(r) ==
  /\ run[r].fullComplete # << >> /\ FullWgWait(run[r])
  /\ LET coord == run[r].fullComplete[1]
     IN  Set(r, [run[r] EXCEPT !.fullComplete = << >>, !.gtidSet = coord.gtid,
                               !.Gtid = coord.gtid, !.pos = coord.pos])
  /\ Reply(r)
  /\ UNCHANGED <<consul, kafka, cur, faults>>

IncrMsg(r) ==
  /\ Received(r, "incr_hete") /\ run[r].incr = << >>
  /\ Set(r, [run[r] EXCEPT !.incr = [k \in DOMAIN src.msg[1].entries |->
                [pos |-> src.msg[1].entries[k], table |-> HasTable(src.msg[1].entries[k])]]])
  /\ UNCHANGED <<consul, kafka, cur, src, faults>>

IncrEnqueue(r) ==
  /\ run[r].incr # << >> /\ Len(run[r].chBinlogEntries) < ChanCap
  /\ Set(r, [run[r] EXCEPT !.incr = << >>, !.chBinlogEntries = Append(@, run[r].incr)])
  /\ Reply(r)
  /\ UNCHANGED <<consul, kafka, cur, faults>>

\* The select takes shutdownCh
CallbackEnds(r) ==
  /\ run[r].shutdown /\ (run[r].full # 0 \/ run[r].incr # << >>)
  /\ \/ run[r].full # 0 /\ Set(r, [run[r] EXCEPT !.full = 0])
     \/ run[r].incr # << >> /\ Set(r, [run[r] EXCEPT !.incr = << >>])
  /\ UNCHANGED <<consul, kafka, cur, src, faults>>

-----------------------------------------------------------------------------
(* handleFullCopy                                                          *)

\* SendMessages: the brokers take all of the messages
Accept(items, schemas) ==
  kafka' = [sent |-> kafka.sent \cup Range(items),
            schema |-> kafka.schema \cup schemas,
            last |-> IF KeepOrder THEN Last(items).pos ELSE kafka.last,
            gap |-> kafka.gap \/ (KeepOrder /\ Head(items).pos > kafka.last + 1)]

\* SendMessages fails: the brokers may have taken some
AcceptSome(items) ==
  \E some \in SUBSET Range(items) : kafka' = [kafka EXCEPT !.sent = @ \cup some]

\* getOrSetTable: a table that comes with the event replaces the cached one.
\* Variant: the cached one is kept
KeepTable(cached, has, version) == IF cached # -1 THEN cached ELSE IF has THEN version ELSE -1
GetOrSetTable(cached, has, version) == IF has THEN version ELSE cached

HandleFullTake(r) ==
  /\ run[r].hf = "select" /\ run[r].chDumpEntry # << >>
  /\ LET i == Head(run[r].chDumpEntry)
         t == GetOrSetTable(run[r].tables, Dump[i].def, 0)
         k == [run[r] EXCEPT !.chDumpEntry = Tail(@), !.dumpData = i, !.group = 1, !.hf = "send",
                             !.tables = IF Dump[i].sql THEN @ ELSE t]
     IN  IF ~Dump[i].sql /\ t = -1
         THEN OnError(r, [k EXCEPT !.hf = "done"])   \* DTLE_BUG: tableItem is nil
         ELSE Set(r, k) /\ UNCHANGED src
  /\ UNCHANGED <<consul, kafka, cur, faults>>

\* sendDDLPayload, or one group of rows of kafkaTransformSnapshotData
HandleFullSend(r) ==
  /\ run[r].hf = "send"
  /\ LET i == run[r].dumpData
         item == [pos |-> i - Len(Dump), group |-> run[r].group]
         end == run[r].group = Dump[i].groups
     IN  \/ /\ Accept(<<item>>, {})
            /\ Set(r, [run[r] EXCEPT !.group = @ + 1, !.hf = IF end THEN "wg" ELSE @])
            /\ UNCHANGED <<src, faults>>
         \/ /\ faults < MaxFault
            /\ AcceptSome(<<item>>)
            /\ faults' = faults + 1
            /\ OnError(r, [run[r] EXCEPT !.hf = "done"])
  /\ UNCHANGED <<consul, cur>>

\* Variant: the wait group is not lowered
HandleFullNotDone(r) ==
  /\ run[r].hf = "wg"
  /\ Set(r, [run[r] EXCEPT !.hf = IF run[r].shutdown THEN "done" ELSE "select"])
  /\ UNCHANGED <<consul, kafka, cur, src, faults>>
HandleFullDone(r) ==
  /\ run[r].hf = "wg"
  /\ Set(r, [run[r] EXCEPT !.fullWg = @ - 1, !.hf = IF run[r].shutdown THEN "done" ELSE "select"])
  /\ UNCHANGED <<consul, kafka, cur, src, faults>>

HandlerEnds(r) ==
  /\ run[r].shutdown
  /\ \/ run[r].hf = "select" /\ Set(r, [run[r] EXCEPT !.hf = "done"])
     \/ run[r].hi = "select" /\ Set(r, [run[r] EXCEPT !.hi = "done"])
  /\ UNCHANGED <<consul, kafka, cur, src, faults>>

-----------------------------------------------------------------------------
(* handleIncr: entries are collected up to MessageGroupMaxSize or until    *)
(* the timer fires.                                                        *)

\* The loop over binlogEntries.Entries, up to a full group or the end
Collect(k) ==
  IF k.rest = << >>
    THEN [k EXCEPT !.hi = IF k.shutdown THEN "done" ELSE "select"]
    ELSE LET n == Min({Len(k.rest), GroupMax - Len(k.entriesWillBeSent)})
             got == k.entriesWillBeSent \o SubSeq(k.rest, 1, n)
         IN  [k EXCEPT !.entriesWillBeSent = got, !.rest = SubSeq(k.rest, n + 1, Len(k.rest)),
                       !.hi = IF Len(got) >= GroupMax THEN "transform"
                              ELSE IF k.shutdown THEN "done" ELSE "select"]

HandleIncrTake(r) ==
  /\ run[r].hi = "select" /\ run[r].chBinlogEntries # << >>
  /\ Set(r, Collect([run[r] EXCEPT !.chBinlogEntries = Tail(@),
                                   !.rest = Head(run[r].chBinlogEntries), !.byTimeout = FALSE]))
  /\ UNCHANGED <<consul, kafka, cur, src, faults>>

HandleIncrTimeout(r) ==
  /\ run[r].hi = "select" /\ run[r].entriesWillBeSent # << >>
  /\ Set(r, [run[r] EXCEPT !.hi = "transform", !.byTimeout = TRUE])
  /\ UNCHANGED <<consul, kafka, cur, src, faults>>

\* The cached table when entry n of a batch is written
TableAt(cached, entries, n) ==
  FoldLeft(LAMBDA t, e : GetOrSetTable(t, e.table, Version(e.pos)), cached, SubSeq(entries, 1, n))

\* An error of SendMessages leaves the coordinates as they are.
\* Variant: they are set all the same
SendFailedIgnored(k) == [k EXCEPT !.hi = "commit"]
SendFailed(k) == [k EXCEPT !.hi = "done"]

\* kafkaTransformDMLEventQueries up to SendMessages: rows are written with
\* the schema of the table as it is cached, before any of them is sent
TransformDML(r) ==
  /\ run[r].hi = "transform"
  /\ LET batch == run[r].entriesWillBeSent
         used == [n \in DOMAIN batch |-> TableAt(run[r].tables, batch, n)]
         dml == {n \in DOMAIN batch : ~Stream[batch[n].pos].ddl}
         k == [run[r] EXCEPT !.tables = used[Len(batch)]]
         messages == [n \in DOMAIN batch |-> StreamItem(batch[n].pos)]
     IN  \/ /\ IF \E n \in dml : used[n] = -1     \* DTLE_BUG: table meta is nil
                 THEN OnError(r, [k EXCEPT !.hi = "done"]) /\ UNCHANGED kafka
                 ELSE /\ Accept(messages, {[pos |-> batch[n].pos, version |-> used[n]] : n \in dml})
                      /\ Set(r, [k EXCEPT !.hi = "commit"]) /\ UNCHANGED src
            /\ UNCHANGED faults
         \/ /\ faults < MaxFault
            /\ AcceptSome(messages)
            /\ faults' = faults + 1
            /\ OnError(r, SendFailed(k))
  /\ UNCHANGED <<consul, cur>>

\* The coordinates of the batch; BinlogFile and BinlogPos come before Gtid
CommitBatch(r) ==
  /\ run[r].hi = "commit"
  /\ LET batch == run[r].entriesWillBeSent
     IN  Set(r, [run[r] EXCEPT !.hi = "gtid", !.pos = Last(batch).pos,
                   !.gtidSet = @ \cup {Stream[batch[n].pos].gno : n \in DOMAIN batch}])
  /\ UNCHANGED <<consul, kafka, cur, src, faults>>

GtidString(r) ==
  /\ run[r].hi = "gtid"
  /\ LET k == [run[r] EXCEPT !.Gtid = run[r].gtidSet, !.entriesWillBeSent = << >>]
     IN  Set(r, IF k.byTimeout THEN [k EXCEPT !.hi = IF k.shutdown THEN "done" ELSE "select"]
                ELSE Collect(k))
  /\ UNCHANGED <<consul, kafka, cur, src, faults>>

-----------------------------------------------------------------------------
(* updateGtidLoop: "for !kr.shutdown { Sleep; save }", so that a runner    *)
(* that was shut down may save once more.                                  *)

LoopEnd(k) == [k EXCEPT !.loop = IF k.shutdown THEN "done" ELSE "sleep"]

SaveGtid(r) ==
  /\ run[r].loop = "sleep"
  /\ IF run[r].Gtid # run[r].lastSavedGtid
       THEN consul' = [consul EXCEPT !.gtid = run[r].Gtid] /\ Set(r, [run[r] EXCEPT !.loop = "saved"])
       ELSE run[r].shutdown /\ Set(r, LoopEnd(run[r])) /\ UNCHANGED consul
  /\ UNCHANGED <<kafka, cur, src, faults>>

SaveGtidFails(r) ==
  /\ run[r].loop \in {"sleep", "pos"} /\ run[r].Gtid # run[r].lastSavedGtid /\ faults < MaxFault
  /\ OnError(r, [run[r] EXCEPT !.loop = "done"])
  /\ faults' = faults + 1
  /\ UNCHANGED <<consul, kafka, cur>>

\* kr.Gtid is read again: it may be newer than what was saved
LastSavedGtid(r) ==
  /\ run[r].loop = "saved"
  /\ Set(r, [run[r] EXCEPT !.loop = "pos", !.lastSavedGtid = run[r].Gtid])
  /\ UNCHANGED <<consul, kafka, cur, src, faults>>

SaveBinlogFilePos(r) ==
  /\ run[r].loop = "pos"
  /\ consul' = [consul EXCEPT !.pos = run[r].pos]
  /\ Set(r, LoopEnd(run[r]))
  /\ UNCHANGED <<kafka, cur, src, faults>>

-----------------------------------------------------------------------------
SrcSteps == SrcStart \/ SrcSend \/ SrcSendIncr
FullCallback(r) == FullMsg(r) \/ FullEnqueue(r)
FullCompleteCallback(r) == FullCompleteMsg(r) \/ FullCompleted(r)
IncrCallback(r) == IncrMsg(r) \/ IncrEnqueue(r)
HandleFullCopy(r) == HandleFullTake(r) \/ HandleFullSend(r) \/ HandleFullDone(r)
HandleIncr(r) ==
  HandleIncrTake(r) \/ HandleIncrTimeout(r) \/ TransformDML(r) \/ CommitBatch(r) \/ GtidString(r)
UpdateGtidLoop(r) == SaveGtid(r) \/ LastSavedGtid(r) \/ SaveBinlogFilePos(r)

Progress ==
  \/ SrcSteps \/ RunnerStart
  \/ \E r \in Run :
       \/ RunnerRun(r) \/ CallbackEnds(r) \/ HandlerEnds(r)
       \/ FullCallback(r) \/ FullCompleteCallback(r) \/ IncrCallback(r)
       \/ HandleFullCopy(r) \/ HandleIncr(r) \/ UpdateGtidLoop(r)

Next ==
  \/ Progress \/ Crash
  \/ \E r \in Run : RunnerFails(r) \/ Pause(r) \/ SaveGtidFails(r)

Spec == Init /\ [][Next]_vars

\* Goroutines go on, the job is resumed or restarted.  The work is finite, so
\* that it is enough that some of them goes on.
FairSpec == Spec /\ WF_vars(Progress)

-----------------------------------------------------------------------------
\* Every runner, the source and Consul hold values of their kinds; fullWg is
\* never negative (sync.WaitGroup panics) and channels keep their capacity.
TypeOK ==
  /\ consul.gtid \subseteq {Snapshot} \cup {Stream[i].gno : i \in DOMAIN Stream}
  /\ src.st \in {"down", "full", "complete", "incr"}
  /\ \A r \in Run :
       /\ run[r].fullWg \in 0 .. Len(Dump)
       /\ Len(run[r].chDumpEntry) <= ChanCap /\ Len(run[r].chBinlogEntries) <= ChanCap
       /\ run[r].hf \in {"none", "select", "send", "wg", "done"}
       /\ run[r].hi \in {"none", "select", "transform", "commit", "gtid", "done"}
       /\ run[r].loop \in {"none", "sleep", "saved", "pos", "done"}

\* The position in Consul is where the job goes on after a restart: whatever it
\* leaves out was accepted by Kafka, also when runners overlap, when a batch
\* was sent in part, and while Gtid and BinlogFilePos are saved one by one.
SavedSent ==
  /\ Items(consul.gtid) \subseteq kafka.sent
  /\ \A i \in 1 .. consul.pos : StreamItem(i) \in kafka.sent

\* "_full_complete must be ack-ed after all full entries has been executed (not
\* just received)": the source streams only when every row was accepted, and
\* fullWg, by which the callback knows, is not lowered below zero.
FullExecuted == TypeOK /\ (src.st = "incr" => Items({Snapshot}) \subseteq kafka.sent)

\* A row is written with the columns its table had in the binlog at that point,
\* although the table comes once, may be cached, and is lost in a restart.
SchemaFresh == \A m \in kafka.schema : m.version = Version(m.pos)

\* Every entry of the binlog reaches Kafka, whatever is paused, fails or crashes.
Delivered == <>(\A i \in DOMAIN Stream : StreamItem(i) \in kafka.sent)

\* "to avoid writing closed channel, we need to wait for all goroutines that
\* deal with data channels finishing. processWg is used for the waiting": after
\* Shutdown no older runner writes between the messages of a newer one, so that
\* consumers see no gap in the sequence of changes.
NoGap == ~kafka.gap
=============================================================================
