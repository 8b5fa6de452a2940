---------------------------- MODULE SourceStream ----------------------------
(***************************************************************************)
(* A MySQL source while it streams: the binlog reader splits transactions  *)
(* into entries and is throttled by the parts of big transactions that are *)
(* not acknowledged; a sender goroutine gathers entries into messages; the *)
(* acknowledgements of the target, the end at a target GTID set and        *)
(* Shutdown run beside them.  Several jobs of one node share the counter   *)
(* of jobs with big transactions (g.bigTxJobs).                            *)
(*                                                                         *)
(* A transaction is a sequence of events: "small" and "large" are row      *)
(* events ("large": the entry reaches DumpEntryLimit with it), "xid" ends  *)
(* it; <<"ddl">> and <<"skip">> are queries, replicated or not.  An entry  *)
(* is [tx, index, final].  NATS, the target and time are external.         *)
(***************************************************************************)
EXTENDS Integers, Sequences, SequencesExt, FiniteSets, FiniteSetsExt

CONSTANTS
  Jobs,
  Stream,         \* job -> its binlog, a sequence of transactions
  BigTxSrcQueue,  \* parts that may be unacknowledged while the reader goes on
  BigTxMaxJobs,   \* jobs with big transactions at which every reader is throttled
  GroupMaxSize,   \* entries of a message
  ChanCap,        \* capacity of dataChannel
  Scenarios       \* [stop, fault, finish]: the jobs that may be shut down from outside,
                  \* whose requests may fail, and that are told to finish

VARIABLES
  env,        \* the scenario of this behaviour
  bigTxJobs,  \* g.bigTxJobs
  rd,         \* reader: [pc, tx, ev, index, entry, forced]
  bigTxCount, \* BinlogReader.BigTxCount
  closed,     \* BinlogReader.shutdown
  gset,       \* BinlogReader.CurrentGtidSet: transactions
  target,     \* BinlogReader.targetGtid: transactions, {} is nil
  dataChannel,
  snd,        \* sender goroutine: [pc, entries]
  got,        \* entries that the target received
  toAck,      \* parts that the target has not acknowledged
  ack,        \* callback of bigtx_ack: "idle", "dec", "sub"
  fin,        \* Finish1: "no", "set", "done"
  shutdown,   \* Extractor.shutdown
  stop        \* Shutdown: "no", "count", "close", "wait", "done"

readerVars == <<rd, bigTxCount, closed, gset>>
vars == <<env, bigTxJobs, rd, bigTxCount, closed, gset, target, dataChannel, snd, got, toAck, ack, fin, shutdown, stop>>

IsPartOfBigTx(e) == ~(e.index = 0 /\ e.final)
Txs(j) == 1 .. Len(Stream[j])

\* The entries of a job's binlog
TxEntries(j, tx) ==
  LET ends == SelectSeq(Stream[j][tx], LAMBDA v : v # "small")
  IN  [k \in 1 .. Len(ends) |-> [tx |-> tx, index |-> k - 1, final |-> k = Len(ends)]]
Expected == [j \in Jobs |-> FlattenSeq([tx \in Txs(j) |-> TxEntries(j, tx)])]

Init ==
  /\ env \in Scenarios
  /\ bigTxJobs = 0
  /\ rd = [j \in Jobs |-> [pc |-> "throttle", tx |-> 1, ev |-> 1, index |-> 0, entry |-> << >>, forced |-> FALSE]]
  /\ bigTxCount = [j \in Jobs |-> 0] /\ closed = [j \in Jobs |-> FALSE]
  /\ gset = [j \in Jobs |-> {}] /\ target = [j \in Jobs |-> {}]
  /\ dataChannel = [j \in Jobs |-> << >>]
  /\ snd = [j \in Jobs |-> [pc |-> "loop", entries |-> << >>]]
  /\ got = [j \in Jobs |-> << >>] /\ toAck = [j \in Jobs |-> << >>] /\ ack = [j \in Jobs |-> "idle"]
  /\ fin = [j \in Jobs |-> "no"]
  /\ shutdown = [j \in Jobs |-> FALSE] /\ stop = [j \in Jobs |-> "no"]

-----------------------------------------------------------------------------
(* Reader: DataStreamEvents                                                *)

\* Throttle if this job has un-acked big tx, or too many jobs have
BigTxReachMax == bigTxJobs >= BigTxMaxJobs
Throttled(j) == bigTxCount[j] > BigTxSrcQueue \/ BigTxReachMax

Throttle(j) ==
  /\ rd[j].pc = "throttle"
  /\ rd' = [rd EXCEPT ![j].pc = IF closed[j] THEN "end" ELSE IF rd[j].tx \in Txs(j) THEN "event" ELSE "idle"]
  /\ closed[j] \/ ~Throttled(j)
  /\ UNCHANGED <<env, bigTxJobs, bigTxCount, closed, gset, target, dataChannel, snd, got, toAck, ack, fin, shutdown, stop>>

\* Force to read an event every 1000ms.  Variant: not for the parts of other jobs
ForceOwn(j) == ~closed[j] /\ bigTxCount[j] > BigTxSrcQueue
Force(j) == ~closed[j] /\ Throttled(j)

ForcedEvent(j) ==
  /\ rd[j].pc = "throttle" /\ Force(j)
  /\ rd' = [rd EXCEPT ![j].pc = IF rd[j].tx \in Txs(j) THEN "event" ELSE "idle", ![j].forced = TRUE]
  /\ UNCHANGED <<env, bigTxJobs, bigTxCount, closed, gset, target, dataChannel, snd, got, toAck, ack, fin, shutdown, stop>>

Counted(e) == IF IsPartOfBigTx(e) THEN 1 ELSE 0

\* handleEvent: what the event makes of the reader's entry.  A GTID event starts
\* it as a whole transaction, a part that is sent before the end is not final
HandledEntry(j) == [tx |-> rd[j].tx, index |-> rd[j].index, final |-> Stream[j][rd[j].tx][rd[j].ev] # "large"]

\* GetEvent, then handleEvent up to sendEntry's AddInt32.  A closed reader
\* stops; a small event stays in the entry; a large event and the end of the
\* transaction send it
HandleEvent(j) ==
  LET r == rd[j]
      v == Stream[j][r.tx][r.ev]
      e == HandledEntry(j)
  IN  /\ r.pc = "event"
      /\ IF closed[j] THEN rd' = [rd EXCEPT ![j].pc = "end"] /\ UNCHANGED bigTxCount
         ELSE IF v = "small" THEN rd' = [rd EXCEPT ![j].ev = @ + 1, ![j].pc = "throttle"] /\ UNCHANGED bigTxCount
         ELSE /\ bigTxCount' = [bigTxCount EXCEPT ![j] = @ + Counted(e)]
              /\ rd' = [rd EXCEPT ![j].entry = <<e>>,
                                  ![j].pc = IF Counted(e) = 1 /\ bigTxCount'[j] = 1 THEN "addjob" ELSE "send"]
      /\ UNCHANGED <<env, bigTxJobs, closed, gset, target, dataChannel, snd, got, toAck, ack, fin, shutdown, stop>>

AddBigTxJob(j) ==
  /\ rd[j].pc = "addjob"
  /\ bigTxJobs' = bigTxJobs + 1
  /\ rd' = [rd EXCEPT ![j].pc = "send"]
  /\ UNCHANGED <<env, bigTxCount, closed, gset, target, dataChannel, snd, got, toAck, ack, fin, shutdown, stop>>

\* Variant: the entry of the next part starts at 0 again
NextIndexNew(i) == 0
NextIndex(i) == i + 1

\* The place after an entry: the next part, or the next transaction
AfterSend(j) ==
  LET r == rd[j]
  IN  IF ~r.entry[1].final
      THEN [r EXCEPT !.pc = "throttle", !.ev = @ + 1, !.index = NextIndex(@), !.entry = << >>]
      ELSE [r EXCEPT !.pc = IF Stream[j][r.tx] = <<"skip">> THEN "throttle" ELSE "gset",
                     !.tx = @ + 1, !.ev = 1, !.index = 0, !.entry = << >>]

SendEntry(j) ==
  /\ rd[j].pc = "send" /\ Len(dataChannel[j]) < ChanCap
  /\ dataChannel' = [dataChannel EXCEPT ![j] = @ \o rd[j].entry]
  /\ rd' = [rd EXCEPT ![j] = AfterSend(j)]
  /\ UNCHANGED <<env, bigTxJobs, bigTxCount, closed, gset, target, snd, got, toAck, ack, fin, shutdown, stop>>

\* <-b.shutdownCh in sendEntry: the entry is dropped
DropEntry(j) ==
  /\ rd[j].pc = "send" /\ closed[j]
  /\ rd' = [rd EXCEPT ![j] = AfterSend(j)]
  /\ UNCHANGED <<env, bigTxJobs, bigTxCount, closed, gset, target, dataChannel, snd, got, toAck, ack, fin, shutdown, stop>>

\* handleEventGSet, onMeetTarget.  A skipped query does not come here
HandleEventGSet(j) ==
  /\ rd[j].pc = "gset"
  /\ gset' = [gset EXCEPT ![j] = 1 .. rd[j].tx - 1]
  /\ closed' = [closed EXCEPT ![j] = @ \/ (target[j] # {} /\ target[j] \subseteq gset'[j])]
  /\ rd' = [rd EXCEPT ![j].pc = "throttle"]
  /\ UNCHANGED <<env, bigTxJobs, bigTxCount, target, dataChannel, snd, got, toAck, ack, fin, shutdown, stop>>

\* GetEvent of a closed reader fails at the end of the binlog, and that is an
\* error unless Shutdown closed it: onError
GetEventError(j) ==
  /\ rd[j].pc = "idle" /\ closed[j]
  /\ rd' = [rd EXCEPT ![j].pc = IF shutdown[j] THEN "end" ELSE "failed"]
  /\ UNCHANGED <<env, bigTxJobs, bigTxCount, closed, gset, target, dataChannel, snd, got, toAck, ack, fin, shutdown, stop>>

Reader(j) ==
  \/ Throttle(j) \/ ForcedEvent(j) \/ HandleEvent(j) \/ AddBigTxJob(j) \/ SendEntry(j) \/ DropEntry(j)
  \/ HandleEventGSet(j) \/ GetEventError(j)

-----------------------------------------------------------------------------
(* Sender: the goroutine of StreamEvents                                   *)

Group(entries, e) == Append(entries, e)

Receive(j) ==
  /\ snd[j].pc = "loop" /\ ~shutdown[j] /\ dataChannel[j] # << >>
  /\ dataChannel' = [dataChannel EXCEPT ![j] = Tail(@)]
  /\ LET entries == Group(snd[j].entries, Head(dataChannel[j]))
     IN  snd' = [snd EXCEPT ![j] = [pc |-> IF Len(entries) >= GroupMaxSize THEN "publish" ELSE "loop",
                                    entries |-> entries]]
  /\ UNCHANGED <<env, bigTxJobs, readerVars, target, got, toAck, ack, fin, shutdown, stop>>

GroupTimeout(j) ==
  /\ snd[j].pc = "loop" /\ ~shutdown[j] /\ snd[j].entries # << >>
  /\ snd' = [snd EXCEPT ![j].pc = "publish"]
  /\ UNCHANGED <<env, bigTxJobs, readerVars, target, dataChannel, got, toAck, ack, fin, shutdown, stop>>

\* for !e.shutdown: seen after an entry or the timer.  Variant: only after an entry
SenderEndOnEntry(j) ==
  /\ snd[j].pc = "loop" /\ shutdown[j] /\ dataChannel[j] # << >>
  /\ snd' = [snd EXCEPT ![j].pc = "end"]
  /\ UNCHANGED <<env, bigTxJobs, readerVars, target, dataChannel, got, toAck, ack, fin, shutdown, stop>>
SenderEnd(j) ==
  /\ snd[j].pc = "loop" /\ shutdown[j]
  /\ snd' = [snd EXCEPT ![j].pc = "end"]
  /\ UNCHANGED <<env, bigTxJobs, readerVars, target, dataChannel, got, toAck, ack, fin, shutdown, stop>>

NatsOpen(j) == stop[j] \in {"no", "count", "close"}

\* The request is answered: sendEntriesAndClear
Publish(j) ==
  /\ snd[j].pc = "publish" /\ NatsOpen(j)
  /\ got' = [got EXCEPT ![j] = @ \o snd[j].entries]
  /\ toAck' = [toAck EXCEPT ![j] = @ \o SelectSeq(snd[j].entries, IsPartOfBigTx)]
  /\ snd' = [snd EXCEPT ![j] = [pc |-> "loop", entries |-> << >>]]
  /\ UNCHANGED <<env, bigTxJobs, readerVars, target, dataChannel, ack, fin, shutdown, stop>>

\* The request fails, before or after it arrived: onError.  The goroutine
\* itself runs Shutdown when it is the first, and leaves its loop otherwise
PublishError(j) ==
  /\ snd[j].pc = "publish" /\ (~NatsOpen(j) \/ j \in env.fault)
  /\ got' \in {got, [got EXCEPT ![j] = @ \o snd[j].entries]}
  /\ snd' = [snd EXCEPT ![j] = [pc |-> IF shutdown[j] THEN "end" ELSE "stopping", entries |-> << >>]]
  /\ UNCHANGED <<env, bigTxJobs, readerVars, target, dataChannel, toAck, ack, fin, shutdown, stop>>

Sender(j) == Receive(j) \/ GroupTimeout(j) \/ SenderEnd(j) \/ Publish(j) \/ PublishError(j)

-----------------------------------------------------------------------------
(* Callback of bigtx_ack                                                   *)

\* An acknowledgement that finds e.shutdown set is only answered
AckArrives(j) ==
  /\ ack[j] = "idle" /\ toAck[j] # << >> /\ ~shutdown[j]
  /\ ack' = [ack EXCEPT ![j] = "dec"]
  /\ UNCHANGED <<env, bigTxJobs, readerVars, target, dataChannel, snd, got, toAck, fin, shutdown, stop>>

AckCount(j) ==
  /\ ack[j] = "dec"
  /\ bigTxCount' = [bigTxCount EXCEPT ![j] = @ - 1]
  /\ toAck' = [toAck EXCEPT ![j] = Tail(@)]
  /\ ack' = [ack EXCEPT ![j] = IF bigTxCount'[j] = 0 THEN "sub" ELSE "idle"]
  /\ UNCHANGED <<env, bigTxJobs, rd, closed, gset, target, dataChannel, snd, got, fin, shutdown, stop>>

\* Variant: SubBigTxJob is forgotten
AckNoSubBigTxJob(j) ==
  /\ ack[j] = "sub"
  /\ ack' = [ack EXCEPT ![j] = "idle"]
  /\ UNCHANGED <<env, bigTxJobs, readerVars, target, dataChannel, snd, got, toAck, fin, shutdown, stop>>
AckSubBigTxJob(j) ==
  /\ ack[j] = "sub"
  /\ bigTxJobs' = bigTxJobs - 1
  /\ ack' = [ack EXCEPT ![j] = "idle"]
  /\ UNCHANGED <<env, readerVars, target, dataChannel, snd, got, toAck, fin, shutdown, stop>>

Ack(j) == AckArrives(j) \/ AckCount(j) \/ AckSubBigTxJob(j)

-----------------------------------------------------------------------------
(* Finish1: the target GTID set is what the source MySQL has executed, at  *)
(* least what is read                                                      *)

SetTargetGtid(j) ==
  /\ j \in env.finish /\ fin[j] = "no"
  /\ \E k \in Txs(j) : /\ k >= rd[j].tx - 1 /\ Stream[j][k] # <<"skip">>
                       /\ target' = [target EXCEPT ![j] = 1 .. k]
  /\ fin' = [fin EXCEPT ![j] = "set"]
  /\ UNCHANGED <<env, bigTxJobs, readerVars, dataChannel, snd, got, toAck, ack, shutdown, stop>>

\* Variant: the reader is closed whatever it has read
MeetTargetAtOnce(j) ==
  /\ fin[j] = "set"
  /\ closed' = [closed EXCEPT ![j] = TRUE]
  /\ fin' = [fin EXCEPT ![j] = "done"]
  /\ UNCHANGED <<env, bigTxJobs, rd, bigTxCount, gset, target, dataChannel, snd, got, toAck, ack, shutdown, stop>>
MeetTarget(j) ==
  /\ fin[j] = "set"
  /\ closed' = [closed EXCEPT ![j] = @ \/ target[j] \subseteq gset[j]]
  /\ fin' = [fin EXCEPT ![j] = "done"]
  /\ UNCHANGED <<env, bigTxJobs, rd, bigTxCount, gset, target, dataChannel, snd, got, toAck, ack, shutdown, stop>>

-----------------------------------------------------------------------------
(* Shutdown: from outside (pause, stop, an error of the target), by the    *)
(* sender or by the reader.  It holds shutdownLock to its end, so a sender *)
(* that calls it second waits as one that calls it first does              *)

ShutdownBegin(j) ==
  /\ ~shutdown[j] /\ (j \in env.stop \/ snd[j].pc = "stopping" \/ rd[j].pc = "failed")
  /\ shutdown' = [shutdown EXCEPT ![j] = TRUE]
  /\ stop' = [stop EXCEPT ![j] = "count"]
  /\ UNCHANGED <<env, bigTxJobs, readerVars, target, dataChannel, snd, got, toAck, ack, fin>>

\* BigTxCount >= 1: SubBigTxJob
ShutdownCount(j) ==
  /\ stop[j] = "count"
  /\ bigTxJobs' = IF bigTxCount[j] >= 1 THEN bigTxJobs - 1 ELSE bigTxJobs
  /\ stop' = [stop EXCEPT ![j] = "close"]
  /\ UNCHANGED <<env, readerVars, target, dataChannel, snd, got, toAck, ack, fin, shutdown>>

\* natsConn.Close, binlogReader.Close
ShutdownClose(j) ==
  /\ stop[j] = "close"
  /\ closed' = [closed EXCEPT ![j] = TRUE]
  /\ stop' = [stop EXCEPT ![j] = "wait"]
  /\ UNCHANGED <<env, bigTxJobs, rd, bigTxCount, gset, target, dataChannel, snd, got, toAck, ack, fin, shutdown>>

\* wg.Wait
ShutdownWait(j) ==
  /\ stop[j] = "wait" /\ snd[j].pc = "end"
  /\ stop' = [stop EXCEPT ![j] = "done"]
  /\ UNCHANGED <<env, bigTxJobs, readerVars, target, dataChannel, snd, got, toAck, ack, fin, shutdown>>

Shutdown(j) == ShutdownCount(j) \/ ShutdownClose(j) \/ ShutdownWait(j)

-----------------------------------------------------------------------------
Next ==
  \E j \in Jobs :
    Reader(j) \/ Sender(j) \/ Ack(j) \/ SetTargetGtid(j) \/ MeetTarget(j) \/ ShutdownBegin(j) \/ Shutdown(j)

Spec == Init /\ [][Next]_vars

\* onError of the sender and of the reader
ShutdownOnError(j) == (snd[j].pc = "stopping" \/ rd[j].pc = "failed") /\ ShutdownBegin(j)

\* Goroutines run, the target answers requests and acknowledges what it
\* executed; nobody is obliged to stop a job
Progress(j) == Reader(j) \/ Sender(j) \/ Ack(j) \/ MeetTarget(j) \/ Shutdown(j) \/ ShutdownOnError(j)
FairSpec == Spec /\ \A j \in Jobs : WF_vars(Progress(j))

-----------------------------------------------------------------------------
(* Properties                                                              *)

Parts(entries) == Len(SelectSeq(entries, IsPartOfBigTx))
Started(j) == stop[j] # "no"

\* Every counter and place is of its kind; the number of unacknowledged parts
\* of a running job never is negative (the DTLE_BUG of the callback)
TypeOK ==
  /\ bigTxJobs \in Int
  /\ \A j \in Jobs :
       /\ rd[j].pc \in {"throttle", "event", "addjob", "send", "gset", "idle", "failed", "end"}
       /\ bigTxCount[j] \in Nat /\ Len(dataChannel[j]) <= ChanCap
       /\ snd[j].pc \in {"loop", "publish", "stopping", "end"} /\ ack[j] \in {"idle", "dec", "sub"}
       /\ gset[j] \subseteq Txs(j) /\ target[j] \subseteq Txs(j)

\* The entries arrive in the order of the binlog, whole transactions part by
\* part, none left out and none twice (sendEntry, StreamEvents, publish), also
\* while the job is shut down, throttled or finished
InOrder == INSTANCE EntryStream WITH Jobs <- Jobs, Expected <- Expected, got <- got
Arrive == InOrder!Spec

\* The reader's counter of a running job is the number of parts between the
\* reader and the target's acknowledgement, whatever the order of sendEntry
\* and of the callback
PartsCounted ==
  \A j \in Jobs : ~Started(j) /\ snd[j].pc # "stopping" =>
    bigTxCount[j] = Parts(rd[j].entry \o dataChannel[j] \o snd[j].entries \o toAck[j])

\* While no job is shut down, g.bigTxJobs is the number of jobs that have
\* unacknowledged parts, but for the job whose reader or callback is between
\* its own counter and the common one
JobsCounted ==
  (\A j \in Jobs : ~Started(j)) =>
    bigTxJobs = Quantify(Jobs, LAMBDA j : bigTxCount[j] > 0) + Quantify(Jobs, LAMBDA j : ack[j] = "sub")
                - Quantify(Jobs, LAMBDA j : rd[j].pc = "addjob")

\* A reader that never waited a second in DataStreamEvents' throttle, and so was
\* never forced to read on, has at most BigTxSrcQueue + 1 unacknowledged parts
Bounded == \A j \in Jobs : ~rd[j].forced => bigTxCount[j] <= BigTxSrcQueue + 1

\* The throttle works on exact counters: both count what is unacknowledged, and
\* they bound it (sendEntry, DataStreamEvents, the callback of bigtx_ack)
BigTxCounted == TypeOK /\ PartsCounted /\ JobsCounted /\ Bounded

\* A reader that stopped because it met the target GTID set has handed over
\* every entry of the target: none of them is dropped by sendEntry
TargetQueued ==
  \A j \in Jobs : closed[j] /\ ~Started(j) /\ snd[j].pc # "stopping" =>
    \A i \in 1 .. Len(Expected[j]) :
      Expected[j][i].tx \in target[j] => Expected[j][i] \in Range(got[j] \o snd[j].entries \o dataChannel[j])

\* A job that is neither shut down nor failed delivers its whole binlog: a
\* throttled reader goes on.  One that is told to finish stops reading once it
\* has the target GTID set: the comparison in SetTargetGtid and the one at the
\* end of a transaction leave no gap
Delivered ==
  []<>(\A j \in Jobs : Started(j) \/ (IF target[j] = {} THEN got[j] = Expected[j] ELSE closed[j]))

\* Shutdown ends, unless the sender goroutine that Shutdown waits for is the
\* one that called it
ShutdownEnds == []<>(\A j \in Jobs : Started(j) => stop[j] = "done" \/ snd[j].pc = "stopping")

\* "Throttle if this job has un-acked big tx, or there are too much global jobs
\* with big tx" (binlog_reader.go): the jobs that throttle others have one
ThrottleJustified ==
  \A j \in Jobs : Throttled(j) =>
    \/ bigTxCount[j] > BigTxSrcQueue
    \/ Quantify(Jobs, LAMBDA k : (bigTxCount[k] > 0 /\ stop[k] \in {"no", "count"}) \/ ack[k] = "sub") >= BigTxMaxJobs
=============================================================================
