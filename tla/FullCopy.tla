------------------------------ MODULE FullCopy ------------------------------
(***************************************************************************)
(* The start of a job from the source to the target: the handshake over    *)
(* the NATS address, the decision between a full copy and an incremental   *)
(* start, the consistent dump of the source, its transfer over NATS and    *)
(* its application, up to the point where the source starts to stream the  *)
(* binlog (driver/mysql/extractor.go and driver/mysql/applier.go).  Both   *)
(* tasks may end at any time and are then started again.                   *)
(*                                                                         *)
(* The source database is the number of transactions committed in its      *)
(* engine and the number that SHOW MASTER STATUS reports; transaction n    *)
(* changes every row, so a row read in a snapshot of s transactions has    *)
(* version s.  The target database is the version of every row.            *)
(***************************************************************************)
EXTENDS NatsHandshake, NatsMsgMerger, Dumper

CONSTANTS
  MsgLen,              \* length of a message of each kind
  DropTableIfExists,
  FullQueueCap,        \* capacity of fullBytesQueue: 16
  DumpQueueCap,        \* capacity of dumpEntryQueue: 8
  InitTx, MaxTx,       \* transactions of the source before the job; bound on all
  SrcCrashes, DstCrashes,  \* bounds: tasks that end for a reason outside this module
  LateRequests,        \* may a request reach a target started after the handshake of its sender?
  MaxFail              \* bound: failed requests and failed chunk queries of the dump

VARIABLES
  consul,    \* Gtid and BinlogFilePos of the job
  source,    \* the source database
  src,       \* the extractor
  dumper,    \* its dumper for the current table
  box,       \* messages in the subscriptions of the target, per subject
  dst,       \* the applier
  target,    \* the target database
  crashes, fails

handshakeVars == <<natsAddr, watch>>
budgets == <<crashes, fails>>
vars == <<natsAddr, watch, consul, source, src, dumper, box, dst, target, crashes, fails>>

Table == DOMAIN Rows
Absent == -1
NoPos == -1       \* BinlogFile is ""
\* A GTID set is the number of transactions in it; 0 is the empty string
Coordinates == [gtid : 0 .. MaxTx, pos : NoPos .. MaxTx]
NoCoordinates == [gtid |-> 0, pos |-> NoPos]
\* The transactions a stream that starts at c does not deliver
Skipped(c) == IF c.gtid # 0 THEN c.gtid ELSE c.pos

Message(kind, table) ==
  [kind |-> kind, table |-> table, first |-> 1, last |-> 0, snapshot |-> 0, coord |-> NoCoordinates]
SysVarEntry == Message("sysvar", 0)
SchemaEntry == Message("schema", 0)
TableEntry(t) == Message("table", t)
RowsEntry(r, s) ==
  [Message("rows", r.table) EXCEPT !.first = r.first, !.last = r.last, !.snapshot = s]
DumpStatResult(c) == [Message("full_complete", 0) EXCEPT !.coord = c]

\* common.Decode fails on anything but the bytes of one message
Decodable(bytes) ==
  /\ bytes # << >> /\ bytes[1].of # NoMsg
  /\ bytes = Bytes(bytes[1].of, MsgLen[bytes[1].of.kind])
Decode(bytes) == bytes[1].of

NoPublish == [data |-> << >>, len |-> 0, nSeg |-> 0, iSeg |-> 0, bak |-> << >>]

SrcOff ==
  [pc |-> "down", hasPutWait |-> FALSE, natsConn |-> FALSE, control |-> FALSE,
   dstEnded |-> FALSE,     \* the target of the handshake has ended
   fullCopy |-> FALSE, coord |-> NoCoordinates, gtid1 |-> 0, snapshot |-> 0,
   todo |-> << >>, pub |-> NoPublish, waiting |-> FALSE]

DstOff ==
  [pc |-> "down", nmm |-> NewNatsMsgMerger, nDumpEntry |-> 0,
   fullBytesQueue |-> << >>, dumpEntryQueue |-> << >>, full |-> "idle", fullComplete |-> "idle",
   ai |-> FALSE, rowCopyComplete |-> FALSE, gtidSet |-> 0, ctx |-> NoCoordinates,
   gtidCh |-> 0, needUpload |-> FALSE, saving |-> FALSE,
   got |-> FALSE,     \* history: a message was handled
   stale |-> FALSE]   \* history: a source whose message was handled has ended

Init ==
  /\ HandshakeInit
  /\ consul = NoCoordinates
  /\ \E n \in InitTx : source = [engine |-> n, gtid |-> n]
  /\ src = SrcOff /\ dumper = NoDumper /\ dst = DstOff
  /\ box = [full |-> << >>, full_complete |-> << >>]
  /\ target = [t \in Table |-> [r \in 1 .. Rows[t] |-> Absent]]
  /\ crashes = [t \in Task |-> 0] /\ fails = 0

-----------------------------------------------------------------------------
(* The source database (external).  A commit is visible to new snapshots   *)
(* before its GTID is in the executed set.                                 *)

SourceCommit ==
  /\ source.engine < MaxTx
  /\ source' = [source EXCEPT !.engine = @ + 1]
  /\ UNCHANGED <<handshakeVars, consul, src, dumper, box, dst, target, budgets>>

SourceGtid ==
  /\ source.gtid < source.engine
  /\ source' = [source EXCEPT !.gtid = @ + 1]
  /\ UNCHANGED <<handshakeVars, consul, src, dumper, box, dst, target, budgets>>

-----------------------------------------------------------------------------
(* End and start of the tasks                                              *)

\* Extractor.Shutdown; d: the target as the step leaves it
SrcEnds(d) ==
  /\ src' = SrcOff /\ dumper' = NoDumper
  /\ watch' = [watch EXCEPT !["src"] = WatchOff]
  /\ box' = [s \in DOMAIN box |-> [i \in DOMAIN box[s] |-> [box[s][i] EXCEPT !.live = FALSE]]]
  /\ dst' = [d EXCEPT !.stale = d.got]
  /\ UNCHANGED <<natsAddr, consul, source, target>>

\* Applier.Shutdown, which closes the connection to NATS first
DstEnds ==
  /\ dst' = DstOff
  /\ watch' = [watch EXCEPT !["dst"] = WatchOff]
  /\ box' = [s \in DOMAIN box |-> << >>]
  /\ UNCHANGED <<natsAddr, source, dumper>>

\* Applier.onError: the source is told over control2 before the shutdown
DstOnError ==
  /\ DstEnds
  /\ src' = [src EXCEPT !.control = src.natsConn, !.dstEnded = TRUE]

SrcCrash ==
  /\ src.pc # "down" /\ crashes["src"] < SrcCrashes
  /\ crashes' = [crashes EXCEPT !["src"] = @ + 1]
  /\ SrcEnds(dst)
  /\ UNCHANGED fails

DstCrash ==
  /\ dst.pc # "down" /\ crashes["dst"] < DstCrashes
  /\ crashes' = [crashes EXCEPT !["dst"] = @ + 1]
  /\ DstEnds
  /\ src' = [src EXCEPT !.dstEnded = TRUE]
  /\ UNCHANGED <<consul, target, fails>>

\* Run up to SrcWatchNats
SrcStart ==
  /\ src.pc = "down"
  /\ src' = [src EXCEPT !.pc = "watch"]
  /\ watch' = [watch EXCEPT !["src"] = WatchStarted]
  /\ UNCHANGED <<natsAddr, consul, source, dumper, box, dst, target, budgets>>

\* Run: initNatSubClient and subscribeNats
DstStart ==
  /\ dst.pc = "down"
  /\ dst' = [dst EXCEPT !.pc = "subscribed"]
  /\ UNCHANGED <<handshakeVars, consul, source, src, dumper, box, target, budgets>>

-----------------------------------------------------------------------------
(* The handshake                                                           *)

WatchFetch(t) ==
  /\ Fetch(t)
  /\ UNCHANGED <<consul, source, src, dumper, box, dst, target, budgets>>

SrcWatchNats ==
  /\ src.pc = "watch" /\ Offered("src")
  /\ LET value == watch["src"].slot
     IN  src' = [src EXCEPT
           !.pc = SrcNextPc(value, src.hasPutWait),
           !.hasPutWait = @ \/ value = "wait",
           !.dstEnded = dst.pc \notin {"prepare", "run"}]
  /\ watch' = Taken("src")
  /\ UNCHANGED <<natsAddr, consul, source, dumper, box, dst, target, budgets>>

SrcPutWait ==
  /\ src.pc = "put"
  /\ Put("wait", watch)
  /\ src' = [src EXCEPT !.pc = "watch"]
  /\ UNCHANGED <<consul, source, dumper, box, dst, target, budgets>>

\* After the handshake every change of the key restarts the source
SrcWatchError ==
  /\ src.pc \notin {"down", "watch", "put"}
  /\ Offered("src") \/ src.control
  /\ SrcEnds(dst)
  /\ UNCHANGED budgets

DstPutWaitdst ==
  /\ dst.pc = "subscribed"
  /\ Put("waitdst", [watch EXCEPT !["dst"] = WatchStarted])
  /\ dst' = [dst EXCEPT !.pc = "watch"]
  /\ UNCHANGED <<consul, source, src, dumper, box, target, budgets>>

DstPutNats ==
  /\ dst.pc = "watch" /\ Offered("dst")
  /\ LET value == watch["dst"].slot
     IN  \/ /\ DstAnswers(value) \/ DstKeepsWatching(value)
            /\ dst' = [dst EXCEPT !.pc = IF DstAnswers(value) THEN "put" ELSE @]
            /\ watch' = Taken("dst")
            /\ UNCHANGED <<natsAddr, source, src, dumper, box>>
         \/ /\ ~DstAnswers(value) /\ ~DstKeepsWatching(value)
            /\ DstOnError
  /\ UNCHANGED <<consul, target, budgets>>

DstPutAddr ==
  /\ dst.pc = "put"
  /\ Put("addr", watch)
  /\ dst' = [dst EXCEPT !.pc = "prepare"]
  /\ UNCHANGED <<consul, source, src, dumper, box, target, budgets>>

DstWatchError ==
  /\ dst.pc \in {"prepare", "run"} /\ Offered("dst")
  /\ IF DstMustRestart(watch["dst"].slot)
       THEN DstOnError
       ELSE watch' = Taken("dst") /\ UNCHANGED <<natsAddr, source, src, dumper, box, dst>>
  /\ UNCHANGED <<consul, target, budgets>>

-----------------------------------------------------------------------------
(* The extractor after the handshake                                       *)

\* The last publish has returned
Idle == ~src.waiting /\ Published(src.pub)

Subject == IF src.pc = "full_complete" THEN "full_complete" ELSE "full"

\* One Request of publish; it is lost if nobody has subscribed
Request(s, pub) ==
  LET cut == CutSegment(pub)
      heard == dst.pc # "down" /\ (LateRequests \/ ~src.dstEnded)
  IN  /\ src' = [s EXCEPT !.pub = [cut EXCEPT !.iSeg = @ + 1], !.waiting = TRUE]
      /\ box' = IF heard
                 THEN [box EXCEPT ![Subject] = Append(@, [part |-> Segment(cut), live |-> TRUE])]
                 ELSE box

Publish(s, msg) == Request(s, StartPublish(Bytes(msg, MsgLen[msg.kind])))

NextSegment ==
  /\ ~src.waiting /\ ~Published(src.pub)
  /\ Request(src, src.pub)
  /\ UNCHANGED <<handshakeVars, consul, source, dumper, dst, target, budgets>>

\* Run: GetGtidFromConsul, initNatsPubClient, the choice of fullCopy, and
\* SaveGtidForJob for an incremental start
SrcPrepare ==
  /\ src.pc = "prepare"
  /\ LET full == consul = NoCoordinates
     IN  src' = [src EXCEPT !.pc = "sysvar", !.natsConn = TRUE, !.fullCopy = full,
                           !.coord = consul, !.todo = <<SysVarEntry>>]
  /\ UNCHANGED <<handshakeVars, consul, source, dumper, box, dst, target, budgets>>

SrcSend ==
  /\ src.todo # << >> /\ Idle
  /\ Publish([src EXCEPT !.todo = Tail(@)], Head(src.todo))
  /\ UNCHANGED <<handshakeVars, consul, source, dumper, dst, target, budgets>>

AllSent == src.todo = << >> /\ Idle

FullComplete(s) == [s EXCEPT !.pc = "full_complete", !.todo = <<DumpStatResult(s.coord)>>, !.pub = NoPublish]

SysVarSent ==
  /\ src.pc = "sysvar" /\ AllSent
  /\ src' = IF src.fullCopy THEN [src EXCEPT !.pc = "gtid1"] ELSE FullComplete(src)
  /\ UNCHANGED <<handshakeVars, consul, source, dumper, box, dst, target, budgets>>

\* mysqlDump: SHOW MASTER STATUS, the snapshot, SHOW MASTER STATUS
DumpGtid1 ==
  /\ src.pc = "gtid1"
  /\ src' = [src EXCEPT !.pc = "snapshot", !.gtid1 = source.gtid]
  /\ UNCHANGED <<handshakeVars, consul, source, dumper, box, dst, target, budgets>>

DumpSnapshot ==
  /\ src.pc = "snapshot"
  /\ src' = [src EXCEPT !.pc = "gtid2", !.snapshot = source.engine]
  /\ UNCHANGED <<handshakeVars, consul, source, dumper, box, dst, target, budgets>>

\* Variant: the GTID set after the snapshot is used whatever it was before
GtidMatchAlways(gs1, gs2) == TRUE
GtidMatch(gs1, gs2) == gs1 = gs2

DumpGtid2 ==
  /\ src.pc = "gtid2"
  /\ src' = IF GtidMatch(src.gtid1, source.gtid)
            THEN [src EXCEPT !.pc = "ddl",
                    !.coord = [gtid |-> source.gtid, pos |-> source.gtid],
                    !.todo = <<SchemaEntry>> \o [t \in Table |-> TableEntry(t)]]
            ELSE [src EXCEPT !.pc = "gtid1"]
  /\ UNCHANGED <<handshakeVars, consul, source, dumper, box, dst, target, budgets>>

DdlSent ==
  /\ src.pc = "ddl" /\ AllSent
  /\ src' = [src EXCEPT !.pc = "rows"]
  /\ dumper' = NewDumper(1)
  /\ UNCHANGED <<handshakeVars, consul, source, box, dst, target, budgets>>

SendRows ==
  /\ src.pc = "rows" /\ Idle /\ dumper.results # << >>
  /\ Publish(src, RowsEntry(Head(dumper.results), src.snapshot))
  /\ dumper' = [dumper EXCEPT !.results = Tail(@)]
  /\ UNCHANGED <<handshakeVars, consul, source, dst, target, budgets>>

\* The end of a table.  An error of the dumper ends the dump with
\* errors.Wrap(err) of an err that is nil: it is not seen by Run.
TableDumped ==
  /\ src.pc = "rows" /\ Idle
  /\ dumper.closed /\ dumper.unsent = << >> /\ dumper.results = << >>
  /\ IF dumper.err \/ dumper.table = Len(Rows)
       THEN src' = FullComplete(src) /\ dumper' = NoDumper
       ELSE src' = src /\ dumper' = NewDumper(dumper.table + 1)
  /\ UNCHANGED <<handshakeVars, consul, source, box, dst, target, budgets>>

\* A Request inside mysqlDump fails: the deferred Commit replaces the error
DumpRequestFails ==
  /\ src.pc \in {"ddl", "rows"} /\ ~src.waiting /\ fails < MaxFail
  /\ \/ ~Published(src.pub) \/ src.todo # << >> \/ dumper.results # << >>
  /\ src' = FullComplete(src) /\ dumper' = NoDumper
  /\ fails' = fails + 1
  /\ UNCHANGED <<handshakeVars, consul, source, box, dst, target, crashes>>

DumperChunk ==
  /\ ~dumper.closed /\ dumper.unsent = << >>
  /\ \/ dumper' = GetChunkData(dumper) /\ fails' = fails
     \/ fails < MaxFail /\ dumper' = ChunkFails(dumper) /\ fails' = fails + 1
  /\ UNCHANGED <<handshakeVars, consul, source, src, box, dst, target, crashes>>

DumperSend ==
  /\ dumper.unsent # << >> /\ Len(dumper.results) < ResultsCap
  /\ dumper' = HandleEntry(dumper)
  /\ UNCHANGED <<handshakeVars, consul, source, src, box, dst, target, budgets>>

\* sendFullComplete has returned: initBinlogReader and initiateStreaming
StartStreaming ==
  /\ src.pc = "full_complete" /\ AllSent
  /\ src' = [src EXCEPT !.pc = "stream"]
  /\ UNCHANGED <<handshakeVars, consul, source, dumper, box, dst, target, budgets>>

-----------------------------------------------------------------------------
(* The applier: the handlers of _full and _full_complete run in two        *)
(* goroutines from subscribeNats on; doFullCopy, its worker and            *)
(* updateGtidLoop start once the address was put and ApplierIncr exists.   *)

\* The reply to the message a handler has finished with
Reply(subject) ==
  /\ src' = IF Head(box[subject]).live THEN [src EXCEPT !.waiting = FALSE] ELSE src
  /\ box' = [box EXCEPT ![subject] = Tail(@)]

DstPrepare ==
  /\ dst.pc = "prepare"
  /\ dst' = [dst EXCEPT !.pc = "run", !.ai = TRUE, !.ctx = consul, !.gtidSet = consul.gtid,
                        !.needUpload = TRUE]
  /\ UNCHANGED <<handshakeVars, consul, source, src, dumper, box, target, budgets>>

\* nDumpEntry is increased before the message is enqueued.
CountEntry(d) == [d EXCEPT !.nDumpEntry = @ + 1]

\* The handler of _full up to the enqueuing of a complete message
FullMsg ==
  /\ dst.full = "idle" /\ box.full # << >>
  /\ LET data == Head(box.full).part
     IN  IF dst.rowCopyComplete
         THEN Reply("full") /\ UNCHANGED <<natsAddr, watch, source, dumper, dst>>
         ELSE IF HandleErr(dst.nmm, data) THEN DstOnError
         ELSE IF ~SegmentFinished(dst.nmm, data)
         THEN /\ Reply("full")
              /\ dst' = [dst EXCEPT !.nmm = Handle(@, data), !.got = TRUE]
              /\ UNCHANGED <<natsAddr, watch, source, dumper>>
         ELSE /\ dst' = CountEntry([dst EXCEPT !.nmm = Handle(@, data), !.got = TRUE,
                                               !.full = "enqueue"])
              /\ UNCHANGED <<natsAddr, watch, source, src, dumper, box>>
  /\ UNCHANGED <<consul, target, budgets>>

FullEnqueue ==
  /\ dst.full = "enqueue" /\ Len(dst.fullBytesQueue) < FullQueueCap
  /\ dst' = [dst EXCEPT !.full = "idle", !.nmm = NewNatsMsgMerger,
                        !.fullBytesQueue = Append(@, dst.nmm.buf)]
  /\ Reply("full")
  /\ UNCHANGED <<handshakeVars, consul, source, dumper, target, budgets>>

\* doFullCopy
DecodeEntry ==
  /\ dst.pc = "run" /\ dst.fullBytesQueue # << >> /\ Len(dst.dumpEntryQueue) < DumpQueueCap
  /\ LET bytes == Head(dst.fullBytesQueue)
     IN  IF Decodable(bytes)
         THEN /\ dst' = [dst EXCEPT !.fullBytesQueue = Tail(@),
                                    !.dumpEntryQueue = Append(@, Decode(bytes))]
              /\ UNCHANGED <<natsAddr, watch, source, src, dumper, box>>
         ELSE DstOnError
  /\ UNCHANGED <<consul, target, budgets>>

\* ApplyEventQueries, in one transaction
Applied(entry) ==
  [t \in Table |-> [r \in 1 .. Rows[t] |->
     IF entry.table # t THEN target[t][r]
     ELSE IF entry.kind = "table" /\ DropTableIfExists THEN Absent
     ELSE IF entry.kind = "rows" /\ r \in entry.first .. entry.last THEN entry.snapshot
     ELSE target[t][r]]]

ApplyEntry ==
  /\ dst.pc = "run" /\ dst.dumpEntryQueue # << >>
  /\ target' = Applied(Head(dst.dumpEntryQueue))
  /\ IF dst.nDumpEntry <= 0
       THEN DstOnError
       ELSE /\ dst' = [dst EXCEPT !.dumpEntryQueue = Tail(@), !.nDumpEntry = @ - 1]
            /\ UNCHANGED <<natsAddr, watch, source, src, dumper, box>>
  /\ UNCHANGED <<consul, budgets>>

\* The handler of _full_complete up to its wait for nDumpEntry
FullCompleteMsg ==
  /\ dst.fullComplete = "idle" /\ box.full_complete # << >>
  /\ IF dst.rowCopyComplete
       THEN Reply("full_complete") /\ dst' = dst
       ELSE dst' = [dst EXCEPT !.fullComplete = "wait", !.got = TRUE] /\ UNCHANGED <<src, box>>
  /\ UNCHANGED <<handshakeVars, consul, source, dumper, target, budgets>>

\* Variant: the entry that is being applied is not waited for
NearlyNoDumpEntry == dst.nDumpEntry <= 1
NoDumpEntry == dst.nDumpEntry = 0

\* Without an ApplierIncr the handler dereferences nil: the process dies
RowsCopied ==
  /\ dst.fullComplete = "wait" /\ NoDumpEntry
  /\ LET coord == Decode(Head(box.full_complete).part).coord
     IN  IF dst.ai
         THEN /\ dst' = [dst EXCEPT !.fullComplete = "close", !.gtidSet = Max({@, coord.gtid}),
                                    !.ctx = coord, !.gtidCh = @ + 1]
              /\ UNCHANGED <<natsAddr, watch, source, src, dumper, box>>
         ELSE DstEnds /\ src' = [src EXCEPT !.dstEnded = TRUE]
  /\ UNCHANGED <<consul, target, budgets>>

RowCopyComplete ==
  /\ dst.fullComplete = "close"
  /\ dst' = [dst EXCEPT !.fullComplete = "idle", !.rowCopyComplete = TRUE]
  /\ Reply("full_complete")
  /\ UNCHANGED <<handshakeVars, consul, source, dumper, target, budgets>>

\* updateGtidLoop: the nil coordinate, or the 15 second ticker
UploadGtid ==
  /\ dst.pc = "run" /\ ~dst.saving
  /\ \/ /\ dst.gtidCh > 0
        /\ dst' = [dst EXCEPT !.gtidCh = @ - 1, !.ctx.gtid = dst.gtidSet,
                              !.needUpload = FALSE, !.saving = TRUE]
     \/ /\ dst.needUpload
        /\ dst' = [dst EXCEPT !.needUpload = FALSE, !.saving = TRUE]
  /\ consul' = [consul EXCEPT !.gtid = dst'.ctx.gtid]
  /\ UNCHANGED <<handshakeVars, source, src, dumper, box, target, budgets>>

UploadPos ==
  /\ dst.saving
  /\ dst' = [dst EXCEPT !.saving = FALSE]
  /\ consul' = [consul EXCEPT !.pos = dst.ctx.pos]
  /\ UNCHANGED <<handshakeVars, source, src, dumper, box, target, budgets>>

-----------------------------------------------------------------------------
SrcSteps ==
  \/ SrcWatchNats \/ SrcPutWait \/ SrcPrepare \/ SrcSend \/ NextSegment \/ SysVarSent
  \/ DumpGtid1 \/ DumpSnapshot \/ DumpGtid2 \/ DdlSent \/ SendRows \/ TableDumped
  \/ StartStreaming
DumperSteps == DumperChunk \/ DumperSend
DstSteps == DstPutWaitdst \/ DstPutNats \/ DstPutAddr \/ DstPrepare
FullSteps == FullMsg \/ FullEnqueue
FullCompleteSteps == FullCompleteMsg \/ RowsCopied \/ RowCopyComplete
GtidLoop == UploadGtid \/ UploadPos

Next ==
  \/ SourceCommit \/ SourceGtid
  \/ SrcCrash \/ DstCrash \/ SrcStart \/ DstStart
  \/ \E t \in Task : WatchFetch(t)
  \/ SrcSteps \/ SrcWatchError \/ DumpRequestFails \/ DumperSteps
  \/ DstSteps \/ DstWatchError \/ FullSteps \/ DecodeEntry \/ ApplyEntry
  \/ FullCompleteSteps \/ GtidLoop

Spec == Init /\ [][Next]_vars

\* Every goroutine goes on; Nomad restarts tasks.  A blocking query that is
\* answered again and again does not miss the same short-lived value for ever.
Fairness ==
  /\ WF_vars(SourceGtid)
  /\ WF_vars(SrcStart) /\ WF_vars(DstStart)
  /\ WF_vars(SrcSteps) /\ WF_vars(SrcWatchError) /\ WF_vars(DumperSteps)
  /\ WF_vars(DstSteps) /\ WF_vars(DstWatchError)
  /\ WF_vars(FullSteps) /\ WF_vars(DecodeEntry) /\ WF_vars(ApplyEntry)
  /\ WF_vars(FullCompleteSteps) /\ WF_vars(GtidLoop)
  /\ \A t \in Task : WF_vars(WatchFetch(t)) /\ SF_vars(WatchFetch(t) /\ natsAddr = "wait")

FairSpec == Spec /\ Fairness

-----------------------------------------------------------------------------
\* The state of both tasks, of the key and of the databases is well formed;
\* nDumpEntry never exceeds what the two queues and the handler can hold.
TypeOK ==
  /\ natsAddr \in NatsAddr
  /\ \A t \in Task : watch[t].slot \in NatsAddr
  /\ consul \in Coordinates
  /\ source.engine \in 0 .. MaxTx /\ source.gtid \in 0 .. source.engine
  /\ src.pc \in {"down", "watch", "put", "prepare", "sysvar", "gtid1", "snapshot", "gtid2",
                  "ddl", "rows", "full_complete", "stream"}
  /\ src.coord \in Coordinates
  /\ dst.pc \in {"down", "subscribed", "watch", "put", "prepare", "run"}
  /\ dst.nDumpEntry \in 0 .. FullQueueCap + DumpQueueCap + 1
  /\ \A t \in Table : \A r \in 1 .. Rows[t] : target[t][r] \in Absent .. MaxTx

\* Every row is on the target, with the changes of the first n transactions
Copied(n) == \A t \in Table : \A r \in 1 .. Rows[t] : target[t][r] # Absent /\ target[t][r] >= n

\* Coordinates in Consul make every later start of the job incremental: the
\* target then holds every row, with the changes of every transaction that
\* the stream will not deliver.
ConsulCovered == consul # NoCoordinates => Copied(Skipped(consul))

\* When the source starts to stream, nothing is missing between the copy and
\* the stream (initialBinlogCoordinates), whatever was restarted before.
StreamCovered == src.pc = "stream" => Copied(Skipped(src.coord))

\* A request reaches a target that has handled no message of a source that has
\* ended: "Put wait to trigger dst restart" (SrcWatchNats).
OneRound == (\E s \in DOMAIN box : \E i \in DOMAIN box[s] : box[s][i].live) => ~dst.stale

\* What is queued for decoding is a whole message: segments are put together
\* in order and segments of two messages never mix, also after restarts.
Merged == \A i \in DOMAIN dst.fullBytesQueue : Decodable(dst.fullBytesQueue[i])

\* nDumpEntry counts the entries that are not yet applied: _full_complete does
\* not pass one, and the worker never meets "DTLE_BUG a.nDumpEntry <= 0".
Accounted ==
  dst.nDumpEntry = Len(dst.fullBytesQueue) + Len(dst.dumpEntryQueue)
                   + (IF dst.full = "enqueue" THEN 1 ELSE 0)

\* The queues of the target hold whole messages and are counted exactly, through
\* restarts of both tasks (NatsMsgMerger.Handle, doFullCopy)
QueuesExact == TypeOK /\ Merged /\ Accounted

\* The handshake ends, the copy is completed, the source streams and the
\* coordinates are in Consul, whatever restarts and races happened before.
CopyCompletes == <>[](src.pc = "stream" /\ dst.rowCopyComplete /\ consul = src.coord)
=============================================================================
