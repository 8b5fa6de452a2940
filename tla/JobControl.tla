----------------------------- MODULE JobControl -----------------------------
(***************************************************************************)
(* The life of a job and of the reverse job that waits for it: the         *)
(* handlers of the HTTP API (create, update, pause, resume, delete,        *)
(* reverse, reverse_start), the status of a job in Consul, the driver      *)
(* plugin with the handle and the runner of each task, and what Extractor  *)
(* and Applier read and write of the status.                               *)
(*                                                                         *)
(* A handler is a sequence of calls to Nomad, Consul and the tasks, and    *)
(* everything else goes on between them.  A runner is reduced to its pc;   *)
(* one that was shut down may still be in WaitOnJob, which does not look   *)
(* at the channel that would stop it.                                      *)
(* Nomad (allocations, restarts, delivery of signals) is external.         *)
(***************************************************************************)
EXTENDS Naturals, Sequences, SequencesExt, FiniteSets

CONSTANTS
  Fwd, Rev,      \* a job and its reverse job
  Operators,     \* users of the API; each makes one request at a time
  Kinds,         \* the requests that are made
  Paused,        \* jobs that are paused and resumed
  Scenarios,     \* [fail, mem]: runners and signals may fail, memory may be low
  MaxRequests,
  MaxFails

VARIABLES
  env,     \* scenario
  info,    \* job -> JobStatus under dtleJobList/, "none": no such key
  target,  \* targetGtid of Fwd is in Consul
  sent,    \* entries up to the target were sent to the applier that runs
  met,     \* the applier has executed all of them
  task,    \* <<job, kind>> -> [nomad, h, cur, rs], see below
  upd,     \* RegularlyUpdateJobStatus: the status to be written, "none": none
  low,     \* g.GetLowMemoryStatus
  req,     \* operator -> [kind, job, pc, allocs, ok]; ok: it did what it is for
  reqs, fails

vars == <<env, info, target, sent, met, task, upd, low, req, reqs, fails>>

Jobs == {Fwd, Rev}
SrcOf(j) == <<j, "Src">>
DstOf(j) == <<j, "Dest">>

\* The target of the reverse job does what the source lets it do: left out
Tasks == {SrcOf(Fwd), DstOf(Fwd), SrcOf(Rev)}
Of(j) == {t \in Tasks : t[1] = j}

\* nomad: of the allocation; h: of the handle; rs: the runners that are not
\* ended, of which the last is h.runner if cur (else h.runner is nil)
NoTask == [nomad |-> "none", h |-> "none", cur |-> FALSE, rs |-> << >>]
NoRequest == [kind |-> "none", job |-> Fwd, pc |-> "idle", allocs |-> {}, ok |-> FALSE]

Init ==
  /\ env \in Scenarios
  /\ info = [j \in Jobs |-> "none"] /\ target = FALSE /\ sent = FALSE /\ met = FALSE
  /\ task = [t \in Tasks |-> NoTask]
  /\ upd = "none" /\ low = FALSE
  /\ req = [o \in Operators |-> NoRequest]
  /\ reqs = 0 /\ fails = 0

-----------------------------------------------------------------------------
(* Runners and handles                                                     *)

Live(r) == r.pc = "stream"
HasRunner(t) == task[t].cur
Runner(t) == Last(task[t].rs)

\* Shutdown of Extractor and Applier: Run goes on to WaitOnJob and in it
ShutdownRunner(t, r) == [pc |-> IF t = SrcOf(Rev) /\ r.pc # "stream" THEN r.pc ELSE "done", shut |-> TRUE]

\* NewRunner, go h.runner.Run(): the runner that h.runner was is not looked at
NewRunner(x) ==
  [x EXCEPT !.cur = TRUE,
            !.rs = Append(SelectSeq(@, LAMBDA r : r.pc # "done"), [pc |-> "start", shut |-> FALSE])]

\* Variant: a task with a runner, be it one that was shut down, gets no other
ResumeTaskOnce(x) == IF x.cur THEN x ELSE NewRunner(x)
ResumeTask(x) == NewRunner(x)

ShutdownCur(t) ==
  IF HasRunner(t) THEN [task[t] EXCEPT !.rs = Front(@) \o <<ShutdownRunner(t, Last(@))>>] ELSE task[t]

\* Destroy, and the task store forgets the handle.
DestroyTask(t, nomad) ==
  [nomad |-> nomad, h |-> "none", cur |-> FALSE,
   rs |-> SelectSeq(ShutdownCur(t).rs, LAMBDA r : r.pc # "done")]

StartTask(t) ==
  /\ task[t].nomad = "pending"
  /\ task' = [task EXCEPT ![t].nomad = "up", ![t].h = "run"]
  /\ UNCHANGED <<env, info, target, sent, met, upd, low, req, reqs, fails>>

\* taskHandle.run: the status is read before the runner is there
RunRead(t) ==
  /\ task[t].h = "run"
  /\ task' = [task EXCEPT ![t].h = IF info[t[1]] = "paused" THEN "ok" ELSE "read"]
  /\ UNCHANGED <<env, info, target, sent, met, upd, low, req, reqs, fails>>

RunResume(t) ==
  /\ task[t].h = "read"
  /\ task' = [task EXCEPT ![t] = [ResumeTask(@) EXCEPT !.h = "ok"]]
  /\ UNCHANGED <<env, info, target, sent, met, upd, low, req, reqs, fails>>

\* Entries that an applier has not executed are lost with it
Lost(t) == sent /\ t # DstOf(Fwd)

\* onError of a runner: ExitResult, and the runner shuts itself down
RunnerFails(t, i) ==
  /\ env.fail /\ fails < MaxFails /\ i \in DOMAIN task[t].rs /\ Live(task[t].rs[i])
  /\ task' = [task EXCEPT ![t].rs[i] = ShutdownRunner(t, @), ![t].h = IF @ = "none" THEN @ ELSE "exited"]
  /\ fails' = fails + 1 /\ sent' = Lost(t)
  /\ UNCHANGED <<env, info, target, met, upd, low, req, reqs>>

\* handleWait, and Nomad starts the task again
RestartTask(t) ==
  /\ task[t].h = "exited" /\ task[t].nomad = "up"
  /\ task' = [task EXCEPT ![t] = DestroyTask(t, "pending")]
  /\ UNCHANGED <<env, info, target, sent, met, upd, low, req, reqs, fails>>

\* Nomad stops the task of a job that is deleted
StopTask(t) ==
  /\ task[t].nomad = "stop"
  /\ task' = [task EXCEPT ![t] = DestroyTask(t, "none")]
  /\ sent' = Lost(t)
  /\ UNCHANGED <<env, info, target, met, upd, low, req, reqs, fails>>

-----------------------------------------------------------------------------
(* Extractor.Run and WaitOnJob                                             *)

SetPc(t, i, pc) == task' = [task EXCEPT ![t].rs[i].pc = IF task[t].rs[i].shut /\ pc = "stream" THEN "done" ELSE pc]

\* Variant: a reverse job without a status does not wait
WaitsFirstIfInit(j) == j = Rev /\ info[j] = "reverse-init"
WaitsFirst(j) == j = Rev /\ info[j] \in {"none", "reverse-init"}

ExtractorRun(j, i) ==
  /\ i \in DOMAIN task[SrcOf(j)].rs /\ task[SrcOf(j)].rs[i].pc = "start"
  /\ IF WaitsFirst(j)
     THEN SetPc(SrcOf(j), i, "wait") /\ info' = [info EXCEPT ![j] = "reverse-init"]
     ELSE SetPc(SrcOf(j), i, IF info[j] = "finished" THEN "done" ELSE "stream") /\ UNCHANGED info
  /\ UNCHANGED <<env, target, sent, met, upd, low, req, reqs, fails>>

WaitOnJobSees(i) ==
  /\ i \in DOMAIN task[SrcOf(Rev)].rs /\ task[SrcOf(Rev)].rs[i].pc = "wait"
  /\ info[Fwd] = "finished"
  /\ SetPc(SrcOf(Rev), i, "waited")
  /\ UNCHANGED <<env, info, target, sent, met, upd, low, req, reqs, fails>>

WaitOnJobSaves(i) ==
  /\ i \in DOMAIN task[SrcOf(Rev)].rs /\ task[SrcOf(Rev)].rs[i].pc = "waited"
  /\ info' = [info EXCEPT ![Rev] = "non-paused"]
  /\ SetPc(SrcOf(Rev), i, "stream")
  /\ UNCHANGED <<env, target, sent, met, upd, low, req, reqs, fails>>

\* The reader is at the target, all is sent to the applier: onMeetTarget shuts
\* the extractor down
SourceMeetsTarget(i) ==
  /\ i \in DOMAIN task[SrcOf(Fwd)].rs /\ Live(task[SrcOf(Fwd)].rs[i]) /\ target
  /\ \E r \in Range(task[DstOf(Fwd)].rs) : Live(r)
  /\ SetPc(SrcOf(Fwd), i, "done") /\ sent' = TRUE
  /\ UNCHANGED <<env, info, target, met, upd, low, req, reqs, fails>>

\* RegularlyUpdateJobStatus of the source of Fwd: reads, then writes
UpdateRead ==
  /\ upd = "none"
  /\ \E r \in Range(task[SrcOf(Fwd)].rs) : Live(r)
  /\ \/ info[Fwd] = "non-paused" /\ low /\ upd' = "stop"
     \/ info[Fwd] = "stop" /\ ~low /\ upd' = "non-paused"
  /\ UNCHANGED <<env, met, info, target, sent, task, low, req, reqs, fails>>

UpdateSave ==
  /\ upd # "none"
  /\ info' = [info EXCEPT ![Fwd] = upd] /\ upd' = "none"
  /\ UNCHANGED <<env, met, target, sent, task, low, req, reqs, fails>>

MemoryMonitor ==
  /\ env.mem
  /\ low' = ~low
  /\ UNCHANGED <<env, info, target, sent, met, task, upd, req, reqs, fails>>

-----------------------------------------------------------------------------
(* Applier.Run, checkJobFinish, testTargetGtid                             *)

ApplierRun(j, i) ==
  /\ i \in DOMAIN task[DstOf(j)].rs /\ task[DstOf(j)].rs[i].pc = "start"
  /\ SetPc(DstOf(j), i, IF info[j] = "finished" THEN "done" ELSE "stream")
  /\ UNCHANGED <<env, info, target, sent, met, upd, low, req, reqs, fails>>

\* Variant: the status that was read is written
FinishedStatusRead == info[Fwd]
FinishedStatus == "finished"

\* A job that was deleted has no JobId: its item goes to another key
TestTargetGtid(i) ==
  /\ i \in DOMAIN task[DstOf(Fwd)].rs /\ Live(task[DstOf(Fwd)].rs[i]) /\ target /\ sent
  /\ info' = [info EXCEPT ![Fwd] = IF @ = "none" THEN @ ELSE FinishedStatus]
  /\ SetPc(DstOf(Fwd), i, "done") /\ met' = TRUE
  /\ UNCHANGED <<env, target, sent, upd, low, req, reqs, fails>>

-----------------------------------------------------------------------------
(* Signals of Nomad: Driver.SignalTask                                     *)

CanPause(t) == HasRunner(t)

CanSignal(t, sig) ==
  /\ task[t].nomad = "up"
  /\ sig = "pause" => CanPause(t)
  /\ sig = "finish" => HasRunner(t) /\ Live(Runner(t))

SignalTask(t, sig) ==
  /\ task' = [task EXCEPT ![t] = CASE sig = "pause" -> ShutdownCur(t)
                                   [] sig = "resume" -> ResumeTask(@)
                                   [] sig = "finish" -> @]
  /\ target' = (target \/ sig = "finish")
  /\ sent' = (sent /\ ~(sig = "pause" /\ t = DstOf(Fwd)))

-----------------------------------------------------------------------------
(* Handlers of the API                                                     *)

Done(o, ok) == req' = [req EXCEPT ![o].pc = "idle", ![o].ok = ok, ![o].allocs = {}]
Step(o, pc) == req' = [req EXCEPT ![o].pc = pc]

\* Jobs on which a request is made; only reverse makes a reverse job
Subject(kind) ==
  CASE kind \in {"pause", "resume"} -> Paused
    [] kind = "reverse_start" -> {Rev}
    [] OTHER -> {Fwd}

\* Bound: no request is made on a job that was deleted
Known(kind, j) == IF kind = "create" THEN reqs = 0 ELSE \A t \in Of(j) : task[t].nomad \in {"pending", "up"}

\* checkUpdateJobInfo, checkJobAccess: the job does not exist, or it does
Accepted(kind, j) == (info[j] = "none") <=> (kind = "create")

FirstPc(kind) == IF kind \in {"create", "update", "reverse", "delete"} THEN "register" ELSE "list"

Request(o, kind, j) ==
  /\ req[o].pc = "idle" /\ reqs < MaxRequests /\ j \in Subject(kind) /\ Known(kind, j) /\ Accepted(kind, j)
  /\ reqs' = reqs + 1
  /\ req' = [req EXCEPT ![o] = [kind |-> kind, job |-> j, pc |-> FirstPc(kind), allocs |-> {}, ok |-> FALSE]]
  /\ UNCHANGED <<env, info, target, sent, met, task, upd, low, fails>>

\* createOrUpdateJob: Nomad first.  An update replaces the allocations
Register(o) ==
  LET j == req[o].job
      New(t) == CASE task[t].nomad = "none" -> [task[t] EXCEPT !.nomad = "pending"]
                  [] task[t].nomad = "up" -> DestroyTask(t, "pending")
                  [] OTHER -> task[t]
  IN  /\ req[o].pc = "register" /\ req[o].kind \in {"create", "update"}
      /\ task' = [t \in Tasks |-> IF t \in Of(j) THEN New(t) ELSE task[t]]
      /\ sent' = (sent /\ j # Fwd)
      /\ Step(o, "item")
      /\ UNCHANGED <<env, info, target, met, upd, low, reqs, fails>>

\* ReverseJobV2 has createOrUpdateJob register the reverse job, which changes
\* nothing if it is there
ReverseJob(o) ==
  /\ req[o].pc = "register" /\ req[o].kind = "reverse"
  /\ task' = [task EXCEPT ![SrcOf(Rev)].nomad = IF @ = "none" THEN "pending" ELSE @]
  /\ Step(o, "item")
  /\ UNCHANGED <<env, info, target, sent, met, upd, low, reqs, fails>>

\* buildJobListItem
BuildJobListItem(o) ==
  /\ req[o].pc = "item"
  /\ info' = IF req[o].kind = "reverse" THEN [info EXCEPT ![Rev] = "reverse-init"]
             ELSE [info EXCEPT ![req[o].job] = "non-paused"]
  /\ Done(o, TRUE)
  /\ UNCHANGED <<env, target, sent, task, met, upd, low, reqs, fails>>

DeleteJob(o) ==
  LET Stopped(x) == [x EXCEPT !.nomad = IF @ \in {"none", "pending"} THEN "none" ELSE "stop"]
  IN  /\ req[o].pc = "register" /\ req[o].kind = "delete"
      /\ task' = [t \in Tasks |-> IF t \in Of(req[o].job) THEN Stopped(task[t]) ELSE task[t]]
      /\ Step(o, "destroy")
      /\ UNCHANGED <<env, info, target, sent, met, upd, low, reqs, fails>>

DestroyJob(o) ==
  /\ req[o].pc = "destroy"
  /\ info' = [info EXCEPT ![req[o].job] = "none"]
  /\ target' = (target /\ req[o].job # Fwd)
  /\ Done(o, TRUE)
  /\ UNCHANGED <<env, sent, task, met, upd, low, reqs, fails>>

\* The job whose tasks are signalled: reverse_start finishes the other job
Signalled(o) == IF req[o].kind = "reverse_start" THEN Fwd ELSE req[o].job
Signal(o) == IF req[o].kind = "reverse_start" THEN "finish" ELSE req[o].kind

FindAllocations(o) ==
  LET ts == {t \in Of(Signalled(o)) : task[t].nomad \in {"pending", "up"} /\ (Signal(o) = "finish" => t[2] = "Src")}
  IN  /\ req[o].pc = "list"
      /\ IF ts = {} THEN Done(o, FALSE)
         ELSE req' = [req EXCEPT ![o].pc = "get", ![o].allocs = ts]
      /\ UNCHANGED <<env, info, target, sent, met, task, upd, low, reqs, fails>>

ToResume(status) == status = "paused"

\* A job that is paused already, or not paused, is left alone: the answer is 200
GetJobInfo(o) ==
  LET status == info[Signalled(o)]
  IN  /\ req[o].pc = "get"
      /\ CASE Signal(o) = "pause" -> IF status = "paused" THEN Done(o, FALSE) ELSE Step(o, "save")
           [] Signal(o) = "resume" -> IF ToResume(status) THEN Step(o, "save") ELSE Done(o, FALSE)
           [] Signal(o) = "finish" -> IF status = "paused" THEN Done(o, FALSE) ELSE Step(o, "signal")
      /\ UNCHANGED <<env, info, target, sent, met, task, upd, low, reqs, fails>>

\* "update metadata first"
StatusOf(o) == IF req[o].kind = "pause" THEN "paused" ELSE "non-paused"

SaveJobInfo(o) ==
  /\ req[o].pc = "save"
  /\ info' = [info EXCEPT ![req[o].job] = StatusOf(o)]
  /\ Step(o, "signal")
  /\ UNCHANGED <<env, target, sent, task, met, upd, low, reqs, fails>>

SentSignalToTask(o, t) ==
  /\ req[o].pc = "signal" /\ t \in req[o].allocs /\ CanSignal(t, Signal(o))
  /\ SignalTask(t, Signal(o))
  /\ IF req[o].allocs = {t} THEN Done(o, TRUE) ELSE req' = [req EXCEPT ![o].allocs = @ \ {t}]
  /\ UNCHANGED <<env, info, met, upd, low, reqs, fails>>

\* Only a pause takes its status back: needRollbackMetadata of resume is not set
Failed(o) == IF req[o].kind = "pause" THEN Step(o, "rollback") ELSE Done(o, FALSE)

SignalRefused(o, t) ==
  /\ req[o].pc = "signal" /\ t \in req[o].allocs /\ ~CanSignal(t, Signal(o))
  /\ Failed(o)
  /\ UNCHANGED <<env, info, target, sent, met, task, upd, low, reqs, fails>>

\* The call of Nomad fails, before or after the task got the signal
SignalFails(o, t) ==
  /\ env.fail /\ fails < MaxFails
  /\ req[o].pc = "signal" /\ t \in req[o].allocs /\ CanSignal(t, Signal(o))
  /\ Failed(o) /\ fails' = fails + 1
  /\ SignalTask(t, Signal(o)) \/ UNCHANGED <<task, target, sent>>
  /\ UNCHANGED <<env, info, met, upd, low, reqs>>

Rollback(o) ==
  /\ req[o].pc = "rollback"
  /\ info' = [info EXCEPT ![req[o].job] = "non-paused"]
  /\ Done(o, FALSE)
  /\ UNCHANGED <<env, target, sent, task, met, upd, low, reqs, fails>>

-----------------------------------------------------------------------------
Handler(o) ==
  \/ Register(o) \/ ReverseJob(o) \/ BuildJobListItem(o) \/ DeleteJob(o) \/ DestroyJob(o)
  \/ FindAllocations(o) \/ GetJobInfo(o) \/ SaveJobInfo(o) \/ Rollback(o)
  \/ \E t \in Tasks : SentSignalToTask(o, t) \/ SignalRefused(o, t)

Driver(t) == StartTask(t) \/ RunRead(t) \/ RunResume(t) \/ RestartTask(t) \/ StopTask(t)

Index == 1 .. 3
RunnerStep ==
  \/ \E i \in Index, j \in Jobs : ExtractorRun(j, i)
  \/ \E i \in Index : ApplierRun(Fwd, i) \/ WaitOnJobSees(i) \/ WaitOnJobSaves(i) \/ SourceMeetsTarget(i) \/ TestTargetGtid(i)

Next ==
  \/ \E o \in Operators, kind \in Kinds, j \in Jobs : Request(o, kind, j)
  \/ \E o \in Operators : Handler(o) \/ \E t \in Tasks : SignalFails(o, t)
  \/ \E t \in Tasks : Driver(t) \/ \E i \in Index : RunnerFails(t, i)
  \/ RunnerStep \/ UpdateRead \/ UpdateSave \/ MemoryMonitor

Spec == Init /\ [][Next]_vars

\* Handlers, the driver, Nomad and the runners go on; nobody need make a request
FairSpec ==
  /\ Spec
  /\ \A o \in Operators : WF_vars(Handler(o))
  /\ \A t \in Tasks : WF_vars(Driver(t))
  /\ WF_vars(RunnerStep) /\ WF_vars(UpdateSave)

-----------------------------------------------------------------------------
(* Properties                                                              *)

LiveRunners(t) == {i \in DOMAIN task[t].rs : Live(task[t].rs[i])}
Idle(j) == \A o \in Operators : req[o].pc # "idle" => req[o].job # j

\* Handles, runners and requests are of their kind; h.runner is nil or a runner
TypeOK ==
  /\ \A j \in Jobs : info[j] \in {"none", "non-paused", "paused", "stop", "reverse-init", "finished"}
  /\ \A t \in Tasks :
       /\ task[t].nomad \in {"none", "pending", "up", "stop"}
       /\ task[t].h = "none" <=> task[t].nomad \in {"none", "pending"}
       /\ task[t].cur => task[t].rs # << >> /\ task[t].h # "none"
       /\ Len(task[t].rs) <= 3

\* As long as no task fails, a job that is paused, with no request on it in
\* progress, does nothing: no runner of it streams, and none is going to (run
\* reads the status before h.runner is set, pause saves it before it signals).
\* A task that is restarted during a resume has a runner before run has ended
PausedStopped ==
  ~env.fail => \A j \in Jobs : info[j] = "paused" /\ Idle(j) =>
    \A t \in Of(j) : task[t].h # "read" /\ \A r \in Range(task[t].rs) : r.shut \/ r.pc = "done"

\* A reverse job reads no binlog before the job that it waits for has finished:
\* the two do not write into each other's source (WaitOnJob)
ReverseAfterFinish == LiveRunners(SrcOf(Rev)) # {} => met

\* As long as no task fails, a task has one runner (resumeTask does not look at
\* the runner that is there)
OneRunner ==
  ~env.fail =>
    \A t \in Tasks : Cardinality({i \in DOMAIN task[t].rs : ~task[t].rs[i].shut /\ task[t].rs[i].pc # "done"}) <= 1


\* What Shutdown does: a task that Nomad has stopped has no runner
StoppedTasks == \A t \in Tasks : task[t].nomad = "none" => LiveRunners(t) = {}

Streams(t) == LiveRunners(t) # {}
Finished(o, kind) == req[o].pc = "idle" /\ req[o].kind = kind /\ req[o].ok

\* A job whose tasks were all sent "resume" runs in the end, through
\* failures and restarts of its tasks, unless it finishes or there is another
\* request
Resumed ==
  \A o \in Operators :
    Finished(o, "resume") ~> (Streams(SrcOf(Fwd)) /\ Streams(DstOf(Fwd))) \/ info[Fwd] = "finished" \/ ~Finished(o, "resume")

\* After reverse_start the job finishes and the reverse job starts, if nothing
\* fails, memory is not low, and the applier was there
Reversed ==
  ~env.fail /\ ~env.mem =>
    \A o \in Operators :
      Finished(o, "reverse_start") /\ Streams(DstOf(Fwd)) /\ task[SrcOf(Rev)].h # "none"
        ~> Streams(SrcOf(Rev)) \/ ~Finished(o, "reverse_start")
=============================================================================
