---------------------------- MODULE MtsManager ----------------------------
(***************************************************************************)
(* The MtsManager of driver/mysql/applier_mts.go: it tracks the largest    *)
(* sequence number such that it and all its predecessors are executed      *)
(* (lastCommitted), and lets the replaying goroutine wait for it.          *)
(*                                                                         *)
(* lastEnqueue belongs to the replaying goroutine, m to the LcUpdater      *)
(* goroutine; lastCommitted is written by LcUpdater (and by handleEntry at *)
(* a rotation) and read by both.  updated is the 1-buffered channel; the   *)
(* unbuffered channel chExecuted is a rendezvous: a sender completes its   *)
(* send together with LcUpdaterReceive.                                    *)
(***************************************************************************)
EXTENDS Integers

CONSTANTS MaxSeq,   \* bound: the largest sequence number of a binlog file
          ForceMts  \* the environment variable FORCE_MTS

ASSUME MtsAssumption == MaxSeq \in Nat /\ ForceMts \in BOOLEAN

VARIABLES lastCommitted, lastEnqueue, updated,
          m,   \* the priority queue, as a bag: m[s] = copies of s
          upc  \* LcUpdater: "recv" | "drain" | "notify"

mtsVars == <<lastCommitted, lastEnqueue, updated, m, upc>>

SeqNum == 1..MaxSeq

MtsInit ==
  /\ lastCommitted = 0
  /\ lastEnqueue = 0
  /\ updated = FALSE
  /\ m = [s \in SeqNum |-> 0]
  /\ upc = "recv"

Pending == {s \in SeqNum : m[s] > 0}

\* case seqNum := <-mm.chExecuted, together with the sender of seqNum
LcUpdaterReceive(seqNum) ==
  /\ upc = "recv"
  /\ IF seqNum <= lastCommitted
     THEN UNCHANGED <<m, upc>>
     ELSE /\ m' = [m EXCEPT ![seqNum] = @ + 1]
          /\ upc' = "drain"

\* The least pending number is the successor of lastCommitted.
LeastIsNext ==
  /\ lastCommitted + 1 \in Pending
  /\ \A s \in Pending : lastCommitted + 1 <= s

\* Mutant of LcUpdaterAdvance: lastCommitted jumps to the least pending number.
AdvanceToLeast ==
  /\ upc = "drain"
  /\ \E s \in Pending :
       /\ \A r \in Pending : s <= r
       /\ m' = [m EXCEPT ![s] = @ - 1]
       /\ lastCommitted' = s
  /\ upc' = "notify"
  /\ UNCHANGED <<lastEnqueue, updated>>

LcUpdaterAdvance ==
  /\ upc = "drain"
  /\ LeastIsNext
  /\ m' = [m EXCEPT ![lastCommitted + 1] = @ - 1]
  /\ lastCommitted' = lastCommitted + 1
  /\ upc' = "notify"
  /\ UNCHANGED <<lastEnqueue, updated>>

\* Mutant of LcUpdaterNotify: nobody is told.
NotifyNobody ==
  /\ upc = "notify"
  /\ upc' = "drain"
  /\ UNCHANGED <<lastCommitted, lastEnqueue, updated, m>>

\* The non-blocking send on updated.
LcUpdaterNotify ==
  /\ upc = "notify"
  /\ updated' = TRUE
  /\ upc' = "drain"
  /\ UNCHANGED <<lastCommitted, lastEnqueue, m>>

LcUpdaterRest ==
  /\ upc = "drain"
  /\ ~LeastIsNext
  /\ upc' = "recv"
  /\ UNCHANGED <<lastCommitted, lastEnqueue, updated, m>>

LcUpdaterStep == LcUpdaterAdvance \/ LcUpdaterNotify \/ LcUpdaterRest

\* Mutants of AllCommitted and MayExecute: off by one.
NearlyAllCommitted == lastCommitted + 1 >= lastEnqueue

MayNearlyExecute(lc) == lastCommitted + 1 >= lc

\* The conditions on which the two waits of the replaying goroutine return,
\* and the receive that wakes it to test them again.
AllCommitted == lastCommitted = lastEnqueue

MayExecute(lc) == ForceMts \/ lastCommitted >= lc

Wakeup ==
  /\ updated
  /\ updated' = FALSE
  /\ UNCHANGED <<lastCommitted, lastEnqueue, m, upc>>

\* handleEntry at a binlog rotation
ResetSeq ==
  /\ lastCommitted' = 0
  /\ lastEnqueue' = 0
  /\ UNCHANGED <<updated, m, upc>>
=============================================================================
