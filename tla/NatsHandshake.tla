--------------------------- MODULE NatsHandshake ---------------------------
(***************************************************************************)
(* The Consul key dtle/<job>/NatsAddr, over which the source task asks for *)
(* the NATS address of the target task (DstPutNats and SrcWatchNats of     *)
(* driver/common/store.go), and the two watches on it.                     *)
(***************************************************************************)
EXTENDS Integers

VARIABLES
  natsAddr,    \* the value of the key
  watch        \* per task: the goroutine of consulStore.Watch

Task == {"src", "dst"}
NatsAddr == {"none", "waitdst", "wait", "addr"}

\* slot: the value the watch offers on its channel; seen: its WaitIndex is
\* the index of the key
WatchOff == [on |-> FALSE, seen |-> FALSE, slot |-> "none"]
WatchStarted == [WatchOff EXCEPT !.on = TRUE]

HandshakeInit == natsAddr = "none" /\ watch = [t \in Task |-> WatchOff]

NotSeen(w) == [t \in Task |-> [w[t] EXCEPT !.seen = FALSE]]

\* Put changes the index of the key; Consul may not, for an equal value
Put(value, w) ==
  /\ natsAddr' = value
  /\ watch' \in {NotSeen(w)} \cup (IF value = natsAddr THEN {w} ELSE {})

\* A blocking query returns: values overwritten in the meantime are skipped
Fetch(t) ==
  /\ watch[t].on /\ ~watch[t].seen /\ watch[t].slot = "none"
  /\ watch' = [watch EXCEPT ![t].seen = TRUE, ![t].slot = natsAddr]
  /\ UNCHANGED natsAddr

Offered(t) == watch[t].slot # "none"
Taken(t) == [watch EXCEPT ![t].slot = "none"]

\* What DstPutNats does with a value, while it waits for the source
DstAnswers(value) == value = "wait"
DstKeepsWatching(value) == value = "waitdst"

\* Once it has put the address, only "wait" makes the target restart.
\* Variant: nothing does.
DstNeverRestarts(value) == FALSE
DstMustRestart(value) == value = "wait"

\* SrcWatchNats: what the source does with a value.  An address is taken
\* only after a "wait" was seen; any other is of an earlier round.
\* Variant: every address is taken.
SrcTrustsAddr(value, hasPutWait) ==
  CASE value = "waitdst" -> "put" [] value = "wait" -> "watch" [] OTHER -> "prepare"
SrcNextPc(value, hasPutWait) ==
  CASE value = "waitdst" -> "put"
    [] value = "wait" -> "watch"
    [] OTHER -> IF hasPutWait THEN "prepare" ELSE "put"
=============================================================================
