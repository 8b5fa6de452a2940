----------------------------- MODULE EntryStream -----------------------------
(***************************************************************************)
(* What a source promises its target: of every job the entries arrive in   *)
(* the order of the binlog, none is left out and none comes twice.         *)
(***************************************************************************)
EXTENDS Naturals, Sequences

CONSTANTS Jobs,
          Expected   \* job -> the entries of its binlog

VARIABLE got         \* job -> the entries that have arrived

Init == got = [j \in Jobs |-> << >>]

Next ==
  \E j \in Jobs : \E n \in Len(got[j]) + 1 .. Len(Expected[j]) :
    got' = [got EXCEPT ![j] = SubSeq(Expected[j], 1, n)]

Spec == Init /\ [][Next]_got
=============================================================================
