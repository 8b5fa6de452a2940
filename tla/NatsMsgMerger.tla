--------------------------- MODULE NatsMsgMerger ---------------------------
(***************************************************************************)
(* Messages larger than NatsMaxMsg: Extractor.publish cuts one into        *)
(* segments, each followed by its index, and NatsMsgMerger of              *)
(* driver/common/natsmgr.go puts them together again.  A byte is           *)
(* [of, at]: byte number "at" of message "of".                             *)
(***************************************************************************)
EXTENDS Integers, Sequences, FiniteSetsExt

CONSTANTS
  NatsMaxMsg,
  IndexLen,     \* bytes that hold the index of a segment: 4
  NoMsg         \* the "of" of a byte that belongs to no message

ASSUME SegmentAssumption == NatsMaxMsg \in Nat /\ IndexLen \in 1 .. NatsMaxMsg

Bytes(msg, len) == [i \in 1 .. len |-> [of |-> msg, at |-> i]]
Padding == [i \in 1 .. IndexLen |-> [of |-> NoMsg, at |-> -1]]
IndexBytes(iSeg) == [i \in 1 .. IndexLen |-> [of |-> NoMsg, at |-> iSeg]]

-----------------------------------------------------------------------------
(* publish: the message is cut in place, one segment per request.  The     *)
(* index of a segment overwrites the head of the next one, which is kept   *)
(* in bak and put back before that segment is cut.                         *)

StartPublish(bytes) ==
  LET nSeg == Len(bytes) \div NatsMaxMsg + 1
  IN  [data |-> IF nSeg > 1 THEN bytes \o Padding ELSE bytes,
       len |-> Len(bytes), nSeg |-> nSeg, iSeg |-> 0, bak |-> << >>]

Published(pub) == pub.iSeg = pub.nSeg

\* Variant: the saved head is not put back
OverwriteIndexOnly(data, at, bytes) ==
  [i \in 1 .. Len(data) |->
     IF i - at \in 1 .. Len(bytes) /\ bytes[i - at].of = NoMsg THEN bytes[i - at] ELSE data[i]]

\* data with the bytes after position "at" replaced
Overwrite(data, at, bytes) ==
  [i \in 1 .. Len(data) |-> IF i - at \in 1 .. Len(bytes) THEN bytes[i - at] ELSE data[i]]

SegBegin(pub) == pub.iSeg * NatsMaxMsg
SegEnd(pub) == Min({pub.len, (pub.iSeg + 1) * NatsMaxMsg})

\* The publisher after the copies for segment iSeg, before iSeg is advanced
CutSegment(pub) ==
  IF pub.nSeg = 1 THEN pub
  ELSE LET restored == Overwrite(pub.data, SegBegin(pub), pub.bak)
       IN  [pub EXCEPT !.bak = SubSeq(restored, SegEnd(pub) + 1, SegEnd(pub) + IndexLen),
                       !.data = Overwrite(restored, SegEnd(pub), IndexBytes(pub.iSeg))]

Segment(cut) ==
  IF cut.nSeg = 1 THEN cut.data
  ELSE SubSeq(cut.data, SegBegin(cut) + 1, SegEnd(cut) + IndexLen)

-----------------------------------------------------------------------------
(* NatsMsgMerger                                                           *)

NewNatsMsgMerger == [buf |-> << >>, iSeg |-> 0]

\* Four bytes of data are no index (they are an arbitrary number in the code)
SegIndex(data) == IF data[Len(data)].of = NoMsg THEN data[Len(data)].at ELSE -2

Payload(data) == SubSeq(data, 1, Len(data) - IndexLen)

HandleErr(nmm, data) ==
  IF nmm.iSeg = 0 THEN Len(data) >= NatsMaxMsg /\ SegIndex(data) # 0
  ELSE Len(data) < IndexLen

SegmentFinished(nmm, data) ==
  IF nmm.iSeg = 0 THEN Len(data) < NatsMaxMsg ELSE Len(data) < NatsMaxMsg + IndexLen

\* A segment with an unexpected index is left out
Handle(nmm, data) ==
  IF nmm.iSeg = 0
    THEN [buf |-> IF Len(data) < NatsMaxMsg THEN data ELSE Payload(data), iSeg |-> 1]
    ELSE IF SegIndex(data) # nmm.iSeg THEN nmm
    ELSE [buf |-> nmm.buf \o Payload(data), iSeg |-> nmm.iSeg + 1]
=============================================================================
