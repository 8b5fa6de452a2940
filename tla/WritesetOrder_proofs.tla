----------------------- MODULE WritesetOrder_proofs -----------------------
(***************************************************************************)
(* Proofs about the WritesetManager for every history size, every set of   *)
(* rows and keys and any number of transactions: the dependency numbers it *)
(* gives are sound as long as no transaction mixes rows with and without   *)
(* unique keys (MixedTx = FALSE).                                          *)
(***************************************************************************)
EXTENDS WritesetOrder, WellFoundedInduction, TLAPS

\* The numbers in the manager are numbers of transactions of the file, so
\* those of the next transaction are larger.
Known(n) == \E a \in assigned : a.seq = n

KnownInv ==
  /\ \A k \in DOMAIN history : Known(history[k])
  /\ lastCommonParent = 0 \/ Known(lastCommonParent)

UnmixedInv == \A a \in assigned : Unmixed(a)

IInv == TypeOK /\ KnownInv /\ UnmixedInv /\ Remembered /\ DependencySound

-----------------------------------------------------------------------------
\* A non-empty bounded set of numbers has a maximum, which Max is: the loop of
\* GatLastCommit over the hashes ends with the largest parent.
LEMMA MaxOfBounded ==
  ASSUME NEW n \in Nat, NEW S \in SUBSET (0..n), S # {}
  PROVE  Max(S) \in S /\ \A y \in S : Max(S) >= y
<1> DEFINE T == {d \in 0..n : n - d \in S}
<1>1. T \subseteq Nat /\ T # {}
  <2>1. PICK x \in S : TRUE
    OBVIOUS
  <2>2. n - x \in 0..n /\ n - (n - x) = x
    OBVIOUS
  <2>3. n - x \in T
    BY <2>1, <2>2
  <2>4. T \subseteq Nat
    OBVIOUS
  <2> QED
    BY <2>3, <2>4
<1>2. \E d \in T : \A e \in T : ~(<<e, d>> \in OpToRel(<, Nat))
  <2> HIDE DEF T
  <2> QED
    BY <1>1, WFMin, NatLessThanWellFounded
<1>3. PICK d \in T : \A e \in T : ~(<<e, d>> \in OpToRel(<, Nat))
  BY <1>2
<1>4. \A e \in T : ~(e < d)
  BY <1>1, <1>3 DEF OpToRel
<1>5. \A y \in S : n - d >= y
  <2> SUFFICES ASSUME NEW y \in S PROVE n - d >= y
    OBVIOUS
  <2>1. n - y \in T
    OBVIOUS
  <2> QED
    BY <1>4, <2>1
<1> QED
  BY <1>5 DEF Max

\* Changing lc changes nothing that HashTx and GatLastCommit look at.
LEMMA LcIrrelevant ==
  ASSUME NEW tx \in Tx, NEW lc
  PROVE  LET b == [tx EXCEPT !.lc = lc]
         IN  /\ b.seq = tx.seq /\ b.lc = lc
             /\ Rows(b) = Rows(tx) /\ HashTx(b) = HashTx(tx)
             /\ CanUseWritesets(b) = CanUseWritesets(tx)
             /\ Unmixed(b) = Unmixed(tx)
             /\ \A a : Conflict(a, b) = Conflict(a, tx)
<1> DEFINE b == [tx EXCEPT !.lc = lc]
<1>1. b.seq = tx.seq /\ b.lc = lc /\ b.rows = tx.rows
  BY DEF Tx
<1>2. Rows(b) = Rows(tx)
  BY <1>1 DEF Rows
<1>3. HashTx(b) = HashTx(tx)
  BY <1>2 DEF HashTx
<1> HIDE DEF b
<1>4. CanUseWritesets(b) = CanUseWritesets(tx) /\ Unmixed(b) = Unmixed(tx)
  BY <1>2, <1>3 DEF CanUseWritesets, HasFKParent, Unmixed
<1>5. \A a : Conflict(a, b) = Conflict(a, tx)
  BY <1>2, <1>3 DEF Conflict
<1> QED
  BY <1>1, <1>2, <1>3, <1>4, <1>5 DEF b

\* The number GatLastCommit returns is below the transaction's own and covers
\* every transaction of the file it conflicts with.
LEMMA LastCommitCovers ==
  ASSUME IInv, NEW tx \in Tx, NextTx(tx), Unmixed(tx)
  PROVE  /\ LastCommitOf(tx) \in 0..MaxSeq
         /\ LastCommitOf(tx) < tx.seq
         /\ \A a \in assigned : Conflict(a, tx) => a.seq <= LastCommitOf(tx)
<1>1. CASE ~CanUseWritesets(tx)
  BY <1>1 DEF LastCommitOf, NextTx, SourceDependency, Tx
<1>2. CASE CanUseWritesets(tx)
  <2>1. /\ lastCommonParent \in Parents(tx)
        /\ \A p \in Parents(tx) : p \in 0..MaxSeq /\ p < tx.seq
    BY DEF IInv, TypeOK, KnownInv, Known, NextTx, Parents, Tx
  <2>2. Max(Parents(tx)) \in Parents(tx) /\ \A p \in Parents(tx) : Max(Parents(tx)) >= p
    BY <2>1, MaxOfBounded, OrderAssumption
  <2>3. LastCommitOf(tx) = Max(Parents(tx))
    BY <1>2 DEF LastCommitOf
  <2>4. ASSUME NEW a \in assigned, Conflict(a, tx)
        PROVE  \E p \in Parents(tx) : a.seq <= p
    <3>1. ASSUME NEW k \in HashTx(a), k \in HashTx(tx)
          PROVE  \E p \in Parents(tx) : a.seq <= p
      <4>1. CASE a.seq <= lastCommonParent
        BY <2>1, <4>1
      <4>2. CASE k \in DOMAIN history /\ a.seq <= history[k]
        <5>1. history[k] < tx.seq
          BY <4>2 DEF IInv, KnownInv, Known, NextTx
        <5>2. history[k] \in Parents(tx)
          BY <3>1, <4>2, <5>1 DEF Parents
        <5> QED
          BY <4>2, <5>2
      <4> QED
        BY <3>1, <4>1, <4>2 DEF IInv, Remembered
    <3>2. ASSUME NEW r \in Rows(a), r \in Rows(tx)
          PROVE  \E p \in Parents(tx) : a.seq <= p
      <4>1. RowKeys[r] # {}
        BY <1>2, <3>2 DEF Unmixed, CanUseWritesets
      <4>2. \E k \in RowKeys[r] : k \in HashTx(a) /\ k \in HashTx(tx)
        BY <3>2, <4>1 DEF HashTx
      <4> QED
        BY <3>1, <4>2
    <3>3. ASSUME NEW ref \in FKRef, ref[1] \in Rows(tx), ref[2] \in Rows(a)
          PROVE  \E p \in Parents(tx) : a.seq <= p
      <4>1. ~CanUseWritesets(a)
        BY <3>3, RowAssumption DEF CanUseWritesets, HasFKParent
      <4> QED
        BY <2>1, <4>1 DEF IInv, Remembered
    <3>4. ASSUME NEW ref \in FKRef PROVE ~(ref[2] \in Rows(tx))
      BY <1>2, RowAssumption DEF CanUseWritesets, HasFKParent
    <3> QED
      BY <2>4, <3>1, <3>2, <3>3, <3>4 DEF Conflict
  <2>5. \A a \in assigned : a.seq \in Nat
    BY DEF IInv, TypeOK, Tx
  <2> QED
    BY <2>1, <2>2, <2>3, <2>4, <2>5, OrderAssumption
<1> QED
  BY <1>1, <1>2

\* Adding a transaction with a number that covers its conflicts keeps every
\* number of the file sound.
LEMMA ExtendSound ==
  ASSUME IInv, NEW tx \in Tx, NextTx(tx), NEW lc \in 0..MaxSeq, lc < tx.seq,
         \A a \in assigned : Conflict(a, tx) => a.seq <= lc,
         assigned' = assigned \cup {[tx EXCEPT !.lc = lc]}
  PROVE  DependencySound'
<1> DEFINE b == [tx EXCEPT !.lc = lc]
<1>1. /\ b.seq = tx.seq /\ b.lc = lc
      /\ \A a : Conflict(a, b) = Conflict(a, tx)
  BY LcIrrelevant
<1>2. \A a \in assigned : a.seq < b.seq /\ a.seq \in Nat
  BY <1>1 DEF NextTx, IInv, TypeOK, Tx
<1>3. b.seq \in Nat
  BY <1>1 DEF Tx
<1> HIDE DEF b
<1>4. assigned' = assigned \cup {b}
  BY DEF b
<1>5. ASSUME NEW c \in assigned', NEW a \in assigned', a.seq < c.seq, Conflict(a, c)
      PROVE  a.seq <= c.lc
  <2>1. CASE c = b
    <3>1. a \in assigned
      BY <1>3, <1>4, <1>5, <2>1
    <3> QED
      BY <1>1, <1>5, <2>1, <3>1
  <2>2. CASE c \in assigned
    <3>1. a \in assigned
      BY <1>2, <1>3, <1>4, <1>5, <2>2
    <3> QED
      BY <1>5, <2>2, <3>1 DEF IInv, DependencySound
  <2> QED
    BY <1>4, <2>1, <2>2
<1>6. \A c \in assigned' : c.lc < c.seq
  BY <1>1, <1>4 DEF IInv, DependencySound
<1> QED
  BY <1>5, <1>6 DEF DependencySound, Conflict, Rows, HashTx

-----------------------------------------------------------------------------
\* A reset with the number of the newest transaction covers everything the
\* manager forgets (resetCommonParent).
LEMMA ResetKeepsInv ==
  ASSUME IInv, NEW tx \in Tx, NextTx(tx), Unmixed(tx), NEW lc \in 0..MaxSeq,
         assigned' = assigned \cup {[tx EXCEPT !.lc = lc]},
         ResetCommonParent(tx.seq)
  PROVE  (TypeOK /\ KnownInv /\ UnmixedInv /\ Remembered)'
<1> DEFINE b == [tx EXCEPT !.lc = lc]
<1>1. b \in Tx /\ b.seq = tx.seq /\ Unmixed(b)
  BY LcIrrelevant DEF Tx
<1> HIDE DEF b
<1>2. assigned' = assigned \cup {b} /\ lastCommonParent' = b.seq /\ DOMAIN history' = {}
  BY <1>1 DEF b, ResetCommonParent
<1>3. TypeOK'
  BY <1>1, <1>2 DEF IInv, TypeOK, Tx
<1>4. KnownInv' /\ UnmixedInv'
  BY <1>1, <1>2 DEF IInv, KnownInv, Known, UnmixedInv
<1>5. \A a \in assigned' : a.seq <= lastCommonParent'
  BY <1>1, <1>2 DEF IInv, TypeOK, NextTx, Tx
<1>6. Remembered'
  BY <1>5 DEF Remembered
<1> QED
  BY <1>3, <1>4, <1>6

\* Recording the hashes of the newest transaction forgets no earlier write.
LEMMA RecordKeepsInv ==
  ASSUME IInv, NEW tx \in Tx, NextTx(tx), Unmixed(tx), NEW lc \in 0..MaxSeq,
         assigned' = assigned \cup {[tx EXCEPT !.lc = lc]},
         CanUseWritesets(tx), ~ExceedsCapacity(tx), GatLastCommit(tx)
  PROVE  (TypeOK /\ KnownInv /\ UnmixedInv /\ Remembered)'
<1> DEFINE b == [tx EXCEPT !.lc = lc]
<1>1. /\ b \in Tx /\ b.seq = tx.seq /\ Unmixed(b)
      /\ HashTx(b) = HashTx(tx) /\ CanUseWritesets(b)
  BY LcIrrelevant DEF Tx
<1> HIDE DEF b
<1>2. assigned' = assigned \cup {b} /\ lastCommonParent' = lastCommonParent
  BY DEF b, GatLastCommit
<1>3. history' = [k \in DOMAIN history \cup HashTx(tx) |->
                    IF k \in HashTx(tx) THEN tx.seq ELSE history[k]]
  BY DEF GatLastCommit
<1>4. HashTx(tx) \subseteq Key
  <2>1. Rows(tx) \subseteq Row
    BY DEF Rows, Tx
  <2> QED
    BY <2>1, RowAssumption DEF HashTx
<1>5. TypeOK'
  BY <1>1, <1>2, <1>3, <1>4 DEF IInv, TypeOK, Tx
<1>6. KnownInv' /\ UnmixedInv'
  BY <1>1, <1>2, <1>3 DEF IInv, KnownInv, Known, UnmixedInv
<1>7. \A a \in assigned' : a.seq <= tx.seq /\ a.seq \in Nat
  BY <1>1, <1>2 DEF IInv, TypeOK, NextTx, Tx
<1>8. ASSUME NEW a \in assigned', NEW k \in HashTx(a)
      PROVE  \/ a.seq <= lastCommonParent'
             \/ k \in DOMAIN history' /\ a.seq <= history'[k]
  <2>1. CASE k \in HashTx(tx)
    BY <1>3, <1>7, <2>1
  <2>2. CASE k \notin HashTx(tx)
    <3>1. a \in assigned
      BY <1>1, <1>2, <1>8, <2>2
    <3> QED
      BY <1>2, <1>3, <1>8, <2>2, <3>1 DEF IInv, Remembered
  <2> QED
    BY <2>1, <2>2
<1>9. ASSUME NEW a \in assigned', ~CanUseWritesets(a)
      PROVE  a.seq <= lastCommonParent'
  BY <1>1, <1>2, <1>9 DEF IInv, Remembered
<1>10. Remembered'
  BY <1>8, <1>9 DEF Remembered, HashTx, Rows, CanUseWritesets, HasFKParent
<1> QED
  BY <1>5, <1>6, <1>10

\* Every step of handleEntry's use of the manager keeps the invariant.
LEMMA NextIInv ==
  ASSUME MixedTx = FALSE, IInv, [Next]_vars PROVE IInv'
<1>1. ASSUME NEW tx \in Tx, AssignTx(tx) PROVE IInv'
  <2>1. NextTx(tx) /\ Unmixed(tx)
    BY <1>1 DEF AssignTx, NextTx
  <2>2. assigned' = assigned \cup {[tx EXCEPT !.lc = LastCommitOf(tx)]}
    BY <1>1 DEF AssignTx
  <2>3. DependencySound'
    BY <2>1, <2>2, LastCommitCovers, ExtendSound
  <2>4. CASE CanUseWritesets(tx) /\ ~ExceedsCapacity(tx)
    BY <1>1, <2>1, <2>2, <2>3, <2>4, LastCommitCovers, RecordKeepsInv DEF AssignTx, IInv
  <2>5. CASE ~(CanUseWritesets(tx) /\ ~ExceedsCapacity(tx))
    <3>1. ResetCommonParent(tx.seq)
      BY <1>1, <2>5 DEF AssignTx, GatLastCommit
    <3> QED
      BY <2>1, <2>2, <2>3, <3>1, LastCommitCovers, ResetKeepsInv DEF IInv
  <2> QED
    BY <2>4, <2>5
<1>2. ASSUME NEW tx \in Tx, BigTx(tx) PROVE IInv'
  <2>1. NextTx(tx) /\ Unmixed(tx)
    BY <1>2 DEF BigTx, NextTx
  <2>2. /\ tx.seq - 1 \in 0..MaxSeq /\ tx.seq - 1 < tx.seq
        /\ \A a \in assigned : a.seq <= tx.seq - 1
    <3>1. tx.seq \in 1..MaxSeq /\ \A a \in assigned : a.seq \in 1..MaxSeq
      BY DEF IInv, TypeOK, Tx
    <3> QED
      BY <2>1, <3>1, OrderAssumption DEF NextTx
  <2>3. /\ assigned' = assigned \cup {[tx EXCEPT !.lc = tx.seq - 1]}
        /\ ResetCommonParent(tx.seq)
    BY <1>2 DEF BigTx
  <2>4. DependencySound'
    BY <2>1, <2>2, <2>3, ExtendSound
  <2> QED
    BY <2>1, <2>2, <2>3, <2>4, ResetKeepsInv DEF IInv
<1>3. CASE Rotate
  BY <1>3, OrderAssumption DEF Rotate, ResetCommonParent, IInv, TypeOK, KnownInv, Known,
                               UnmixedInv, Remembered, DependencySound
<1>4. CASE UNCHANGED vars
  BY <1>4 DEF vars, IInv, TypeOK, KnownInv, Known, UnmixedInv, Remembered, DependencySound
<1> QED
  BY <1>1, <1>2, <1>3, <1>4 DEF Next

\* The inductive invariant holds in every state when no transaction mixes rows
\* with and without unique keys.
THEOREM Invariance ==
  ASSUME MixedTx = FALSE PROVE Spec => []IInv
<1>1. Init => IInv
  BY OrderAssumption DEF Init, WsInit, IInv, TypeOK, KnownInv, Known, UnmixedInv,
                         Remembered, DependencySound
<1>2. IInv /\ [Next]_vars => IInv'
  BY NextIInv
<1> QED
  BY <1>1, <1>2, PTL DEF Spec

\* GatLastCommit: with unmixed transactions, the number of every transaction
\* covers every earlier one of the file it conflicts with, for every history
\* size, however often the history is reset.
THEOREM DependencyNumbersSound ==
  ASSUME MixedTx = FALSE PROVE Spec => []DependencySound
<1>1. IInv => DependencySound
  BY DEF IInv
<1> QED
  BY <1>1, Invariance, PTL

\* GatLastCommit forgets no write of the file, whatever is reset.
THEOREM WritesRemembered ==
  ASSUME MixedTx = FALSE PROVE Spec => [](TypeOK /\ Remembered)
<1>1. IInv => TypeOK /\ Remembered
  BY DEF IInv
<1> QED
  BY <1>1, Invariance, PTL
=============================================================================
