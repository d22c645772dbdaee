--------------------------- MODULE LifecycleProofs ---------------------------
(***************************************************************************)
(* Proofs about module Lifecycle, for any keys, any set of loops and any   *)
(* number of marks and failures: the process is built around the deleter   *)
(* of module Deleter, and stops in an order that is safe for the store.    *)
(***************************************************************************)
EXTENDS Lifecycle, SequenceTheorems, TLAPS

(***************************************************************************)
(* The deleter by itself: its slices never lose, repeat or reorder a mark, *)
(* and implement the sets of DeleteQueue that module Broker is built on.   *)
(***************************************************************************)

(* What the program counter of flush says about its local variables. *)
FlushControl ==
    /\ pc = "idle" => keysToFlush = <<>> /\ next = 1
    /\ pc = "deleting" => next = 1

DeleterInv == DeleterTypeOK /\ FlushControl /\ MarksInOrder

LEMMA RangeOfConcat ==
  ASSUME NEW s \in Seq(IDs), NEW t \in Seq(IDs)
  PROVE  Range(s \o t) = Range(s) \cup Range(t)
  BY RangeConcatenation

LEMMA UnnotifiedType ==
  ASSUME DeleterTypeOK, FlushControl
  PROVE  /\ Unnotified \in Seq(IDs)
         /\ pc = "idle" => Unnotified = <<>>
         /\ pc = "deleting" => Unnotified = keysToFlush
  <1>1. keysToFlush \in Seq(IDs) /\ next \in Int /\ Len(keysToFlush) \in Int
    BY LenProperties DEF DeleterTypeOK
  <1>2. CASE pc = "idle"
    <2>1. Len(keysToFlush) = 0 /\ next = 1
      BY <1>2, EmptySeq DEF FlushControl
    <2>2. Unnotified = <<>>
      BY <1>1, <2>1, SubSeqEmpty DEF Unnotified
    <2> QED
      BY <1>2, <2>2, EmptySeq
  <1>3. CASE pc = "deleting"
    <2>1. Unnotified = keysToFlush
      BY <1>1, <1>3, SubSeqFull DEF Unnotified, FlushControl
    <2> QED
      BY <1>1, <1>3, <2>1
  <1>4. CASE pc = "notifying"
    <2>1. \A i \in next .. Len(keysToFlush) : keysToFlush[i] \in IDs
      BY <1>1, <1>4, ElementOfSeq DEF DeleterTypeOK
    <2>2. Unnotified \in Seq(IDs)
      BY <1>1, <2>1, SubSeqProperties DEF Unnotified
    <2> QED
      BY <1>4, <2>2
  <1> QED
    BY <1>2, <1>3, <1>4 DEF DeleterTypeOK

LEMMA DrainTakes ==
  ASSUME DeleterTypeOK, FlushControl, pc = "idle", Drain, next' = next
  PROVE  /\ keysToFlush' \in Seq(IDs) /\ next' = 1 /\ 1 \in DOMAIN keysToFlush'
         /\ Unnotified = <<>> /\ Unnotified' = pending
         /\ pending # <<>> /\ pending' = <<>> /\ pc' = "deleting"
  <1>1. pending # <<>> /\ keysToFlush' = pending /\ next' = 1 /\ pending' = <<>>
        /\ pending \in Seq(IDs) /\ pc' = "deleting"
    BY DEF Drain, FlushControl, DeleterTypeOK
  <1>2. 1 \in DOMAIN pending
    BY <1>1, EmptySeq, LenProperties
  <1>3. SubSeq(pending, 1, Len(pending)) = pending
    BY <1>1, SubSeqFull
  <1> QED
    BY <1>1, <1>2, <1>3, UnnotifiedType DEF Unnotified

(* One call of OnDelete takes the first key not yet notified. *)
LEMMA OnDeleteTakes ==
  ASSUME DeleterTypeOK, FlushControl, OnDelete
  PROVE  /\ keysToFlush[next] \in IDs
         /\ DeleterTypeOK' /\ FlushControl'
         /\ Unnotified = <<keysToFlush[next]>> \o Unnotified'
         /\ notified' = Append(notified, keysToFlush[next])
         /\ pc' = IF next < Len(keysToFlush) THEN "notifying" ELSE "idle"
  <1>1. /\ pc = "notifying" /\ keysToFlush \in Seq(IDs) /\ Len(keysToFlush) \in Nat
        /\ next \in 1 .. Len(keysToFlush)
        /\ DOMAIN keysToFlush = 1 .. Len(keysToFlush)
    BY LenProperties DEF DeleterTypeOK, OnDelete
  <1>2. keysToFlush[next] \in IDs
    BY <1>1, ElementOfSeq
  <1>3. notified' \in Seq(IDs) /\ notified' = Append(notified, keysToFlush[next])
    BY <1>2, AppendProperties DEF OnDelete, DeleterTypeOK
  <1>4. Unnotified = <<keysToFlush[next]>> \o SubSeq(keysToFlush, next + 1, Len(keysToFlush))
    <2>1. Len(keysToFlush) \in next .. Len(keysToFlush)
      BY <1>1
    <2> QED
      BY <1>1, <2>1, SubSeqRecursiveFirst DEF Unnotified
  <1>5. CASE next < Len(keysToFlush)
    <2>1. next' = next + 1 /\ UNCHANGED <<keysToFlush, pc, loop>>
      BY <1>5 DEF OnDelete
    <2>2. Unnotified' = SubSeq(keysToFlush, next + 1, Len(keysToFlush))
      BY <2>1 DEF Unnotified
    <2>3. DeleterTypeOK' /\ FlushControl'
      BY <1>1, <1>3, <1>5, <2>1 DEF OnDelete, DeleterTypeOK, FlushControl
    <2> QED
      BY <1>1, <1>2, <1>3, <1>4, <1>5, <2>1, <2>2, <2>3
  <1>6. CASE ~(next < Len(keysToFlush))
    <2>1. next' = 1 /\ keysToFlush' = <<>> /\ pc' = "idle" /\ AfterFlush
      BY <1>6 DEF OnDelete
    <2>2. SubSeq(keysToFlush, next + 1, Len(keysToFlush)) = <<>>
      BY <1>1, <1>6, SubSeqEmpty
    <2>3. DeleterTypeOK' /\ FlushControl'
      BY <1>3, <2>1, EmptySeq DEF OnDelete, AfterFlush, DeleterTypeOK, FlushControl
    <2>4. Unnotified' = <<>>
      BY <2>1, <2>3, UnnotifiedType, EmptySeq, SubSeqEmpty DEF Unnotified
    <2> QED
      BY <1>1, <1>2, <1>3, <1>4, <1>6, <2>1, <2>2, <2>3, <2>4
  <1> QED
    BY <1>5, <1>6
-----------------------------------------------------------------------------
LEMMA DeleterInitOK == DeleterInit => DeleterInv
  <1> SUFFICES ASSUME DeleterInit PROVE DeleterInv
    OBVIOUS
  <1>1. DeleterTypeOK /\ FlushControl
    BY EmptySeq DEF DeleterInit, DeleterTypeOK, FlushControl
  <1>2. Unnotified = <<>>
    BY <1>1, UnnotifiedType DEF DeleterInit
  <1>3. <<>> \o <<>> \o <<>> = <<>>
    BY EmptySeq, ConcatEmptySeq
  <1> QED
    BY <1>1, <1>2, <1>3 DEF DeleterInit, DeleterInv, MarksInOrder

LEMMA MarkDeletedOK ==
  ASSUME DeleterInv, NEW k \in IDs, MarkDeleted(k)
  PROVE  DeleterInv' /\ Unnotified' = Unnotified
  <1>1. pending' = Append(pending, k) /\ marks' = Append(marks, k)
        /\ UNCHANGED <<stored, keysToFlush, next, pc, loop, cancelled, notified, errors>>
    BY DEF MarkDeleted
  <1>2. pending \in Seq(IDs) /\ notified \in Seq(IDs) /\ Unnotified \in Seq(IDs)
        /\ marks \in Seq(IDs) /\ <<k>> \in Seq(IDs)
    BY UnnotifiedType DEF DeleterInv, DeleterTypeOK
  <1>3. DeleterTypeOK' /\ FlushControl' /\ Unnotified' = Unnotified
    BY <1>1, <1>2, AppendProperties
    DEF DeleterInv, DeleterTypeOK, FlushControl, Unnotified
  <1>4. (notified \o Unnotified) \o Append(pending, k)
           = Append((notified \o Unnotified) \o pending, k)
    <2>1. /\ notified \o Unnotified \in Seq(IDs)
          /\ (notified \o Unnotified) \o pending \in Seq(IDs)
      BY <1>2, ConcatProperties
    <2> QED
      BY <1>2, <2>1, AppendIsConcat, ConcatAssociative, SMTT(30)
  <1>5. MarksInOrder'
    BY <1>1, <1>3, <1>4 DEF MarksInOrder, DeleterInv
  <1> QED
    BY <1>3, <1>5 DEF DeleterInv

LEMMA DrainOK ==
  ASSUME DeleterInv, pc = "idle", Drain, loop' \in {"running", "final", "stopped"},
         UNCHANGED <<stored, next, cancelled, marks, notified, errors>>
  PROVE  DeleterInv'
  <1>1. /\ pending \in Seq(IDs) /\ notified \in Seq(IDs)
        /\ Unnotified = <<>> /\ Unnotified' = pending /\ pending' = <<>>
    BY DrainTakes DEF DeleterInv, DeleterTypeOK
  <1>2. DeleterTypeOK' /\ FlushControl'
    BY DrainTakes, EmptySeq DEF DeleterInv, DeleterTypeOK, FlushControl
  <1>3. (notified \o pending) \o <<>> = (notified \o <<>>) \o pending
    <2>1. notified \o pending \in Seq(IDs)
      BY <1>1, ConcatProperties
    <2> QED
      BY <1>1, <2>1, ConcatEmptySeq
  <1> QED
    BY <1>1, <1>2, <1>3 DEF DeleterInv, MarksInOrder

LEMMA DeleteKeysErrorOK ==
  ASSUME DeleterInv, DeleteKeysError
  PROVE  /\ DeleterInv'
         /\ Unnotified = keysToFlush /\ Unnotified' = <<>>
         /\ pending' = keysToFlush \o pending
  <1>1. /\ pending \in Seq(IDs) /\ notified \in Seq(IDs) /\ keysToFlush \in Seq(IDs)
        /\ Unnotified = keysToFlush
        /\ pending' = keysToFlush \o pending /\ keysToFlush' = <<>> /\ next' = 1
        /\ pc' = "idle"
    BY UnnotifiedType DEF DeleterInv, DeleterTypeOK, FlushControl, DeleteKeysError
  <1>2. keysToFlush \o pending \in Seq(IDs)
    BY <1>1, ConcatProperties
  <1>3. stored' \subseteq IDs /\ loop' \in {"running", "final", "stopped"} /\ errors' \in Nat
    BY DEF DeleteKeysError, AfterFlush, DeleterInv, DeleterTypeOK
  <1>4. DeleterTypeOK' /\ FlushControl'
    BY <1>1, <1>2, <1>3, EmptySeq
    DEF DeleterInv, DeleterTypeOK, FlushControl, DeleteKeysError
  <1>5. Unnotified' = <<>>
    BY <1>1, EmptySeq, SubSeqEmpty DEF Unnotified
  <1>6. (notified \o <<>>) \o (keysToFlush \o pending) = (notified \o keysToFlush) \o pending
    BY <1>1, ConcatEmptySeq, ConcatAssociative, SMTT(30)
  <1>7. UNCHANGED <<notified, marks>>
    BY DEF DeleteKeysError
  <1> QED
    BY <1>1, <1>4, <1>5, <1>6, <1>7 DEF DeleterInv, MarksInOrder

LEMMA OnDeleteOK ==
  ASSUME DeleterInv, OnDelete
  PROVE  DeleterInv'
  <1> DEFINE k == keysToFlush[next]
  <1>1. /\ k \in IDs /\ DeleterTypeOK' /\ FlushControl'
        /\ Unnotified = <<k>> \o Unnotified' /\ notified' = Append(notified, k)
        /\ UNCHANGED <<pending, marks>>
    BY OnDeleteTakes DEF DeleterInv, OnDelete
  <1>2. notified \in Seq(IDs) /\ <<k>> \in Seq(IDs)
    BY <1>1 DEF DeleterInv, DeleterTypeOK
  <1>3. Unnotified' \in Seq(IDs)
    <2>1. (DeleterTypeOK /\ FlushControl => Unnotified \in Seq(IDs))'
      BY UnnotifiedType, PTL
    <2> QED
      BY <1>1, <2>1
  <1>4. notified' \o Unnotified' = notified \o Unnotified
    BY <1>1, <1>2, <1>3, AppendIsConcat, ConcatAssociative
  <1> QED
    BY <1>1, <1>4 DEF DeleterInv, MarksInOrder

LEMMA DeleterNextOK ==
  ASSUME DeleterInv, [DeleterNext]_deleterVars
  PROVE  DeleterInv'
  <1>1. CASE \E k \in IDs : PutKey(k)
    BY <1>1 DEF PutKey, DeleterInv, DeleterTypeOK, FlushControl, MarksInOrder, Unnotified
  <1>2. CASE Cancel
    BY <1>2 DEF Cancel, DeleterInv, DeleterTypeOK, FlushControl, MarksInOrder, Unnotified
  <1>3. CASE \E k \in IDs : MarkDeleted(k)
    BY <1>3, MarkDeletedOK
  <1>4. CASE TickFlush
    BY <1>4, DrainOK DEF TickFlush
  <1>5. CASE FinalFlush
    <2>1. CASE pending = <<>>
      BY <1>5, <2>1
      DEF FinalFlush, DeleterInv, DeleterTypeOK, FlushControl, MarksInOrder, Unnotified
    <2>2. CASE pending # <<>>
      BY <1>5, <2>2, DrainOK DEF FinalFlush
    <2> QED
      BY <2>1, <2>2
  <1>6. CASE DeleteKeysOK
    BY <1>6
    DEF DeleteKeysOK, DeleterInv, DeleterTypeOK, FlushControl, MarksInOrder, Unnotified
  <1>7. CASE DeleteKeysError
    BY <1>7, DeleteKeysErrorOK
  <1>8. CASE OnDelete
    BY <1>8, OnDeleteOK
  <1>9. CASE UNCHANGED deleterVars
    BY <1>9
    DEF deleterVars, DeleterInv, DeleterTypeOK, FlushControl, MarksInOrder, Unnotified
  <1> QED
    BY <1>1, <1>2, <1>3, <1>4, <1>5, <1>6, <1>7, <1>8, <1>9 DEF DeleterNext

(* The inductive invariant of the deleter. *)
THEOREM DeleterCorrect == DeleterSpec => []DeleterInv
  BY DeleterInitOK, DeleterNextOK, PTL DEF DeleterSpec

(* MarkDeleted and flush lose, repeat and reorder no mark, whatever fails. *)
THEOREM MarksKept == DeleterSpec => []MarksInOrder
  <1>1. DeleterInv => MarksInOrder
    BY DEF DeleterInv
  <1> QED
    BY <1>1, DeleterCorrect, PTL
-----------------------------------------------------------------------------
LEMMA RangeAppend ==
  ASSUME NEW s \in Seq(IDs), NEW k \in IDs
  PROVE  Range(Append(s, k)) = Range(s) \cup {k}
  <1>1. Range(<<k>>) = {k} /\ <<k>> \in Seq(IDs)
    BY DEF Range
  <1>2. Append(s, k) = s \o <<k>>
    BY AppendIsConcat
  <1>3. Range(s \o <<k>>) = Range(s) \cup Range(<<k>>)
    BY <1>1, RangeOfConcat, Zenon
  <1> QED
    BY <1>1, <1>2, <1>3, Zenon

LEMMA RangeNonEmpty ==
  ASSUME NEW s \in Seq(IDs)
  PROVE  /\ Range(s) \subseteq IDs
         /\ s = <<>> <=> Range(s) = {}
  <1>1. Range(s) \subseteq IDs
    BY RangeOfSeq
  <1>2. s = <<>> => Range(s) = {}
    BY DEF Range
  <1>3. s # <<>> => s[1] \in Range(s)
    BY EmptySeq, LenProperties DEF Range
  <1> QED
    BY <1>1, <1>2, <1>3

(* A step of the deleter is a step of the queue, or nothing it can see. *)
LEMMA DeleterStepRefines ==
  ASSUME DeleterInv, [DeleterNext]_deleterVars
  PROVE  [Queue!DeleteNext]_(Queue!delVars)
  <1>0. /\ pending \in Seq(IDs) /\ keysToFlush \in Seq(IDs) /\ Unnotified \in Seq(IDs)
        /\ DeleterTypeOK /\ FlushControl
    BY UnnotifiedType DEF DeleterInv, DeleterTypeOK
  <1>1. ASSUME NEW k \in IDs, PutKey(k) PROVE Queue!DeleteNext
    <2>1. Queue!PutKey(k)
      BY <1>1 DEF PutKey, Queue!PutKey, Unnotified
    <2> QED
      BY <2>1 DEF Queue!DeleteNext
  <1>2. CASE Cancel \/ UNCHANGED deleterVars
    BY <1>2 DEF Cancel, deleterVars, Queue!delVars, Unnotified
  <1>3. ASSUME NEW k \in IDs, MarkDeleted(k) PROVE Queue!DeleteNext
    <2>1. Range(pending') = Range(pending) \cup {k}
      BY <1>0, <1>3, RangeAppend DEF MarkDeleted
    <2>2. Queue!Mark(k)
      BY <1>3, <2>1, MarkDeletedOK DEF MarkDeleted, Queue!Mark, Queue!MarkDeleted
    <2> QED
      BY <2>2 DEF Queue!DeleteNext
  <1>4. ASSUME pc = "idle", Drain, UNCHANGED <<stored, next>> PROVE Queue!DeleteNext
    <2>1. /\ Unnotified' = pending /\ pending # <<>> /\ pending' = <<>> /\ pc' = "deleting"
      BY <1>0, <1>4, DrainTakes
    <2>2. Range(pending) # {} /\ Range(<<>>) = {}
      BY <1>0, <2>1, RangeNonEmpty, EmptySeq
    <2>3. Queue!FlushDrain
      BY <1>4, <2>1, <2>2 DEF Queue!FlushDrain
    <2> QED
      BY <2>3 DEF Queue!DeleteNext
  <1>5. CASE TickFlush
    BY <1>4, <1>5 DEF TickFlush
  <1>6. CASE FinalFlush
    <2>1. CASE pending = <<>>
      BY <1>6, <2>1 DEF FinalFlush, Queue!delVars, Unnotified
    <2>2. CASE pending # <<>>
      BY <1>4, <1>6, <2>2 DEF FinalFlush
    <2> QED
      BY <2>1, <2>2
  <1>7. CASE DeleteKeysOK
    <2>1. Unnotified = keysToFlush
      BY <1>0, <1>7, UnnotifiedType DEF DeleteKeysOK
    <2>2. Queue!DeleteKeysOK
      BY <1>7, <2>1 DEF DeleteKeysOK, Queue!DeleteKeysOK, Unnotified
    <2> QED
      BY <2>2 DEF Queue!DeleteNext
  <1>8. CASE DeleteKeysError
    <2>1. /\ Unnotified = keysToFlush /\ Unnotified' = <<>>
          /\ pending' = keysToFlush \o pending
      BY <1>8, DeleteKeysErrorOK
    <2>2. Range(pending') = Range(keysToFlush) \cup Range(pending)
      BY <1>0, <2>1, RangeOfConcat, Zenon
    <2>e. Range(<<>>) = {}
      BY DEF Range
    <2>3. Queue!DeleteKeysError
      BY <1>8, <2>1, <2>2, <2>e DEF DeleteKeysError, Queue!DeleteKeysError
    <2> QED
      BY <2>3 DEF Queue!DeleteNext
  <1>9. CASE OnDelete
    <2> DEFINE k == keysToFlush[next]
               rest == Range(Unnotified)'
    <2>1. /\ k \in IDs /\ Unnotified = <<k>> \o Unnotified'
          /\ pc = "notifying" /\ UNCHANGED <<stored, pending>>
      BY <1>0, <1>9, OnDeleteTakes DEF OnDelete
    <2>2. Unnotified' \in Seq(IDs) /\ <<k>> \in Seq(IDs) /\ Range(<<k>>) = {k}
      <3>1. (DeleterTypeOK /\ FlushControl => Unnotified \in Seq(IDs))'
        BY UnnotifiedType, PTL
      <3>2. DeleterTypeOK' /\ FlushControl'
        BY <1>0, <1>9, OnDeleteTakes
      <3> QED
        BY <2>1, <3>1, <3>2 DEF Range
    <2>3. Range(Unnotified) = {k} \cup rest /\ rest \subseteq IDs
      <3>1. Range(<<k>> \o Unnotified') = Range(<<k>>) \cup Range(Unnotified')
        BY <2>2, RangeOfConcat, Zenon
      <3>2. Range(Unnotified') \subseteq IDs
        BY <2>2, RangeNonEmpty, Zenon
      <3>3. Range(Unnotified) = Range(<<k>>) \cup Range(Unnotified')
        BY <2>1, <3>1, Zenon
      <3> QED
        BY <2>2, <3>2, <3>3
    <2>4. rest \in {Range(Unnotified), Range(Unnotified) \ {k}}
      BY <2>3
    <2>5. pc' = IF rest = {} THEN "idle" ELSE "notifying"
      <3>1. Unnotified' = <<>> <=> rest = {}
        BY <2>2, RangeNonEmpty
      <3>2. (pc = "idle" => Unnotified = <<>>)'
        <4>1. (DeleterTypeOK /\ FlushControl => (pc = "idle" => Unnotified = <<>>))'
          BY UnnotifiedType, PTL
        <4> QED
          BY <1>0, <1>9, <4>1, OnDeleteTakes
      <3>3. pc' # "idle" => Unnotified' # <<>>
        <4> SUFFICES ASSUME pc' # "idle" PROVE Len(Unnotified') > 0
          BY <2>2, EmptySeq
        <4>1. next < Len(keysToFlush) /\ next' = next + 1 /\ keysToFlush' = keysToFlush
          BY <1>9 DEF OnDelete
        <4>2. Len(keysToFlush) \in Nat /\ next \in Nat /\ 1 <= next
          BY <1>0, <2>1, LenProperties DEF DeleterTypeOK
        <4>3. \A i \in next + 1 .. Len(keysToFlush) : keysToFlush[i] \in IDs
          BY <1>0, <4>2, ElementOfSeq
        <4>4. Len(SubSeq(keysToFlush, next + 1, Len(keysToFlush))) = Len(keysToFlush) - (next + 1) + 1
          BY <4>1, <4>2, <4>3, SubSeqProperties
        <4> QED
          BY <4>1, <4>2, <4>4 DEF Unnotified
      <3>4. pc' \in {"idle", "notifying"}
        BY <1>0, <1>9, OnDeleteTakes
      <3> QED
        BY <3>1, <3>2, <3>3, <3>4
    <2>6. Queue!NotifyDelete(k, rest)
      BY <2>1, <2>3, <2>4, <2>5 DEF Queue!NotifyDelete
    <2> QED
      BY <2>1, <2>3, <2>6 DEF Queue!DeleteNext
  <1> QED
    BY <1>1, <1>2, <1>3, <1>5, <1>6, <1>7, <1>8, <1>9 DEF DeleterNext

(* The deleter, as it is written, is the queue that Broker relies on. *)
THEOREM DeleterIsQueue == DeleterSpec => ImplementsDeleteQueue
  <1>1. DeleterInit => Queue!DeleteInit
    <2> SUFFICES ASSUME DeleterInit PROVE Queue!DeleteInit
      OBVIOUS
    <2>1. Unnotified = <<>>
      BY DeleterInitOK, UnnotifiedType DEF DeleterInv, DeleterInit
    <2>2. Range(<<>>) = {}
      BY DEF Range
    <2> QED
      BY <2>1, <2>2 DEF DeleterInit, Queue!DeleteInit
  <1> QED
    BY <1>1, DeleterCorrect, DeleterStepRefines, PTL
    DEF DeleterSpec, ImplementsDeleteQueue, Queue!DeleteSpec

(***************************************************************************)
(* The process.                                                            *)
(***************************************************************************)


LifeTypeOK ==
    /\ raftEnabled \in BOOLEAN
    /\ phase \in {"running", "signalled", "waiting", "closing", "closingDB",
                  "closed", "exited"}
    /\ shutCtx \in {"nil", "open", "expired"}
    /\ loops \in [Loops -> {"idle", "busy", "done"}]
    /\ grpc \in {"serving", "stopping", "done"}
    /\ stream \in {"none", "open", "busy"}
    /\ applying \in BOOLEAN
    /\ nodeHost \in {"open", "closed"} /\ db \in {"open", "closed"}
    /\ markedBefore \in 0 .. Len(marks)

(* How far the main goroutine is decides what the others can be doing. *)
ShutdownInOrder ==
    /\ cancelled <=> phase \notin {"running", "signalled"}
    /\ phase # "running" => shutCtx # "nil"
    /\ ~cancelled => loop = "running"
    /\ loop = "stopped" => pc = "idle"
    /\ grpc # "serving" => cancelled
    /\ grpc = "done" /\ shutCtx # "expired" => stream = "none"
    /\ phase \in {"closing", "closingDB", "closed", "exited"} /\ shutCtx # "expired"
          => AllDone
    /\ phase \in {"closingDB", "closed", "exited"} => nodeHost = "closed" /\ ~applying
    /\ db = "closed" <=> phase \in {"closed", "exited"}

(* What flush has reported deleted is not in the store, and once the final *)
(* flush has begun, it has taken everything marked before the process was  *)
(* told to stop.                                                           *)
FlushedIsGone ==
    /\ Range(notified) \cap stored = {}
    /\ pc = "notifying" => Range(Unnotified) \cap stored = {}
    /\ loop # "running" /\ errors = 0 => markedBefore <= Len(notified) + Len(Unnotified)

Inv == LifeTypeOK /\ DeleterInv /\ ShutdownInOrder /\ FlushedIsGone
-----------------------------------------------------------------------------
(* The process does to the deleter only what module Deleter lets happen. *)
LEMMA RunsDeleter ==
  ASSUME DeleterInv, [Next]_vars
  PROVE  [DeleterNext]_deleterVars
  <1>1. stored \subseteq IDs /\ Range(marks) \subseteq IDs
    BY RangeOfSeq DEF DeleterInv, DeleterTypeOK
  <1>2. CASE CancelAll
    BY <1>2 DEF CancelAll, DeleterNext
  <1>3. CASE \E c \in Loops, k \in IDs : MarkExpired(c, k)
    BY <1>3 DEF MarkExpired, DeleterNext
  <1>4. CASE DeleterStep
    BY <1>4 DEF DeleterStep, DeleterNext
  <1>5. CASE EndRequest
    BY <1>1, <1>5 DEF EndRequest, DeleterNext
  <1>6. CASE UNCHANGED vars
    BY <1>6 DEF vars
  <1>7. CASE \/ Signal \/ Expire \/ Wait \/ CloseNodeHost \/ CloseDB \/ Exit
             \/ \E c \in Loops : BeginPass(c) \/ EndPass(c) \/ StopLoop(c)
             \/ BeginUpdate \/ EndUpdate \/ OpenStream \/ BeginRequest \/ CloseStream
             \/ BeginGracefulStop \/ EndGracefulStop
    BY <1>7 DEF Signal, Expire, Wait, CloseNodeHost, CloseDB, Exit, BeginPass, EndPass,
                StopLoop, BeginUpdate, EndUpdate, OpenStream, BeginRequest, CloseStream,
                BeginGracefulStop, EndGracefulStop
  <1> QED
    BY <1>2, <1>3, <1>4, <1>5, <1>6, <1>7 DEF Next

(* Every behaviour of the process is one of the deleter on its own. *)
THEOREM ProcessRunsDeleter == Spec => DeleterSpec
  <1>1. Init => DeleterInit
    BY DEF Init
  <1>2. DeleterInv /\ [Next]_vars => DeleterInv'
    BY RunsDeleter, DeleterNextOK
  <1> QED
    BY <1>1, <1>2, DeleterInitOK, RunsDeleter, PTL DEF Spec, DeleterSpec

LEMMA MarksLonger ==
  ASSUME DeleterInv, [DeleterNext]_deleterVars
  PROVE  Len(marks) \in Nat /\ Len(marks') \in Nat /\ Len(marks) <= Len(marks')
  <1>0. marks \in Seq(IDs) /\ Len(marks) \in Nat
    BY LenProperties DEF DeleterInv, DeleterTypeOK
  <1>1. ASSUME NEW k \in IDs, MarkDeleted(k) PROVE Len(marks') = Len(marks) + 1
    BY <1>0, <1>1, AppendProperties DEF MarkDeleted
  <1>2. CASE ~\E k \in IDs : MarkDeleted(k)
    BY <1>2 DEF DeleterNext, deleterVars, PutKey, Cancel, TickFlush, FinalFlush,
                DeleteKeysOK, DeleteKeysError, OnDelete
  <1> QED
    BY <1>0, <1>1, <1>2

LEMMA NextLifeType ==
  ASSUME LifeTypeOK, DeleterInv, [Next]_vars
  PROVE  LifeTypeOK'
  <1>0. Len(marks) \in Nat /\ Len(marks') \in Nat /\ Len(marks) <= Len(marks')
    BY RunsDeleter, MarksLonger
  <1>1. CASE CancelAll
    <2>1. marks' = marks
      BY <1>1 DEF CancelAll, Cancel
    <2> QED
      BY <1>0, <1>1, <2>1 DEF CancelAll, LifeTypeOK
  <1>2. CASE ~CancelAll
    <2>1. markedBefore' = markedBefore
      BY <1>2 DEF Next, vars, lifeVars, Signal, Expire, Wait, CloseNodeHost, CloseDB, Exit,
         BeginPass, MarkExpired, EndPass, StopLoop, DeleterStep, BeginUpdate, EndUpdate,
         OpenStream, BeginRequest, EndRequest, CloseStream, BeginGracefulStop, EndGracefulStop
    <2>2. markedBefore' \in 0 .. Len(marks')
      BY <1>0, <2>1 DEF LifeTypeOK
    <2>3. CASE \E c \in Loops : BeginPass(c) \/ EndPass(c) \/ StopLoop(c)
      BY <2>2, <2>3 DEF BeginPass, EndPass, StopLoop, LifeTypeOK
    <2>4. CASE DeleterStep \/ (\E c \in Loops, k \in IDs : MarkExpired(c, k)) \/ UNCHANGED vars
      <3>1. UNCHANGED lifeVars
        BY <2>4 DEF DeleterStep, MarkExpired, vars
      <3> QED
        BY <2>2, <3>1 DEF lifeVars, LifeTypeOK
    <2>5. CASE Signal \/ Expire \/ Wait \/ CloseNodeHost \/ CloseDB \/ Exit
               \/ BeginUpdate \/ EndUpdate
      BY <2>2, <2>5, ZenonT(30) DEF Signal, Expire, Wait, CloseNodeHost, CloseDB, Exit, BeginUpdate,
         EndUpdate, LifeTypeOK
    <2>6. CASE OpenStream \/ BeginRequest \/ EndRequest \/ CloseStream
               \/ BeginGracefulStop \/ EndGracefulStop
      BY <2>2, <2>6 DEF OpenStream, BeginRequest, EndRequest, CloseStream,
         BeginGracefulStop, EndGracefulStop, LifeTypeOK
    <2> QED
      BY <1>2, <2>3, <2>4, <2>5, <2>6 DEF Next
  <1> QED
    BY <1>1, <1>2
-----------------------------------------------------------------------------
(* What the steps of the deleter leave alone once its loop has stopped. *)
LEMMA StoppedStays ==
  ASSUME [DeleterNext]_deleterVars
  PROVE  /\ loop = "stopped" => loop' = "stopped"
         /\ loop = "stopped" /\ pc = "idle" => pc' = "idle"
         /\ loop' = "stopped" /\ loop # "stopped" => pc' = "idle"
         /\ loop = "running" /\ ~cancelled => loop' = "running"
  BY DEF DeleterNext, deleterVars, PutKey, Cancel, MarkDeleted, TickFlush, FinalFlush, Drain,
         DeleteKeysOK, DeleteKeysError, OnDelete, AfterFlush

LEMMA NextShutdownInOrder ==
  ASSUME LifeTypeOK, DeleterInv, ShutdownInOrder, [Next]_vars
  PROVE  ShutdownInOrder'
  <1>0. /\ loop = "stopped" => loop' = "stopped" /\ pc' = "idle"
        /\ loop' = "stopped" => pc' = "idle"
        /\ ~cancelled => loop' = "running"
    BY RunsDeleter, StoppedStays DEF ShutdownInOrder
  <1>1. CASE CancelAll
    <2>1. UNCHANGED <<loop, pc>> /\ cancelled'
      BY <1>1 DEF CancelAll, Cancel
    <2> QED
      BY <1>0, <1>1, <2>1 DEF CancelAll, ShutdownInOrder, AllDone
  <1>2. CASE ~CancelAll
    <2>0. cancelled' = cancelled
      BY <1>2 DEF Next, vars, deleterVars, Signal, Expire, Wait, CloseNodeHost, CloseDB,
         Exit, BeginPass, MarkExpired, EndPass, StopLoop, DeleterStep, BeginUpdate,
         EndUpdate, OpenStream, BeginRequest, EndRequest, CloseStream, BeginGracefulStop,
         EndGracefulStop, PutKey, MarkDeleted, TickFlush, FinalFlush, DeleteKeysOK,
         DeleteKeysError, OnDelete
    <2>1. CASE \E c \in Loops : BeginPass(c) \/ EndPass(c) \/ StopLoop(c)
      <3>1. AllDone => UNCHANGED loops
        BY <2>1 DEF AllDone, BeginPass, EndPass, StopLoop, LifeTypeOK
      <3>2. UNCHANGED <<deleterVars, phase, shutCtx, grpc, stream, applying, nodeHost, db>>
        BY <2>1 DEF BeginPass, EndPass, StopLoop
      <3>3. AllDone => AllDone'
        BY <3>1, <3>2 DEF AllDone, deleterVars
      <3> QED
        BY <1>0, <2>0, <3>2, <3>3 DEF ShutdownInOrder, deleterVars
    <2>2. CASE DeleterStep \/ (\E c \in Loops, k \in IDs : MarkExpired(c, k)) \/ UNCHANGED vars
      <3>1. UNCHANGED lifeVars
        BY <2>2 DEF DeleterStep, MarkExpired, vars
      <3> QED
        BY <1>0, <2>0, <3>1 DEF lifeVars, ShutdownInOrder, AllDone
    <2>3. CASE Signal \/ Expire \/ Exit \/ Wait \/ CloseNodeHost \/ CloseDB
               \/ BeginUpdate \/ EndUpdate
      BY <1>0, <2>0, <2>3 DEF Signal, Expire, Exit, Wait, CloseNodeHost, CloseDB, BeginUpdate,
         EndUpdate, ShutdownInOrder, AllDone, deleterVars, LifeTypeOK
    <2>4. CASE OpenStream \/ BeginRequest \/ EndRequest \/ CloseStream
               \/ BeginGracefulStop \/ EndGracefulStop
      BY <1>0, <2>0, <2>4 DEF OpenStream, BeginRequest, EndRequest, CloseStream,
         BeginGracefulStop, EndGracefulStop, ShutdownInOrder, AllDone, LifeTypeOK
    <2> QED
      BY <1>2, <2>1, <2>2, <2>3, <2>4 DEF Next
  <1> QED
    BY <1>1, <1>2

LEMMA MarksCount ==
  ASSUME DeleterInv
  PROVE  /\ Len(notified) \in Nat /\ Len(Unnotified) \in Nat /\ Len(pending) \in Nat
         /\ Len(marks) = Len(notified) + Len(Unnotified) + Len(pending)
         /\ \A i \in 1 .. Len(notified) : marks[i] \in Range(notified)
         /\ Range(notified) \subseteq Range(marks)
         /\ Range(Unnotified) \subseteq Range(marks)
  <1>1. /\ notified \in Seq(IDs) /\ Unnotified \in Seq(IDs) /\ pending \in Seq(IDs)
        /\ (notified \o Unnotified) \o pending = marks
    BY UnnotifiedType DEF DeleterInv, DeleterTypeOK, MarksInOrder
  <1>2. /\ notified \o Unnotified \in Seq(IDs)
        /\ Len(notified \o Unnotified) = Len(notified) + Len(Unnotified)
        /\ \A i \in 1 .. Len(notified) + Len(Unnotified) : (notified \o Unnotified)[i] =
              IF i <= Len(notified) THEN notified[i] ELSE Unnotified[i - Len(notified)]
    BY <1>1, ConcatProperties
  <1>3. /\ Len(marks) = Len(notified \o Unnotified) + Len(pending)
        /\ \A i \in 1 .. Len(notified \o Unnotified) + Len(pending) : marks[i] =
              IF i <= Len(notified \o Unnotified) THEN (notified \o Unnotified)[i]
              ELSE pending[i - Len(notified \o Unnotified)]
    BY <1>1, <1>2, ConcatProperties
  <1>4. Len(notified) \in Nat /\ Len(Unnotified) \in Nat /\ Len(pending) \in Nat
        /\ DOMAIN notified = 1 .. Len(notified)
    BY <1>1, LenProperties
  <1>5. \A i \in 1 .. Len(notified) : marks[i] = notified[i]
    BY <1>2, <1>3, <1>4
  <1>6. \A i \in 1 .. Len(notified) : marks[i] \in Range(notified)
    BY <1>4, <1>5 DEF Range
  <1>7. Range(notified \o Unnotified) = Range(notified) \cup Range(Unnotified)
    BY <1>1, RangeOfConcat, Zenon
  <1>8. Range((notified \o Unnotified) \o pending) = Range(notified \o Unnotified) \cup Range(pending)
    BY <1>1, <1>2, RangeOfConcat, Zenon
  <1>9. Range(notified) \subseteq Range(marks) /\ Range(Unnotified) \subseteq Range(marks)
    BY <1>1, <1>7, <1>8
  <1> QED
    BY <1>2, <1>3, <1>4, <1>6, <1>9

(* The steps of the process, by what they do to the deleter. *)
LEMMA StepOfDeleter ==
  ASSUME DeleterInv, [Next]_vars
  PROVE  \/ CancelAll
         \/ /\ markedBefore' = markedBefore
            /\ \/ \E k \in IDs \ Range(marks) : PutKey(k)
               \/ \E k \in IDs : MarkDeleted(k)
               \/ TickFlush \/ FinalFlush \/ DeleteKeysOK \/ DeleteKeysError \/ OnDelete
               \/ UNCHANGED deleterVars
  <1>1. stored \subseteq IDs /\ Range(marks) \subseteq IDs
    BY RangeOfSeq DEF DeleterInv, DeleterTypeOK
  <1> QED
    BY <1>1
    DEF Next, vars, lifeVars, Signal, Expire, Wait, CloseNodeHost, CloseDB, Exit,
        BeginPass, MarkExpired, EndPass, StopLoop, DeleterStep, BeginUpdate, EndUpdate,
        OpenStream, BeginRequest, EndRequest, CloseStream, BeginGracefulStop, EndGracefulStop

LEMMA NextFlushedIsGone ==
  ASSUME Inv, [Next]_vars
  PROVE  FlushedIsGone'
  <1>0. DeleterInv /\ LifeTypeOK /\ ShutdownInOrder /\ FlushedIsGone
    BY DEF Inv
  <1>1. /\ Len(notified) \in Nat /\ Len(Unnotified) \in Nat /\ Len(pending) \in Nat
        /\ Len(marks) = Len(notified) + Len(Unnotified) + Len(pending)
        /\ Range(notified) \subseteq Range(marks)
        /\ Range(Unnotified) \subseteq Range(marks)
    BY <1>0, MarksCount
  <1>2. /\ notified \in Seq(IDs) /\ pending \in Seq(IDs) /\ keysToFlush \in Seq(IDs)
        /\ Unnotified \in Seq(IDs) /\ errors \in Nat /\ Len(marks) \in Nat
        /\ DeleterTypeOK /\ FlushControl
    BY <1>0, UnnotifiedType, LenProperties DEF DeleterInv, DeleterTypeOK
  <1>3. CASE CancelAll
    <2>1. UNCHANGED <<stored, notified, keysToFlush, next, pc, loop>> /\ loop = "running"
      BY <1>0, <1>3 DEF CancelAll, Cancel, ShutdownInOrder
    <2> QED
      BY <1>0, <2>1 DEF FlushedIsGone, Unnotified
  <1>4. ASSUME NEW k \in IDs \ Range(marks), PutKey(k), markedBefore' = markedBefore
        PROVE  FlushedIsGone'
    BY <1>0, <1>1, <1>4 DEF PutKey, FlushedIsGone, Unnotified
  <1>5. ASSUME NEW k \in IDs, MarkDeleted(k), markedBefore' = markedBefore
        PROVE  FlushedIsGone'
    BY <1>0, <1>5 DEF MarkDeleted, FlushedIsGone, Unnotified
  <1>6. CASE TickFlush
    BY <1>0, <1>6 DEF TickFlush, Drain, FlushedIsGone
  <1>7. CASE FinalFlush /\ markedBefore' = markedBefore
    <2>0. UNCHANGED <<stored, next, marks, notified, errors>> /\ pc = "idle"
      BY <1>7 DEF FinalFlush
    <2>1. CASE pending = <<>>
      <3>1. UNCHANGED <<keysToFlush, pc>> /\ Unnotified' = Unnotified
        BY <1>7, <2>0, <2>1 DEF FinalFlush, Unnotified
      <3>2. Len(pending) = 0
        BY <2>1, EmptySeq
      <3> QED
        BY <1>0, <1>1, <1>7, <2>0, <3>1, <3>2 DEF FlushedIsGone, LifeTypeOK
    <2>2. CASE pending # <<>>
      <3>1. Drain
        BY <1>7, <2>2 DEF FinalFlush
      <3>2. Unnotified = <<>> /\ Unnotified' = pending /\ pc' = "deleting"
        BY <1>2, <2>0, <3>1, DrainTakes
      <3>3. Len(Unnotified) = 0
        BY <3>2, EmptySeq
      <3> QED
        BY <1>0, <1>1, <1>7, <2>0, <3>2, <3>3 DEF FlushedIsGone, LifeTypeOK
    <2> QED
      BY <2>1, <2>2
  <1>8. CASE DeleteKeysOK /\ markedBefore' = markedBefore
    <2>1. Unnotified = keysToFlush /\ Unnotified' = Unnotified
      BY <1>2, <1>8, UnnotifiedType DEF DeleteKeysOK, Unnotified
    <2> QED
      BY <1>0, <1>8, <2>1 DEF DeleteKeysOK, FlushedIsGone
  <1>9. CASE DeleteKeysError
    BY <1>0, <1>2, <1>9 DEF DeleteKeysError, FlushedIsGone
  <1>10. CASE OnDelete /\ markedBefore' = markedBefore
    <2> DEFINE k == keysToFlush[next]
    <2>1. /\ k \in IDs /\ Unnotified = <<k>> \o Unnotified'
          /\ notified' = Append(notified, k)
          /\ pc = "notifying" /\ UNCHANGED <<stored, errors>>
      BY <1>2, <1>10, OnDeleteTakes DEF OnDelete
    <2>2. Unnotified' \in Seq(IDs) /\ <<k>> \in Seq(IDs) /\ Range(<<k>>) = {k}
          /\ Len(<<k>>) = 1
      <3>1. (DeleterTypeOK /\ FlushControl => Unnotified \in Seq(IDs))'
        BY UnnotifiedType, PTL
      <3>2. DeleterTypeOK' /\ FlushControl'
        BY <1>2, <1>10, OnDeleteTakes
      <3> QED
        BY <2>1, <3>1, <3>2 DEF Range
    <2>3. Range(Unnotified) = {k} \cup Range(Unnotified')
      <3>1. Range(<<k>> \o Unnotified') = Range(<<k>>) \cup Range(Unnotified')
        BY <2>2, RangeOfConcat, Zenon
      <3>2. Range(Unnotified) = Range(<<k>>) \cup Range(Unnotified')
        BY <2>1, <3>1, Zenon
      <3> QED
        BY <2>2, <3>2
    <2>4. Range(notified') = Range(notified) \cup {k}
      BY <1>2, <2>1, RangeAppend
    <2>5. Len(notified') + Len(Unnotified') = Len(notified) + Len(Unnotified)
      <3>1. Len(Unnotified) = 1 + Len(Unnotified')
        BY <2>1, <2>2, ConcatProperties
      <3>2. Len(notified') = Len(notified) + 1
        BY <1>2, <2>1, AppendProperties
      <3>3. Len(Unnotified') \in Nat
        BY <2>2, LenProperties
      <3> QED
        BY <1>1, <3>1, <3>2, <3>3
    <2>6. loop' # "running" => loop # "running"
      BY <1>10 DEF OnDelete, AfterFlush
    <2>7. FlushedIsGone
      BY <1>0
    <2> QED
      BY <1>10, <2>1, <2>3, <2>4, <2>5, <2>6, <2>7 DEF FlushedIsGone
  <1>11. CASE UNCHANGED deleterVars /\ markedBefore' = markedBefore
    BY <1>0, <1>11 DEF deleterVars, FlushedIsGone, Unnotified
  <1> QED
    BY <1>0, <1>3, <1>4, <1>5, <1>6, <1>7, <1>8, <1>9, <1>10, <1>11, StepOfDeleter

LEMMA InitInv == Init => Inv
  <1> SUFFICES ASSUME Init PROVE Inv
    OBVIOUS
  <1>1. DeleterInv
    BY DeleterInitOK DEF Init
  <1>2. LifeTypeOK /\ ShutdownInOrder
    <2>1. marks = <<>> /\ Len(marks) = 0
      BY EmptySeq DEF Init, DeleterInit
    <2>2. nodeHost \in {"open", "closed"} /\ applying \in BOOLEAN
      BY Zenon DEF Init
    <2>3. markedBefore \in 0 .. Len(marks)
      BY <2>1 DEF Init
    <2>4. loops \in [Loops -> {"idle", "busy", "done"}]
      BY DEF Init
    <2>5. LifeTypeOK
      BY <2>2, <2>3, <2>4, Zenon DEF Init, LifeTypeOK
    <2>6. ShutdownInOrder
      BY DEF Init, DeleterInit, ShutdownInOrder
    <2> QED
      BY <2>5, <2>6
  <1>3. FlushedIsGone
    <2>1. Range(notified) = {} /\ stored = {} /\ pc = "idle" /\ loop = "running"
      BY DEF Init, DeleterInit, Range
    <2> QED
      BY <2>1 DEF FlushedIsGone
  <1> QED
    BY <1>1, <1>2, <1>3 DEF Inv

(* The inductive invariant of the process. *)
THEOREM InvCorrect == Spec => []Inv
  <1>1. Inv /\ [Next]_vars => Inv'
    <2> SUFFICES ASSUME Inv, [Next]_vars PROVE Inv'
      OBVIOUS
    <2>1. DeleterInv'
      BY RunsDeleter, DeleterNextOK DEF Inv
    <2> QED
      BY <2>1, NextLifeType, NextShutdownInOrder, NextFlushedIsGone DEF Inv
  <1> QED
    BY <1>1, InitInv, PTL DEF Spec

(* The variables of Lifecycle keep their types. *)
THEOREM TypeCorrect == Spec => []TypeOK
  <1>1. Inv => TypeOK
    BY DEF Inv, LifeTypeOK, DeleterInv, TypeOK
  <1> QED
    BY <1>1, InvCorrect, PTL

(* WaitForShutdown never reads App.ShutCtx before it was set. *)
THEOREM WindowIsOpen == Spec => []ShutCtxIsSet
  <1>1. Inv => ShutCtxIsSet
    BY DEF Inv, ShutdownInOrder, ShutCtxIsSet
  <1> QED
    BY <1>1, InvCorrect, PTL

(* WithGracefulShutdown closes the store when nobody is using it.          *)
THEOREM StoreQuiet == Spec => []StoreClosedQuietly
  <1>1. Inv => StoreClosedQuietly
    BY DEF Inv, ShutdownInOrder, AllDone, StoreClosedQuietly
  <1> QED
    BY <1>1, InvCorrect, PTL

(* The final flush of Run deletes what was acknowledged before the stop. *)
THEOREM AcksFlushed == Spec => []AcksBeforeStopFlushed
  <1>1. Inv => AcksBeforeStopFlushed
    <2> SUFFICES ASSUME Inv, loop = "stopped", errors = 0, NEW i \in 1 .. markedBefore
                 PROVE  marks[i] \notin stored
      BY DEF AcksBeforeStopFlushed
    <2>1. Unnotified = <<>>
      BY UnnotifiedType DEF Inv, DeleterInv, ShutdownInOrder
    <2>2. Len(notified) \in Nat /\ markedBefore \in Nat /\ markedBefore <= Len(notified)
      <3>1. Len(Unnotified) = 0
        BY <2>1, EmptySeq
      <3>2. Len(notified) \in Nat /\ Len(marks) \in Nat
        BY MarksCount DEF Inv
      <3> QED
        BY <3>1, <3>2 DEF Inv, FlushedIsGone, LifeTypeOK
    <2>3. marks[i] \in Range(notified)
      BY <2>2, MarksCount DEF Inv
    <2> QED
      BY <2>3 DEF Inv, FlushedIsGone
  <1> QED
    BY <1>1, InvCorrect, PTL

(* In the whole process no mark is lost, repeated or overtaken.            *)
THEOREM ProcessKeepsMarks == Spec => []MarksInOrder
  BY ProcessRunsDeleter, MarksKept, PTL

(* In the whole process the deleter is the queue that Broker relies on. *)
THEOREM ProcessIsQueue == Spec => ImplementsDeleteQueue
  BY ProcessRunsDeleter, DeleterIsQueue, PTL
=============================================================================
