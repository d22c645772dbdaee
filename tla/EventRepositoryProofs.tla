------------------------ MODULE EventRepositoryProofs ------------------------
(***************************************************************************)
(* Theorems about EventRepository: what the storage keys and the counter   *)
(* of internal/repository/events.go guarantee, for every word size, bucket *)
(* width, number of publish streams, messages and crashes.                 *)
(***************************************************************************)
EXTENDS EventRepository, TLAPS

(* At most one publish stream is open at a time. *)
OneStream == \A p, q \in Producers : p = q

(* No time of delivery leaves the range of a signed 64-bit word. *)
NoOverflow == \A n \in Times : n < HalfMod /\ \A d \in Delays : n + d < HalfMod
-----------------------------------------------------------------------------
(* The inductive invariant.  A message is filed under the key that its     *)
(* topic, its time of delivery and an ID give it.                          *)
KeyOf(msg, id) ==
    EventKey(CalculateBucket(AddInt64(msg.enq, msg.delay), BucketMs), TopicHash[msg.topic], id)

Filed(f) ==
    \A k \in DOMAIN f :
        /\ f[k] \in DOMAIN sent
        /\ \E id \in 1 .. Len(sent) : k = KeyOf(sent[f[k]], id)

IsBatch(b, n) ==
    /\ DOMAIN b = {"open", "nowMs", "writes", "lastID"}
    /\ b.open => b.nowMs \in Times
    /\ ~b.open => b.writes = <<>>
    /\ b.lastID \in 0 .. n

TypeOK ==
    /\ up \in BOOLEAN
    /\ sent \in Seq(Message)
    /\ lastID \in 0 .. Len(sent) /\ savedID \in 0 .. Len(sent)
    /\ Len(sent) <= MaxMessages
    /\ DOMAIN batches = Producers
    /\ \A p \in Producers : IsBatch(batches[p], Len(sent))
    /\ crashes \in Nat

AllFiled == Filed(db) /\ \A p \in Producers : Filed(batches[p].writes)

(* A stopped process has no batches, and the first stop is counted. *)
Stopped == ~up => crashes > 0 /\ \A p \in Producers : batches[p] = NoBatch

(* The IDs in use are at most the counter, and every key has one writer.   *)
(* Holds until the first restart, and for one stream across restarts.      *)
IDsUsed ==
    up /\ (crashes = 0 \/ OneStream) =>
        /\ \A k \in DOMAIN db : k[3] <= lastID
        /\ \A p \in Producers : \A w \in DOMAIN batches[p].writes :
              /\ w[3] <= lastID
              /\ w \notin DOMAIN db
              /\ \A q \in Producers \ {p} : w \notin DOMAIN batches[q].writes

(* What one stream has committed or is about to commit is covered by the   *)
(* counter value that goes with it.                                        *)
Covered ==
    OneStream =>
        /\ CounterCoversStore
        /\ up => savedID <= lastID
        /\ \A p \in Producers :
              /\ batches[p].lastID <= lastID
              /\ \A w \in DOMAIN batches[p].writes : 
                    /\ w[3] <= batches[p].lastID
                    /\ savedID <= batches[p].lastID

Kept == crashes = 0 \/ OneStream => NoOverwrite

Inv == TypeOK /\ AllFiled /\ Stopped /\ IDsUsed /\ Covered /\ Kept
-----------------------------------------------------------------------------
(* A message that takes an ID leaves the earlier ones as they are. *)
LEMMA SentGrows ==
  ASSUME sent \in Seq(Message), NEW msg \in Message, sent' = Append(sent, msg)
  PROVE  /\ sent' \in Seq(Message)
         /\ Len(sent') = Len(sent) + 1
         /\ \A m \in DOMAIN sent : m \in DOMAIN sent' /\ sent'[m] = sent[m]
         /\ Len(sent) + 1 \in DOMAIN sent' /\ sent'[Len(sent) + 1] = msg
         /\ Len(sent) \in Nat
  OBVIOUS

(* So what was filed stays filed. *)
LEMMA StaysFiled ==
  ASSUME NEW f, Filed(f),
         sent \in Seq(Message), NEW msg \in Message, sent' = Append(sent, msg)
  PROVE  \A k \in DOMAIN f :
            /\ f[k] \in DOMAIN sent'
            /\ \E id \in 1 .. Len(sent') : k = KeyOf(sent'[f[k]], id)
  <1>1. /\ Len(sent') = Len(sent) + 1
        /\ \A m \in DOMAIN sent : m \in DOMAIN sent' /\ sent'[m] = sent[m]
        /\ Len(sent) \in Nat
    BY SentGrows
  <1>2. \A id \in 1 .. Len(sent) : id \in 1 .. Len(sent')
    BY <1>1
  <1> QED
    BY <1>1, <1>2, Zenon DEF Filed

(* What StoreWithBatch does, with the message and the key it builds. *)
StoredAs(p, msg, key) ==
    /\ up /\ batches[p].open /\ Len(sent) < MaxMessages
    /\ msg \in Message
    /\ key = KeyOf(msg, lastID + 1)
    /\ lastID' = lastID + 1
    /\ sent' = Append(sent, msg)
    /\ batches' = [batches EXCEPT ![p].lastID = lastID + 1,
                                  ![p].writes = Put(@, key, Len(sent) + 1)]
    /\ UNCHANGED <<up, savedID, db, committed, deleted, crashes>>

(* StoreWithBatch files one message under the next ID. *)
LEMMA StoreStep ==
  ASSUME TypeOK, NEW p \in Producers, NEW t \in Topics, NEW d \in Delays,
         StoreWithBatch(p, t, d)
  PROVE  \E msg, key : StoredAs(p, msg, key)
  <1> DEFINE msg == [topic |-> t, enq |-> batches[p].nowMs, delay |-> d]
             key == EventKey(CalculateBucket(AddInt64(msg.enq, msg.delay), BucketMs),
                             TopicHash[t], lastID + 1)
  <1>1. msg \in Message
    <2>1. batches[p].nowMs \in Times
      BY DEF TypeOK, IsBatch, StoreWithBatch
    <2> QED
      BY <2>1 DEF Message
  <1>2. key = KeyOf(msg, lastID + 1)
    BY DEF KeyOf
  <1> QED
    BY <1>1, <1>2 DEF StoreWithBatch, StoredAs

(* Its effect on the batch of p, and on no other. *)
LEMMA StoredBatch ==
  ASSUME TypeOK, NEW p \in Producers, NEW msg, NEW key, StoredAs(p, msg, key)
  PROVE  /\ DOMAIN batches' = Producers
         /\ \A q \in Producers \ {p} : batches'[q] = batches[q]
         /\ DOMAIN batches'[p] = {"open", "nowMs", "writes", "lastID"}
         /\ batches'[p].open = batches[p].open
         /\ batches'[p].nowMs = batches[p].nowMs
         /\ DOMAIN batches'[p].writes = DOMAIN batches[p].writes \cup {key}
         /\ batches'[p].writes[key] = Len(sent) + 1
         /\ \A k \in DOMAIN batches[p].writes :
               k # key => batches'[p].writes[k] = batches[p].writes[k]
         /\ batches'[p].lastID = lastID + 1
  <1> DEFINE b  == batches[p]
             w2 == Put(b.writes, key, Len(sent) + 1)
             b1 == [b EXCEPT !.lastID = lastID + 1]
             b2 == [b1 EXCEPT !.writes = w2]
  <1>1. DOMAIN b = {"open", "nowMs", "writes", "lastID"} /\ DOMAIN batches = Producers
    BY DEF TypeOK, IsBatch
  <1>2. batches' = [batches EXCEPT ![p] = [b1 EXCEPT !.writes = Put(@, key, Len(sent) + 1)]]
    BY <1>1 DEF StoredAs
  <1> HIDE DEF w2, b
  <1>3. b1.open = b.open /\ b1.nowMs = b.nowMs /\ b1.writes = b.writes /\ b1.lastID = lastID + 1
    BY <1>1
  <1>4. DOMAIN b1 = {"open", "nowMs", "writes", "lastID"}
    BY <1>1
  <1>5. batches' = [batches EXCEPT ![p] = b2]
    BY <1>2, <1>3 DEF w2
  <1> HIDE DEF b1
  <1>6. /\ DOMAIN b2 = {"open", "nowMs", "writes", "lastID"}
        /\ b2.open = b1.open /\ b2.nowMs = b1.nowMs /\ b2.writes = w2 /\ b2.lastID = b1.lastID
    BY <1>4
  <1> HIDE DEF b2
  <1>7. /\ DOMAIN batches' = Producers
        /\ \A q \in Producers \ {p} : batches'[q] = batches[q]
        /\ batches'[p] = b2
    BY <1>1, <1>5
  <1>8. /\ DOMAIN w2 = DOMAIN b.writes \cup {key} /\ w2[key] = Len(sent) + 1
        /\ \A k \in DOMAIN b.writes : k # key => w2[k] = b.writes[k]
    BY DEF w2, Put
  <1> QED
    BY <1>3, <1>6, <1>7, <1>8 DEF b
-----------------------------------------------------------------------------
(* Batches that are batches. *)
LEMMA BatchTypes ==
  ASSUME NEW n \in Nat
  PROVE  /\ IsBatch(NoBatch, n)
         /\ \A t \in Times : IsBatch([NoBatch EXCEPT !.open = TRUE, !.nowMs = t], n)
         /\ \A b : IsBatch(b, n) => IsBatch(b, n + 1)
  <1>1. IsBatch(NoBatch, n)
    BY DEF IsBatch, NoBatch
  <1>2. ASSUME NEW t \in Times
        PROVE  IsBatch([NoBatch EXCEPT !.open = TRUE, !.nowMs = t], n)
    <2> DEFINE b == [NoBatch EXCEPT !.open = TRUE, !.nowMs = t]
    <2>1. /\ DOMAIN b = {"open", "nowMs", "writes", "lastID"}
          /\ b.open /\ b.nowMs = t /\ b.writes = <<>> /\ b.lastID = 0
      BY DEF NoBatch
    <2> HIDE DEF b
    <2>2. IsBatch(b, n)
      BY <2>1 DEF IsBatch
    <2> QED
      BY <2>2 DEF b
  <1>3. \A b : IsBatch(b, n) => IsBatch(b, n + 1)
    BY DEF IsBatch
  <1> QED
    BY <1>1, <1>2, <1>3

(* An empty store satisfies the invariant. *)
LEMMA InitInv == Init => Inv
  <1> SUFFICES ASSUME Init PROVE Inv
    OBVIOUS
  <1> USE DEF Init
  <1>0. IsBatch(NoBatch, 0)
    BY BatchTypes, Zenon
  <1>1. TypeOK
    BY <1>0, RepositoryAssumption DEF TypeOK
  <1>2. AllFiled
    BY DEF AllFiled, Filed, NoBatch
  <1>3. Stopped /\ Kept
    BY DEF Stopped, Kept, NoOverwrite
  <1>4. IDsUsed
    BY DEF IDsUsed, NoBatch
  <1>5. Covered
    BY DEF Covered, CounterCoversStore, NoBatch
  <1> QED
    BY <1>1, <1>2, <1>3, <1>4, <1>5 DEF Inv

(* A step of one stream leaves the batches of the others alone. *)
LEMMA ResetBatch ==
  ASSUME TypeOK, NEW p \in Producers, NEW b, batches' = [batches EXCEPT ![p] = b]
  PROVE  /\ DOMAIN batches' = Producers
         /\ batches'[p] = b
         /\ \A q \in Producers \ {p} : batches'[q] = batches[q]
  BY DEF TypeOK

(* Every step keeps the types. *)
LEMMA TypeStep ==
  ASSUME TypeOK, [Next]_vars
  PROVE  TypeOK'
  <1>0. Len(sent) \in Nat /\ lastID \in Nat /\ lastID <= Len(sent)
    BY DEF TypeOK
  <1>1. ASSUME NEW p \in Producers, NEW b, IsBatch(b, Len(sent)),
               batches' = [batches EXCEPT ![p] = b],
               UNCHANGED <<up, lastID, sent, crashes>>, savedID' \in 0 .. Len(sent)
        PROVE  TypeOK'
    <2>1. /\ DOMAIN batches' = Producers
          /\ batches'[p] = b
          /\ \A q \in Producers \ {p} : batches'[q] = batches[q]
      BY <1>1, ResetBatch
    <2>2. \A q \in Producers : IsBatch(batches[q], Len(sent))'
      BY <1>1, <2>1 DEF TypeOK
    <2> QED
      BY <1>1, <2>1, <2>2 DEF TypeOK
  <1>2. ASSUME NEW p \in Producers, NEW n \in Times, NewBatch(p, n)
        PROVE  TypeOK'
    <2>1. IsBatch([NoBatch EXCEPT !.open = TRUE, !.nowMs = n], Len(sent))
      BY <1>0, BatchTypes
    <2> QED
      BY <1>1, <1>2, <2>1 DEF NewBatch, TypeOK
  <1>3. ASSUME NEW p \in Producers, NEW t \in Topics, NEW d \in Delays, StoreWithBatch(p, t, d)
        PROVE  TypeOK'
    <2>1. PICK msg, key : StoredAs(p, msg, key)
      BY <1>3, StoreStep
    <2>2. sent' \in Seq(Message) /\ Len(sent') = Len(sent) + 1
      BY <2>1, SentGrows DEF TypeOK, StoredAs
    <2>3. /\ DOMAIN batches' = Producers
          /\ \A q \in Producers \ {p} : batches'[q] = batches[q]
          /\ DOMAIN batches'[p] = {"open", "nowMs", "writes", "lastID"}
          /\ batches'[p].open = batches[p].open
          /\ batches'[p].nowMs = batches[p].nowMs
          /\ batches'[p].lastID = lastID + 1
      BY <2>1, StoredBatch
    <2>4. IsBatch(batches[p], Len(sent)) /\ batches[p].open
      BY <2>1 DEF TypeOK, StoredAs
    <2>5. IsBatch(batches'[p], Len(sent'))
      BY <1>0, <2>2, <2>3, <2>4 DEF IsBatch
    <2>6. \A q \in Producers \ {p} : IsBatch(batches'[q], Len(sent'))
      BY <1>0, <2>2, <2>3, BatchTypes DEF TypeOK
    <2>7. \A q \in Producers : IsBatch(batches'[q], Len(sent'))
      BY <2>5, <2>6
    <2> QED
      BY <1>0, <2>1, <2>2, <2>3, <2>7, RepositoryAssumption DEF TypeOK, StoredAs
  <1>4. ASSUME NEW p \in Producers, CommitBatch(p)
        PROVE  TypeOK'
    <2>1. batches[p].lastID \in 0 .. Len(sent)
      BY DEF TypeOK, IsBatch
    <2>2. IsBatch(NoBatch, Len(sent))
      BY <1>0, BatchTypes
    <2> QED
      BY <1>1, <1>4, <2>1, <2>2 DEF CommitBatch
  <1>5. ASSUME NEW p \in Producers, AbortBatch(p)
        PROVE  TypeOK'
    <2>1. IsBatch(NoBatch, Len(sent))
      BY <1>0, BatchTypes
    <2> QED
      BY <1>1, <1>5, <2>1 DEF AbortBatch, TypeOK
  <1>6. ASSUME NEW k \in DOMAIN db, DeleteWithBatch(k)
        PROVE  TypeOK'
    BY <1>6 DEF DeleteWithBatch, TypeOK
  <1>7. ASSUME Crash
        PROVE  TypeOK'
    <2>1. IsBatch(NoBatch, Len(sent))
      BY <1>0, BatchTypes
    <2>2. up' \in BOOLEAN
      BY <1>7, Zenon DEF Crash
    <2>3. DOMAIN batches' = Producers /\ \A p \in Producers : batches'[p] = NoBatch
      BY <1>7 DEF Crash
    <2>4. UNCHANGED <<sent, savedID>> /\ lastID' = 0 /\ crashes' = crashes + 1
      BY <1>7 DEF Crash
    <2> QED
      BY <1>0, <2>1, <2>2, <2>3, <2>4 DEF TypeOK
  <1>8. ASSUME NewEventRepository
        PROVE  TypeOK'
    BY <1>8 DEF NewEventRepository, TypeOK
  <1>9. ASSUME UNCHANGED vars
        PROVE  TypeOK'
    BY <1>9 DEF vars, TypeOK
  <1> QED
    BY <1>2, <1>3, <1>4, <1>5, <1>6, <1>7, <1>8, <1>9 DEF Next

(* The last word of a key is its ID. *)
LEMMA KeyID ==
  ASSUME NEW msg, NEW id
  PROVE  KeyOf(msg, id)[3] = id
  BY DEF KeyOf, EventKey

(* The ID in a key was handed out. *)
LEMMA FiledID ==
  ASSUME NEW f, Filed(f), sent \in Seq(Message)
  PROVE  \A k \in DOMAIN f : k[3] \in 1 .. Len(sent)
  BY KeyID DEF Filed

(* Every entry, in storage or on its way there, is under its own key. *)
LEMMA FiledStep ==
  ASSUME TypeOK, AllFiled, [Next]_vars
  PROVE  AllFiled'
  <1>1. ASSUME NEW p \in Producers, NEW b, b.writes = <<>>,
               batches' = [batches EXCEPT ![p] = b], sent' = sent, Filed(db')
        PROVE  AllFiled'
    <2>1. batches'[p] = b /\ \A q \in Producers \ {p} : batches'[q] = batches[q]
      BY <1>1, ResetBatch
    <2>2. \A q \in Producers : Filed(batches'[q].writes)
      BY <1>1, <2>1 DEF AllFiled, Filed
    <2> QED
      BY <1>1, <2>2 DEF AllFiled, Filed
  <1>2. ASSUME NEW p \in Producers, NEW n \in Times, NewBatch(p, n)
        PROVE  AllFiled'
    <2>1. [NoBatch EXCEPT !.open = TRUE, !.nowMs = n].writes = <<>>
      BY DEF NoBatch
    <2> QED
      BY <1>1, <1>2, <2>1 DEF NewBatch, AllFiled
  <1>3. ASSUME NEW p \in Producers, NEW t \in Topics, NEW d \in Delays, StoreWithBatch(p, t, d)
        PROVE  AllFiled'
    <2>1. PICK msg, key : StoredAs(p, msg, key)
      BY <1>3, StoreStep
    <2>2. /\ sent \in Seq(Message) /\ msg \in Message /\ sent' = Append(sent, msg)
          /\ lastID \in 0 .. Len(sent)
      BY <2>1 DEF TypeOK, StoredAs
    <2>3. /\ Len(sent') = Len(sent) + 1
          /\ Len(sent) + 1 \in DOMAIN sent' /\ sent'[Len(sent) + 1] = msg
          /\ Len(sent) \in Nat
      BY <2>2, SentGrows
    <2> DEFINE OK(k, m) == m \in DOMAIN sent' /\ \E id \in 1 .. Len(sent') : k = KeyOf(sent'[m], id)
    <2>4. OK(key, Len(sent) + 1)
      <3>1. key = KeyOf(msg, lastID + 1)
        BY <2>1 DEF StoredAs
      <3>2. lastID + 1 \in 1 .. Len(sent')
        BY <2>2, <2>3
      <3> QED
        BY <2>3, <3>1, <3>2
    <2>5. \A k \in DOMAIN db : OK(k, db[k])
      BY <2>2, StaysFiled DEF AllFiled
    <2>6. \A q \in Producers : \A k \in DOMAIN batches[q].writes : OK(k, batches[q].writes[k])
      BY <2>2, StaysFiled DEF AllFiled
    <2> HIDE DEF OK
    <2>7. /\ \A q \in Producers \ {p} : batches'[q] = batches[q]
          /\ DOMAIN batches'[p].writes = DOMAIN batches[p].writes \cup {key}
          /\ batches'[p].writes[key] = Len(sent) + 1
          /\ \A k \in DOMAIN batches[p].writes :
                k # key => batches'[p].writes[k] = batches[p].writes[k]
      BY <2>1, StoredBatch
    <2>8. \A q \in Producers : \A k \in DOMAIN batches'[q].writes : OK(k, batches'[q].writes[k])
      <3> DEFINE w == batches[p].writes
                 u == batches'[p].writes
      <3>1. /\ DOMAIN u = DOMAIN w \cup {key}
            /\ u[key] = Len(sent) + 1
            /\ \A k \in DOMAIN w : k # key => u[k] = w[k]
        BY <2>7
      <3>2. \A k \in DOMAIN w : OK(k, w[k])
        BY <2>6
      <3> HIDE DEF w, u
      <3>3. \A k \in DOMAIN u : OK(k, u[k])
        BY <2>4, <3>1, <3>2, Zenon
      <3> QED
        BY <2>6, <2>7, <3>3, Zenon DEF u
    <2>9. db' = db
      BY <2>1 DEF StoredAs
    <2> QED
      BY <2>5, <2>8, <2>9 DEF AllFiled, Filed, OK
  <1>4. ASSUME NEW p \in Producers, CommitBatch(p)
        PROVE  AllFiled'
    <2>1. Filed(db')
      BY <1>4 DEF CommitBatch, AllFiled, Filed
    <2>2. NoBatch.writes = <<>>
      BY DEF NoBatch
    <2> QED
      BY <1>1, <1>4, <2>1, <2>2 DEF CommitBatch
  <1>5. ASSUME NEW p \in Producers, AbortBatch(p)
        PROVE  AllFiled'
    <2>1. NoBatch.writes = <<>>
      BY DEF NoBatch
    <2> QED
      BY <1>1, <1>5, <2>1 DEF AbortBatch, AllFiled
  <1>6. ASSUME NEW k \in DOMAIN db, DeleteWithBatch(k)
        PROVE  AllFiled'
    BY <1>6 DEF DeleteWithBatch, AllFiled, Filed, Restrict
  <1>7. ASSUME Crash
        PROVE  AllFiled'
    BY <1>7 DEF Crash, AllFiled, Filed, NoBatch
  <1>8. ASSUME NewEventRepository
        PROVE  AllFiled'
    BY <1>8 DEF NewEventRepository, AllFiled, Filed
  <1>9. ASSUME UNCHANGED vars
        PROVE  AllFiled'
    BY <1>9 DEF vars, AllFiled, Filed
  <1> QED
    BY <1>2, <1>3, <1>4, <1>5, <1>6, <1>7, <1>8, <1>9 DEF Next

(* Only a crash stops the process, and it is counted. *)
LEMMA StoppedStep ==
  ASSUME TypeOK, Stopped, [Next]_vars
  PROVE  Stopped'
  <1>1. ASSUME up' PROVE Stopped'
    BY <1>1 DEF Stopped
  <1>2. ASSUME Crash PROVE Stopped'
    <2>1. crashes' > 0
      BY <1>2 DEF Crash, TypeOK
    <2>2. \A p \in Producers : batches'[p] = NoBatch
      BY <1>2 DEF Crash
    <2> QED
      BY <2>1, <2>2 DEF Stopped
  <1>3. ASSUME UNCHANGED vars PROVE Stopped'
    BY <1>3 DEF vars, Stopped
  <1>4. CASE Next
    <2>1. ASSUME NEW p \in Producers, NEW n \in Times, NewBatch(p, n) PROVE up'
      BY <2>1 DEF NewBatch
    <2>2. ASSUME NEW p \in Producers, NEW t \in Topics, NEW d \in Delays, StoreWithBatch(p, t, d)
          PROVE  up'
      BY <2>2 DEF StoreWithBatch
    <2>3. ASSUME NEW p \in Producers, CommitBatch(p) PROVE up'
      BY <2>3 DEF CommitBatch
    <2>4. ASSUME NEW p \in Producers, AbortBatch(p) PROVE up'
      BY <2>4 DEF AbortBatch
    <2>5. ASSUME NEW k \in DOMAIN db, DeleteWithBatch(k) PROVE up'
      BY <2>5 DEF DeleteWithBatch
    <2>6. ASSUME NewEventRepository PROVE up'
      BY <2>6 DEF NewEventRepository
    <2> QED
      BY <1>1, <1>2, <1>4, <2>1, <2>2, <2>3, <2>4, <2>5, <2>6, Zenon DEF Next
  <1> QED
    BY <1>3, <1>4

(* IDs in use stay below the counter, and keys keep one writer. *)
LEMMA IDsUsedStep ==
  ASSUME Inv, [Next]_vars
  PROVE  IDsUsed'
  <1> DEFINE Trusted == crashes = 0 \/ OneStream
             W(p)    == DOMAIN batches[p].writes
  <1>1. TypeOK /\ AllFiled /\ Stopped /\ IDsUsed /\ Covered
    BY DEF Inv
  <1>2. /\ lastID \in Nat /\ savedID \in Nat /\ crashes \in Nat /\ sent \in Seq(Message)
    BY <1>1 DEF TypeOK
  <1>3. /\ \A k \in DOMAIN db : k[3] \in Nat
        /\ \A p \in Producers : \A w \in W(p) : w[3] \in Nat
    <2>1. \A f : Filed(f) => \A k \in DOMAIN f : k[3] \in Nat
      BY <1>2, FiledID
    <2> QED
      BY <1>1, <2>1 DEF AllFiled
  <1>4. ASSUME up, Trusted
        PROVE  /\ \A k \in DOMAIN db : k[3] <= lastID
               /\ \A p \in Producers : \A w \in W(p) :
                     /\ w[3] <= lastID
                     /\ w \notin DOMAIN db
                     /\ \A q \in Producers \ {p} : w \notin W(q)
    BY <1>1, <1>4 DEF IDsUsed
  <1>5. ASSUME NEW p \in Producers, NEW b, b.writes = <<>>, batches' = [batches EXCEPT ![p] = b]
        PROVE  W(p)' = {} /\ \A q \in Producers \ {p} : W(q)' = W(q)
    <2>1. batches'[p] = b /\ \A q \in Producers \ {p} : batches'[q] = batches[q]
      BY <1>1, <1>5, ResetBatch
    <2> QED
      BY <1>5, <2>1
  <1>6. NoBatch.writes = <<>>
    BY DEF NoBatch
  <1> HIDE DEF W
  <1> DEFINE Goal == /\ \A k \in DOMAIN db' : k[3] <= lastID'
                     /\ \A p \in Producers : \A w \in W(p)' :
                           /\ w[3] <= lastID'
                           /\ w \notin DOMAIN db'
                           /\ \A q \in Producers \ {p} : w \notin W(q)'
  <1>7. SUFFICES ASSUME up', Trusted' PROVE Goal
    BY Zenon DEF IDsUsed, W
  <1>8. ASSUME UNCHANGED <<up, crashes>> PROVE up /\ Trusted
    BY <1>7, <1>8, Zenon DEF OneStream
  <1>9. ASSUME NEW p \in Producers, NEW n \in Times, NewBatch(p, n)
        PROVE  Goal
    <2>1. [NoBatch EXCEPT !.open = TRUE, !.nowMs = n].writes = <<>>
      BY DEF NoBatch
    <2>2. W(p)' = {} /\ \A q \in Producers \ {p} : W(q)' = W(q)
      BY <1>5, <1>9, <2>1 DEF NewBatch
    <2>3. up /\ Trusted /\ lastID' = lastID /\ db' = db
      BY <1>8, <1>9 DEF NewBatch
    <2> QED
      BY <1>4, <2>2, <2>3
  <1>10. ASSUME NEW p \in Producers, NEW t \in Topics, NEW d \in Delays, StoreWithBatch(p, t, d)
         PROVE  Goal
    <2>1. PICK msg, key : StoredAs(p, msg, key)
      BY <1>1, <1>10, StoreStep
    <2>2. key[3] = lastID + 1
      BY <2>1, KeyID DEF StoredAs
    <2>3. W(p)' = W(p) \cup {key} /\ \A q \in Producers \ {p} : W(q)' = W(q)
      BY <1>1, <2>1, StoredBatch DEF W
    <2>4. up /\ Trusted /\ lastID' = lastID + 1 /\ db' = db
      BY <1>8, <2>1 DEF StoredAs
    <2>5. key \notin DOMAIN db /\ \A q \in Producers : key \notin W(q)
      BY <1>2, <1>4, <2>2, <2>4
    <2> QED
      BY <1>2, <1>3, <1>4, <2>2, <2>3, <2>4, <2>5
  <1>11. ASSUME NEW p \in Producers, CommitBatch(p)
         PROVE  Goal
    <2>1. W(p)' = {} /\ \A q \in Producers \ {p} : W(q)' = W(q)
      BY <1>5, <1>6, <1>11 DEF CommitBatch
    <2>2. up /\ Trusted /\ lastID' = lastID /\ DOMAIN db' = DOMAIN db \cup W(p)
      BY <1>8, <1>11 DEF CommitBatch, W
    <2> QED
      BY <1>4, <2>1, <2>2
  <1>12. ASSUME NEW p \in Producers, AbortBatch(p)
         PROVE  Goal
    <2>1. W(p)' = {} /\ \A q \in Producers \ {p} : W(q)' = W(q)
      BY <1>5, <1>6, <1>12 DEF AbortBatch
    <2>2. up /\ Trusted /\ lastID' = lastID /\ db' = db
      BY <1>8, <1>12 DEF AbortBatch
    <2> QED
      BY <1>4, <2>1, <2>2
  <1>13. ASSUME NEW k \in DOMAIN db, DeleteWithBatch(k)
         PROVE  Goal
    <2>1. \A q \in Producers : W(q)' = W(q)
      BY <1>13 DEF DeleteWithBatch, W
    <2>2. up /\ Trusted /\ lastID' = lastID /\ DOMAIN db' \subseteq DOMAIN db
      BY <1>8, <1>13 DEF DeleteWithBatch, Restrict
    <2> QED
      BY <1>4, <2>1, <2>2
  <1>14. ASSUME Crash
         PROVE  Goal
    BY <1>7, <1>14, Zenon DEF Crash
  <1>15. ASSUME NewEventRepository
         PROVE  Goal
    <2>1. OneStream
      BY <1>1, <1>7, <1>15 DEF NewEventRepository, Stopped
    <2>2. \A q \in Producers : W(q)' = {}
      BY <1>1, <1>6, <1>15 DEF NewEventRepository, Stopped, W
    <2>3. \A k \in DOMAIN db : k[3] <= savedID
      BY <1>1, <2>1 DEF Covered, CounterCoversStore
    <2> QED
      BY <1>15, <2>2, <2>3 DEF NewEventRepository
  <1>16. ASSUME UNCHANGED vars
         PROVE  Goal
    <2>1. up /\ Trusted /\ lastID' = lastID /\ db' = db /\ \A q \in Producers : W(q)' = W(q)
      BY <1>8, <1>16 DEF vars, W
    <2> QED
      BY <1>4, <2>1
  <1> QED
    BY <1>9, <1>10, <1>11, <1>12, <1>13, <1>14, <1>15, <1>16 DEF Next

(* One stream: the saved counter covers the store at all times. *)
LEMMA CoveredStep ==
  ASSUME Inv, [Next]_vars
  PROVE  Covered'
  <1> DEFINE W(p) == DOMAIN batches[p].writes
             L(p) == batches[p].lastID
  <1> SUFFICES ASSUME OneStream PROVE Covered'
    BY DEF Covered
  <1>1. TypeOK /\ AllFiled /\ Stopped /\ Covered
    BY DEF Inv
  <1>2. /\ lastID \in Nat /\ savedID \in Nat /\ sent \in Seq(Message)
        /\ \A p \in Producers : L(p) \in Nat
    BY <1>1 DEF TypeOK, IsBatch
  <1>3. /\ \A k \in DOMAIN db : k[3] \in Nat
        /\ \A p \in Producers : \A w \in W(p) : w[3] \in Nat
    <2>1. \A f : Filed(f) => \A k \in DOMAIN f : k[3] \in Nat
      BY <1>2, FiledID
    <2> QED
      BY <1>1, <2>1 DEF AllFiled
  <1>4. /\ \A k \in DOMAIN db : k[3] <= savedID
        /\ up => savedID <= lastID
        /\ \A p \in Producers :
              /\ L(p) <= lastID
              /\ \A w \in W(p) : w[3] <= L(p) /\ savedID <= L(p)
    BY <1>1 DEF Covered, CounterCoversStore
  <1>5. NoBatch.writes = <<>> /\ NoBatch.lastID = 0
    BY DEF NoBatch
  <1>6. ASSUME NEW p \in Producers, NEW b, b.writes = <<>>, b.lastID = 0,
               batches' = [batches EXCEPT ![p] = b]
        PROVE  \A q \in Producers : W(q)' = {} /\ L(q)' = 0
    <2>1. batches'[p] = b
      BY <1>1, <1>6, ResetBatch
    <2>2. \A q \in Producers : q = p
      BY DEF OneStream
    <2> QED
      BY <1>6, <2>1, <2>2
  <1> DEFINE Goal == /\ \A k \in DOMAIN db' : k[3] <= savedID'
                     /\ up' => savedID' <= lastID'
                     /\ \A p \in Producers :
                           /\ L(p)' <= lastID'
                           /\ \A w \in W(p)' : w[3] <= L(p)' /\ savedID' <= L(p)'
  <1>7. SUFFICES Goal
    BY DEF Covered, CounterCoversStore
  <1> HIDE DEF W, L
  <1>8. ASSUME NEW p \in Producers, NEW n \in Times, NewBatch(p, n)
        PROVE  Goal
    <2>1. /\ [NoBatch EXCEPT !.open = TRUE, !.nowMs = n].writes = <<>>
          /\ [NoBatch EXCEPT !.open = TRUE, !.nowMs = n].lastID = 0
      BY DEF NoBatch
    <2>2. \A q \in Producers : W(q)' = {} /\ L(q)' = 0
      BY <1>6, <1>8, <2>1 DEF NewBatch
    <2>3. UNCHANGED <<up, db, savedID, lastID>>
      BY <1>8 DEF NewBatch
    <2> QED
      BY <1>2, <1>4, <2>2, <2>3
  <1>9. ASSUME NEW p \in Producers, NEW t \in Topics, NEW d \in Delays, StoreWithBatch(p, t, d)
        PROVE  Goal
    <2>1. PICK msg, key : StoredAs(p, msg, key)
      BY <1>1, <1>9, StoreStep
    <2>2. key[3] = lastID + 1
      BY <2>1, KeyID DEF StoredAs
    <2>3. W(p)' = W(p) \cup {key} /\ L(p)' = lastID + 1 /\ \A q \in Producers : q = p
      BY <1>1, <2>1, StoredBatch DEF W, L, OneStream
    <2>4. up /\ lastID' = lastID + 1 /\ UNCHANGED <<up, db, savedID>>
      BY <2>1 DEF StoredAs
    <2>5. \A w \in W(p)' : w[3] <= lastID + 1
      BY <1>2, <1>3, <1>4, <2>2, <2>3
    <2> QED
      BY <1>2, <1>4, <2>3, <2>4, <2>5
  <1>10. ASSUME NEW p \in Producers, CommitBatch(p)
         PROVE  Goal
    <2>1. \A q \in Producers : W(q)' = {} /\ L(q)' = 0
      BY <1>5, <1>6, <1>10 DEF CommitBatch
    <2>2. /\ W(p) # {} /\ savedID' = L(p) /\ DOMAIN db' = DOMAIN db \cup W(p)
          /\ UNCHANGED <<up, lastID>>
      BY <1>10 DEF CommitBatch, W, L
    <2>3. savedID <= L(p) /\ L(p) <= lastID
      BY <1>4, <2>2
    <2>4. \A k \in DOMAIN db' : k[3] <= L(p)
      BY <1>2, <1>3, <1>4, <2>2, <2>3
    <2> QED
      BY <1>2, <2>1, <2>2, <2>3, <2>4
  <1>11. ASSUME NEW p \in Producers, AbortBatch(p)
         PROVE  Goal
    <2>1. \A q \in Producers : W(q)' = {} /\ L(q)' = 0
      BY <1>5, <1>6, <1>11 DEF AbortBatch
    <2>2. UNCHANGED <<up, db, savedID, lastID>>
      BY <1>11 DEF AbortBatch
    <2> QED
      BY <1>2, <1>4, <2>1, <2>2
  <1>12. ASSUME NEW k \in DOMAIN db, DeleteWithBatch(k)
         PROVE  Goal
    <2>1. \A q \in Producers : W(q)' = W(q) /\ L(q)' = L(q)
      BY <1>12 DEF DeleteWithBatch, W, L
    <2>2. DOMAIN db' \subseteq DOMAIN db /\ UNCHANGED <<up, savedID, lastID>>
      BY <1>12 DEF DeleteWithBatch, Restrict
    <2> QED
      BY <1>4, <2>1, <2>2
  <1>13. ASSUME Crash
         PROVE  Goal
    <2>1. \A q \in Producers : W(q)' = {} /\ L(q)' = 0
      BY <1>5, <1>13 DEF Crash, W, L
    <2>2. ~up' /\ lastID' = 0 /\ UNCHANGED <<db, savedID>>
      BY <1>13 DEF Crash
    <2> QED
      BY <1>4, <2>1, <2>2
  <1>14. ASSUME NewEventRepository
         PROVE  Goal
    <2>1. \A q \in Producers : W(q)' = {} /\ L(q)' = 0
      BY <1>1, <1>5, <1>14 DEF NewEventRepository, Stopped, W, L
    <2>2. lastID' = savedID /\ UNCHANGED <<db, savedID>>
      BY <1>14 DEF NewEventRepository
    <2> QED
      BY <1>2, <1>4, <2>1, <2>2
  <1>15. ASSUME UNCHANGED vars
         PROVE  Goal
    <2>1. /\ \A q \in Producers : W(q)' = W(q) /\ L(q)' = L(q)
          /\ UNCHANGED <<up, db, savedID, lastID>>
      BY <1>15 DEF vars, W, L
    <2> QED
      BY <1>4, <2>1
  <1> HIDE DEF Goal
  <1> QED
    BY <1>8, <1>9, <1>10, <1>11, <1>12, <1>13, <1>14, <1>15 DEF Next

(* A committed message leaves the store only through the deleter. *)
LEMMA KeptStep ==
  ASSUME Inv, [Next]_vars
  PROVE  Kept'
  <1> DEFINE Trusted == crashes = 0 \/ OneStream
  <1>1. TypeOK /\ Stopped /\ IDsUsed /\ (Trusted => NoOverwrite) /\ crashes \in Nat
    BY DEF Inv, Kept, TypeOK
  <1>2. SUFFICES ASSUME Trusted' PROVE NoOverwrite'
    BY DEF Kept
  <1>3. ASSUME crashes' = crashes, UNCHANGED <<db, committed, deleted>>
        PROVE  NoOverwrite'
    BY <1>1, <1>2, <1>3 DEF NoOverwrite, OneStream
  <1>4. ASSUME NEW p \in Producers, CommitBatch(p)
        PROVE  NoOverwrite'
    <2> DEFINE w == batches[p].writes
    <2>1. /\ db' = [k \in DOMAIN db \cup DOMAIN w |-> IF k \in DOMAIN w THEN w[k] ELSE db[k]]
          /\ committed' = committed \cup Range(w) /\ deleted' = deleted
      BY <1>4 DEF CommitBatch
    <2>2. up /\ Trusted
      BY <1>2, <1>4 DEF CommitBatch, OneStream
    <2>3. \A k \in DOMAIN w : k \notin DOMAIN db
      BY <1>1, <2>2 DEF IDsUsed
    <2>4. committed \ deleted \subseteq Range(db)
      BY <1>1, <2>2 DEF NoOverwrite
    <2> HIDE DEF w
    <2>5. Range(db) \subseteq Range(db')
      BY <2>1, <2>3 DEF Range
    <2>6. Range(w) \subseteq Range(db')
      BY <2>1 DEF Range
    <2> QED
      BY <2>1, <2>4, <2>5, <2>6 DEF NoOverwrite
  <1>5. ASSUME NEW k \in DOMAIN db, DeleteWithBatch(k)
        PROVE  NoOverwrite'
    <2>1. Trusted
      BY <1>2, <1>5 DEF DeleteWithBatch, OneStream
    <2>2. committed \ deleted \subseteq Range(db)
      BY <1>1, <2>1 DEF NoOverwrite
    <2> QED
      BY <1>5, <2>2 DEF DeleteWithBatch, NoOverwrite, Range, Restrict
  <1>6. ASSUME Crash
        PROVE  NoOverwrite'
    <2>1. OneStream
      BY <1>1, <1>2, <1>6 DEF Crash
    <2> QED
      BY <1>1, <1>6, <2>1 DEF Crash, NoOverwrite
  <1>7. ASSUME NEW p \in Producers, NEW n \in Times, NewBatch(p, n)
        PROVE  NoOverwrite'
    BY <1>3, <1>7 DEF NewBatch
  <1>8. ASSUME NEW p \in Producers, NEW t \in Topics, NEW d \in Delays, StoreWithBatch(p, t, d)
        PROVE  NoOverwrite'
    BY <1>3, <1>8 DEF StoreWithBatch
  <1>9. ASSUME NEW p \in Producers, AbortBatch(p)
        PROVE  NoOverwrite'
    BY <1>3, <1>9 DEF AbortBatch
  <1>10. ASSUME NewEventRepository
         PROVE  NoOverwrite'
    BY <1>3, <1>10 DEF NewEventRepository
  <1>11. ASSUME UNCHANGED vars
         PROVE  NoOverwrite'
    BY <1>3, <1>11 DEF vars
  <1> QED
    BY <1>4, <1>5, <1>6, <1>7, <1>8, <1>9, <1>10, <1>11 DEF Next

(* The invariant of the repository holds throughout. *)
THEOREM InvCorrect == Spec => []Inv
  <1>1. ASSUME Inv, [Next]_vars PROVE Inv'
    BY <1>1, TypeStep, FiledStep, StoppedStep, IDsUsedStep, CoveredStep, KeptStep DEF Inv
  <1> QED
    BY <1>1, InitInv, PTL DEF Spec
-----------------------------------------------------------------------------
(* Keys and buckets. *)
(* A time whose quotient is not above that of n is less than one divisor   *)
(* later than n.                                                           *)
LEMMA DivEarly ==
  ASSUME NEW f \in Nat, NEW n \in Nat, NEW d \in Nat, d > 0,
         f \div d <= n \div d
  PROVE  f < n + d
  OBVIOUS

(* Integer division is monotonic. *)
LEMMA DivMono ==
  ASSUME NEW f \in Nat, NEW n \in Nat, NEW d \in Nat, d > 0,
         f <= n
  PROVE  f \div d <= n \div d
  OBVIOUS

(* A bucket is a number. *)
LEMMA BucketType ==
  ASSUME NEW f \in Nat, NEW d \in Nat
  PROVE  CalculateBucket(f, d) \in Nat
  <1>1. CASE f > 0 /\ d > 0
    <2>1. f \div d \in Nat
      BY <1>1
    <2> QED
      BY <1>1, <2>1 DEF CalculateBucket
  <1>2. CASE ~(f > 0 /\ d > 0)
    BY <1>2 DEF CalculateBucket
  <1> QED
    BY <1>1, <1>2

(* CalculateBucket is monotonic in the time: a later fire time never gets  *)
(* an earlier bucket.                                                      *)
LEMMA BucketMono ==
  ASSUME NEW f \in Nat, NEW n \in Nat, NEW d \in Nat, f <= n
  PROVE  CalculateBucket(f, d) <= CalculateBucket(n, d)
  <1>1. CASE f = 0
    BY <1>1 DEF CalculateBucket
  <1>2. CASE d = 0
    BY <1>2 DEF CalculateBucket
  <1>3. CASE f > 0 /\ d > 0
    BY <1>3, DivMono DEF CalculateBucket
  <1> QED
    BY <1>1, <1>2, <1>3

(* A bucket is not above its time. *)
LEMMA BucketBound ==
  ASSUME NEW f \in Nat, NEW d \in Nat
  PROVE  CalculateBucket(f, d) <= f
  <1>1. CASE f > 0 /\ d > 0
    <2>1. f \div d <= f
      BY <1>1
    <2> QED
      BY <1>1, <2>1 DEF CalculateBucket
  <1>2. CASE ~(f > 0 /\ d > 0)
    BY <1>2 DEF CalculateBucket
  <1> QED
    BY <1>1, <1>2

(* A message whose bucket is not after the bucket of n is due less than    *)
(* one bucket width after n: what "due" means to the dispatcher's scan.    *)
LEMMA BucketEarly ==
  ASSUME NEW f \in Nat, NEW n \in Nat, NEW d \in Nat,
         CalculateBucket(f, d) <= CalculateBucket(n, d)
  PROVE  f < n + (IF d = 0 THEN 1 ELSE d)
  <1>1. CASE d = 0
    BY <1>1 DEF CalculateBucket
  <1>2. CASE d > 0
    <2>1. f > 0 => f \div d <= n \div d
      <3>1. CASE n = 0
        <4>1. 0 \div d = 0
          BY <1>2
        <4> QED
          BY <1>2, <3>1, <4>1 DEF CalculateBucket
      <3>2. CASE n > 0
        BY <1>2, <3>2 DEF CalculateBucket
      <3> QED
        BY <3>1, <3>2
    <2> QED
      BY <1>2, <2>1, DivEarly
  <1> QED
    BY <1>1, <1>2

(* The dispatcher's scan from TopicLowerBound to DueUpperBound yields the  *)
(* keys of the topic whose bucket is at most the current one, and no key   *)
(* of another topic, as long as the bucket after the current one is a      *)
(* word (DueUpperBound adds one to it).                                    *)
THEOREM DueScanRange ==
  ASSUME NEW h \in Word, NEW nb \in Word, nb + 1 \in Word,
         NEW th \in Word, NEW b \in Word, NEW id \in Word
  PROVE  InScanRange(EventKey(b, th, id), TopicLowerBound(h), DueUpperBound(h, nb))
            <=> th = h /\ b <= nb
  BY WordModAssumption DEF InScanRange, EventKey, TopicLowerBound, DueUpperBound, KeyLess, IncUint64, Word

(* Without overflow, the time of delivery is the sum. *)
LEMMA AddExact ==
  ASSUME NEW a \in Nat, NEW b \in Nat, a + b < HalfMod
  PROVE  AddInt64(a, b) = a + b
  <1>1. HalfMod \in Nat /\ 2 * HalfMod = WordMod /\ WordMod \in Nat /\ WordMod > 0
    BY WordModAssumption DEF HalfMod
  <1>2. a + b + HalfMod \in 0 .. WordMod - 1
    BY <1>1
  <1>3. (a + b + HalfMod) % WordMod = a + b + HalfMod
    BY <1>1, <1>2
  <1> QED
    BY <1>1, <1>3 DEF AddInt64

(* A message in the store is in the scan of its topic exactly when its     *)
(* bucket has come.                                                        *)
LEMMA ScanIsBucket ==
  ASSUME NoOverflow, Inv, NEW t \in Topics, NEW n \in Times, NEW k \in DOMAIN db
  PROVE  /\ FireAt(db[k]) \in Nat /\ sent[db[k]].topic \in Topics
         /\ k \in DueScan(t, n) <=>
               /\ sent[db[k]].topic = t
               /\ CalculateBucket(FireAt(db[k]), BucketMs) <= CalculateBucket(n, BucketMs)
  <1> DEFINE msg  == sent[db[k]]
             fire == msg.enq + msg.delay
             b    == CalculateBucket(fire, BucketMs)
             nb   == CalculateBucket(n, BucketMs)
  <1>1. /\ db[k] \in DOMAIN sent /\ sent \in Seq(Message) /\ Len(sent) <= MaxMessages
        /\ Len(sent) \in Nat
    BY DEF Inv, TypeOK, AllFiled, Filed
  <1>2. PICK id \in 1 .. Len(sent) : k = KeyOf(msg, id)
    BY DEF Inv, AllFiled, Filed
  <1>3. msg \in Message
    BY <1>1
  <1>4. /\ msg.topic \in Topics /\ msg.enq \in Times /\ msg.delay \in Delays
        /\ msg.enq \in Nat /\ msg.delay \in Nat /\ n \in Nat
    BY <1>3, RepositoryAssumption DEF Message
  <1> HIDE DEF msg
  <1>5. fire \in Nat /\ fire < HalfMod /\ n < HalfMod /\ AddInt64(msg.enq, msg.delay) = fire
    BY <1>4, AddExact DEF NoOverflow
  <1>6. HalfMod \in Nat /\ HalfMod + 2 <= WordMod /\ WordMod \in Nat
    BY WordModAssumption DEF HalfMod
  <1> HIDE DEF fire
  <1>7. b \in Nat /\ nb \in Nat /\ b <= fire /\ nb <= n
    BY <1>4, <1>5, RepositoryAssumption, BucketType, BucketBound
  <1>8. k = EventKey(b, TopicHash[msg.topic], id)
    BY <1>2, <1>5 DEF KeyOf
  <1> HIDE DEF b, nb
  <1>9. b \in Word /\ nb \in Word /\ nb + 1 \in Word /\ id \in Word
    BY <1>1, <1>4, <1>5, <1>6, <1>7, RepositoryAssumption DEF Word
  <1>10. /\ TopicHash[msg.topic] \in Word /\ TopicHash[t] \in Word
         /\ TopicHash[msg.topic] = TopicHash[t] <=> msg.topic = t
    BY <1>4, RepositoryAssumption
  <1>11. InScanRange(k, TopicLowerBound(TopicHash[t]), DueUpperBound(TopicHash[t], nb))
           <=> TopicHash[msg.topic] = TopicHash[t] /\ b <= nb
    BY <1>8, <1>9, <1>10, DueScanRange, ZenonT(30)
  <1>12. k \in DueScan(t, n) <=> msg.topic = t /\ b <= nb
    BY <1>10, <1>11 DEF DueScan, nb
  <1> QED
    BY <1>4, <1>5, <1>12 DEF FireAt, msg, fire, b, nb
-----------------------------------------------------------------------------
(* One publish stream: no committed message is overwritten, however often  *)
(* the process crashes and reloads its counter (StoreWithBatch,            *)
(* NewEventRepository).                                                    *)
THEOREM StreamKeepsMessages ==
  ASSUME OneStream
  PROVE  Spec => []NoOverwrite
  <1>1. Inv => NoOverwrite
    BY DEF Inv, Kept
  <1> QED
    BY <1>1, InvCorrect, PTL

(* Any number of streams: no committed message is overwritten before the   *)
(* process first stops.                                                    *)
THEOREM RunKeepsMessages == Spec => [](crashes = 0 => NoOverwrite)
  <1>1. Inv => (crashes = 0 => NoOverwrite)
    BY DEF Inv, Kept
  <1> QED
    BY <1>1, InvCorrect, PTL

(* One publish stream: the durable counter covers every key in the store,  *)
(* so that a restart never hands out an ID in use.                         *)
THEOREM StreamCounterCovers ==
  ASSUME OneStream
  PROVE  Spec => []CounterCoversStore
  <1>1. Inv => CounterCoversStore
    BY DEF Inv, Covered
  <1> QED
    BY <1>1, InvCorrect, PTL

(* Messages whose time of delivery fits a signed 64-bit word: the scan of  *)
(* a topic (TopicLowerBound, DueUpperBound) yields none of another topic,  *)
(* all that are due, and none earlier than one bucket width.               *)
THEOREM DueScansOnTime ==
  ASSUME NoOverflow
  PROVE  Spec => []DueScanOnTime
  <1>1. ASSUME Inv PROVE DueScanOnTime
    <2> SUFFICES ASSUME NEW t \in Topics, NEW n \in Times, NEW k \in DOMAIN db
                 PROVE  /\ k \in DueScan(t, n) =>
                              /\ sent[db[k]].topic = t
                              /\ FireAt(db[k]) < n + (IF BucketMs = 0 THEN 1 ELSE BucketMs)
                        /\ sent[db[k]].topic = t /\ FireAt(db[k]) <= n => k \in DueScan(t, n)
      BY DEF DueScanOnTime
    <2> DEFINE fire == FireAt(db[k])
    <2>1. /\ fire \in Nat
          /\ k \in DueScan(t, n) <=>
                /\ sent[db[k]].topic = t
                /\ CalculateBucket(fire, BucketMs) <= CalculateBucket(n, BucketMs)
      BY <1>1, ScanIsBucket
    <2>2. n \in Nat /\ BucketMs \in Nat
      BY RepositoryAssumption
    <2> HIDE DEF fire
    <2>3. CalculateBucket(fire, BucketMs) <= CalculateBucket(n, BucketMs)
             => fire < n + (IF BucketMs = 0 THEN 1 ELSE BucketMs)
      BY <2>1, <2>2, BucketEarly
    <2>4. fire <= n => CalculateBucket(fire, BucketMs) <= CalculateBucket(n, BucketMs)
      BY <2>1, <2>2, BucketMono
    <2> QED
      BY <2>1, <2>3, <2>4 DEF fire
  <1> QED
    BY <1>1, InvCorrect, PTL
=============================================================================
