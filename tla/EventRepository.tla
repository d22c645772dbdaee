--------------------------- MODULE EventRepository ---------------------------
(***************************************************************************)
(* The event repository of internal/repository/events.go over the storage  *)
(* engine, driven by the standalone write path of the producer handler     *)
(* (processBatch, marshalMessages, processStandaloneBatch) and restarted   *)
(* by NewEventRepository.                                                   *)
(*                                                                         *)
(* Every publish stream has its own goroutine and its own storage batch;   *)
(* they share lastID, an atomic counter.  A batch is private until it is   *)
(* committed, and a commit is atomic and durable (Sync).                   *)
(*                                                                         *)
(* A message is named by its position in "sent", which records what the    *)
(* producer asked for; the payload and the index entries (written with the *)
(* message and read by nothing in src/) are left out.                      *)
(***************************************************************************)
EXTENDS Keys, Functions, FiniteSets

CONSTANTS
    Producers,    \* the publish streams
    Topics,       \* topic names
    TopicHash,    \* topic -> 64-bit word (xxhash64)
    BucketMs,     \* storage.timeBucketSize in milliseconds, 0 after validation if < 1ms
    Times,        \* wall-clock readings
    Delays,       \* delays a message may ask for
    MaxMessages,  \* bound: messages handed to StoreWithBatch
    MaxCrashes    \* bound: process crashes

ASSUME RepositoryAssumption ==
    /\ TopicHash \in [Topics -> Word]
    /\ \A s, t \in Topics : TopicHash[s] = TopicHash[t] => s = t
    /\ BucketMs \in Nat
    /\ Times \subseteq Nat /\ Delays \subseteq Nat
    /\ MaxMessages \in Nat /\ MaxMessages < WordMod
    /\ MaxCrashes \in Nat

VARIABLES
    up,        \* the process is running
    lastID,    \* EventRepository.lastID (volatile)
    savedID,   \* value under "metadata/event-repo/last-id" (durable), 0 if absent
    db,        \* event key -> message (durable)
    batches,   \* producer -> its open storage batch
    sent,      \* history: the messages, in the order they took their IDs
    committed, \* history: messages whose batch was committed
    deleted,   \* history: messages removed by the deleter
    crashes

vars == <<up, lastID, savedID, db, batches, sent, committed, deleted, crashes>>

Message == [topic : Topics, enq : Times, delay : Delays]

(* No batch: nothing written, no counter value written. *)
NoBatch == [open |-> FALSE, nowMs |-> 0, writes |-> <<>>, lastID |-> 0]

(* f with k mapped to v. *)
Put(f, k, v) == [x \in DOMAIN f \cup {k} |-> IF x = k THEN v ELSE f[x]]

Init ==
    /\ up = TRUE
    /\ lastID = 0
    /\ savedID = 0
    /\ db = <<>>
    /\ batches = [p \in Producers |-> NoBatch]
    /\ sent = <<>>
    /\ committed = {}
    /\ deleted = {}
    /\ crashes = 0
-----------------------------------------------------------------------------
(* processBatch: one wall-clock reading for the whole batch.               *)
NewBatch(p, nowMs) ==
    /\ up
    /\ ~batches[p].open
    /\ batches' = [batches EXCEPT ![p] = [NoBatch EXCEPT !.open = TRUE, !.nowMs = nowMs]]
    /\ UNCHANGED <<up, lastID, savedID, db, sent, committed, deleted, crashes>>

(* A faulty variant: the counter is left out of the batch. *)
StoreWithoutCounter(p, topic, delay) ==
    /\ up
    /\ batches[p].open
    /\ Len(sent) < MaxMessages
    /\ LET msg    == [topic |-> topic, enq |-> batches[p].nowMs, delay |-> delay]
           nextID == lastID + 1
           bucket == CalculateBucket(AddInt64(msg.enq, msg.delay), BucketMs)
           key    == EventKey(bucket, TopicHash[topic], nextID)
       IN  /\ lastID' = nextID
           /\ sent' = Append(sent, msg)
           /\ batches' = [batches EXCEPT ![p].writes = Put(@, key, Len(sent) + 1)]
    /\ UNCHANGED <<up, savedID, db, committed, deleted, crashes>>

(* One message of the batch: take the next ID, write the counter and the   *)
(* message into the batch.                                                 *)
StoreWithBatch(p, topic, delay) ==
    /\ up
    /\ batches[p].open
    /\ Len(sent) < MaxMessages
    /\ LET msg    == [topic |-> topic, enq |-> batches[p].nowMs, delay |-> delay]
           nextID == lastID + 1
           bucket == CalculateBucket(AddInt64(msg.enq, msg.delay), BucketMs)
           key    == EventKey(bucket, TopicHash[topic], nextID)
       IN  /\ lastID' = nextID
           /\ sent' = Append(sent, msg)
           /\ batches' = [batches EXCEPT
                  ![p].lastID = nextID,
                  ![p].writes = Put(@, key, Len(sent) + 1)]
    /\ UNCHANGED <<up, savedID, db, committed, deleted, crashes>>

(* The batch is committed: its writes and its counter value become         *)
(* durable together.  A publish without messages opens no batch.           *)
CommitBatch(p) ==
    /\ up
    /\ batches[p].open
    /\ DOMAIN batches[p].writes # {}
    /\ LET b == batches[p]
       IN  /\ db' = [k \in DOMAIN db \cup DOMAIN b.writes |->
                        IF k \in DOMAIN b.writes THEN b.writes[k] ELSE db[k]]
           /\ savedID' = b.lastID
           /\ committed' = committed \cup Range(b.writes)
    /\ batches' = [batches EXCEPT ![p] = NoBatch]
    /\ UNCHANGED <<up, lastID, sent, deleted, crashes>>

(* The batch is closed without a commit: a message with a negative delay   *)
(* or TTL, a marshalling error or a failed commit.                         *)
AbortBatch(p) ==
    /\ up
    /\ batches[p].open
    /\ batches' = [batches EXCEPT ![p] = NoBatch]
    /\ UNCHANGED <<up, lastID, savedID, db, sent, committed, deleted, crashes>>

(* The deleter removes a key it was given. *)
DeleteWithBatch(key) ==
    /\ up
    /\ key \in DOMAIN db
    /\ db' = Restrict(db, DOMAIN db \ {key})
    /\ deleted' = deleted \cup {db[key]}
    /\ UNCHANGED <<up, lastID, savedID, batches, sent, committed, crashes>>

Crash ==
    /\ up
    /\ crashes < MaxCrashes
    /\ up' = FALSE
    /\ lastID' = 0
    /\ batches' = [p \in Producers |-> NoBatch]
    /\ crashes' = crashes + 1
    /\ UNCHANGED <<savedID, db, sent, committed, deleted>>

(* A faulty variant: the saved value is not read. *)
NewEventRepositoryZero ==
    /\ ~up
    /\ up' = TRUE
    /\ lastID' = 0
    /\ UNCHANGED <<savedID, db, batches, sent, committed, deleted, crashes>>

(* Restart: the counter is reloaded from storage. *)
NewEventRepository ==
    /\ ~up
    /\ up' = TRUE
    /\ lastID' = savedID
    /\ UNCHANGED <<savedID, db, batches, sent, committed, deleted, crashes>>

Next ==
    \/ \E p \in Producers, n \in Times : NewBatch(p, n)
    \/ \E p \in Producers, t \in Topics, d \in Delays : StoreWithBatch(p, t, d)
    \/ \E p \in Producers : CommitBatch(p)
    \/ \E p \in Producers : AbortBatch(p)
    \/ \E key \in DOMAIN db : DeleteWithBatch(key)
    \/ Crash
    \/ NewEventRepository

Spec == Init /\ [][Next]_vars
-----------------------------------------------------------------------------
(* A faulty variant: the upper bound is the current bucket, exclusive. *)
DueScanShort(topic, nowMs) ==
    LET h == TopicHash[topic]
    IN  {k \in DOMAIN db :
            InScanRange(k, TopicLowerBound(h),
                        <<h, CalculateBucket(nowMs, BucketMs)>>)}

(* dispatchTopic's range scan: the keys of the topic up to the current     *)
(* bucket.                                                                 *)
DueScan(topic, nowMs) ==
    LET h == TopicHash[topic]
    IN  {k \in DOMAIN db :
            InScanRange(k, TopicLowerBound(h),
                        DueUpperBound(h, CalculateBucket(nowMs, BucketMs)))}

(* The time a message asked to be delivered at, without wrap-around. *)
FireAt(m) == sent[m].enq + sent[m].delay

(* No committed message is ever lost to another one: until the deleter     *)
(* removes it, a message whose batch was committed is still in storage.    *)
(* An ID handed out twice for one (topic, bucket) would overwrite the      *)
(* earlier message (StoreWithBatch, NewEventRepository).                   *)
NoOverwrite == committed \ deleted \subseteq Range(db)

(* The durable counter covers every stored key, so that a restart          *)
(* (NewEventRepository) cannot hand out an ID that is in use.              *)
CounterCoversStore == \A k \in DOMAIN db : k[3] <= savedID

(* The key layout and the scan bounds together deliver on time: the scan   *)
(* of a topic never yields another topic's message, yields every message   *)
(* whose time has come, and is early by less than one bucket               *)
(* (StoreWithBatch against TopicLowerBound, DueUpperBound).                *)
DueScanOnTime ==
    \A t \in Topics, n \in Times, k \in DOMAIN db :
        LET m == db[k]
        IN  /\ k \in DueScan(t, n) =>
                  /\ sent[m].topic = t
                  /\ FireAt(m) < n + (IF BucketMs = 0 THEN 1 ELSE BucketMs)
            /\ sent[m].topic = t /\ FireAt(m) <= n => k \in DueScan(t, n)

=============================================================================
