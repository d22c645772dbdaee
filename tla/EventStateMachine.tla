-------------------------- MODULE EventStateMachine --------------------------
(***************************************************************************)
(* The replicated store of clustered mode: the on-disk state machine of    *)
(* internal/raft/event/statemachine.go on every replica, applying the      *)
(* commands of commands.go, with the event repository that assigns keys.   *)
(*                                                                         *)
(* Dragonboat is taken by what it does to a state machine: it hands every  *)
(* replica the committed log in order, in groups of entries; it stamps a   *)
(* snapshot with the index applied when PrepareSnapshot is called and lets *)
(* SaveSnapshot run beside later updates; it gives a lagging replica a     *)
(* snapshot instead of the entries up to that index; after a restart it    *)
(* goes on from the index that Open returns.                               *)
(*                                                                         *)
(* A message is named by its place in the log, <<index, item>>.  The store *)
(* holds the events, the repository's counter and the applied index.       *)
(* A batch committed with NoSync is visible at once and durable after the  *)
(* next flush; what a crash leaves is the store as of some flush.          *)
(***************************************************************************)
EXTENDS Keys, Functions, FiniteSets

CONSTANTS
    Replicas,
    Slots,         \* <<topic hash, bucket>> of a message
    MaxItems,      \* bound: messages of one StoreBatchCmd
    MaxLog,        \* bound: length of the log
    MaxSnapshots,  \* bound: snapshots streamed; 0 leaves the log alone
    MaxCrashes     \* bound: crashes of replicas

ASSUME StateMachineAssumption ==
    /\ Slots \subseteq Word \X Word
    /\ MaxItems \in Nat \ {0}
    /\ MaxLog \in Nat /\ MaxSnapshots \in Nat /\ MaxCrashes \in Nat

VARIABLES
    log,          \* the committed commands of the shard
    db,           \* replica -> its store as reads see it
    disk,         \* replica -> its store as a crash would leave it
    lastID,       \* replica -> EventRepository.lastID, in memory
    raftApplied,  \* replica -> index up to which Dragonboat has applied the log
    saving,       \* replica -> index of the snapshot being taken, or NotSaving
    snapshots,    \* snapshots taken, on their way to other replicas
    recovering,   \* replica -> snapshot being installed, or NoSnapshot
    installed,    \* history: the replicas whose store came with a snapshot
    crashes

vars == <<log, db, disk, lastID, raftApplied, saving, snapshots, recovering,
          installed, crashes>>

NotSaving == -1

EmptyDB == [events |-> <<>>, lastID |-> 0, applied |-> 0]

NoSnapshot == [index |-> 0, content |-> EmptyDB]

StoreBatchCmd == [type : {"store"}, items : UNION {[1 .. n -> Slots] : n \in 1 .. MaxItems}]

DeleteBatchCmd(keys) == [type |-> "delete", keys |-> keys]

Init ==
    /\ log = <<>>
    /\ db = [r \in Replicas |-> EmptyDB]
    /\ disk = [r \in Replicas |-> EmptyDB]
    /\ lastID = [r \in Replicas |-> 0]
    /\ raftApplied = [r \in Replicas |-> 0]
    /\ saving = [r \in Replicas |-> NotSaving]
    /\ snapshots = {}
    /\ recovering = [r \in Replicas |-> NoSnapshot]
    /\ installed = {}
    /\ crashes = 0
-----------------------------------------------------------------------------
(* StoreRawWithBatch: one item of a store command on a batch in progress:  *)
(* the events and the counter value it will leave, the counter in memory.  *)
StoreRawWithBatch(batch, slot, message) ==
    LET nextID == batch.lastID + 1
        key    == EventKey(slot[2], slot[1], nextID)
    IN  [batch EXCEPT
            !.events  = [k \in DOMAIN @ \cup {key} |-> IF k = key THEN message ELSE @[k]],
            !.savedID = nextID,
            !.lastID  = nextID]

DeleteKeys(batch, keys) ==
    [batch EXCEPT !.events = Restrict(@, DOMAIN @ \ keys)]

ApplyEntry(batch, cmd, index) ==
    LET items[i \in 0 .. Len(cmd.items)] ==
            IF i = 0 THEN batch
            ELSE StoreRawWithBatch(items[i - 1], cmd.items[i], <<index, i>>)
    IN  IF cmd.type = "store" THEN items[Len(cmd.items)]
                              ELSE DeleteKeys(batch, cmd.keys)

(* The batch that Update builds from the entries first .. last. *)
ApplyEntries(entries, store, counter, first, last) ==
    LET upTo[i \in first - 1 .. last] ==
            IF i < first
              THEN [events |-> store.events, savedID |-> store.lastID, lastID |-> counter]
              ELSE ApplyEntry(upTo[i - 1], entries[i], i)
    IN  upTo[last]

(* The store that the batch leaves, with the applied index written last. *)
CommitNoSync(batch, last) ==
    [events |-> batch.events, lastID |-> batch.savedID, applied |-> last]

(* A faulty variant: the last entry waits for the next one. *)
UpdateLagging(r, last) ==
    /\ recovering[r] = NoSnapshot
    /\ last \in raftApplied[r] + 1 .. Len(log) - 1
    /\ \E batch \in {ApplyEntries(log, db[r], lastID[r], raftApplied[r] + 1, last)} :
          /\ db' = [db EXCEPT ![r] = CommitNoSync(batch, last)]
          /\ lastID' = [lastID EXCEPT ![r] = batch.lastID]
    /\ raftApplied' = [raftApplied EXCEPT ![r] = last]
    /\ UNCHANGED <<log, disk, saving, snapshots, recovering, installed,
                   crashes>>

(* Update: the entries and the applied index in one batch, not synced. *)
Update(r, last) ==
    /\ recovering[r] = NoSnapshot
    /\ last \in raftApplied[r] + 1 .. Len(log)
    /\ \E batch \in {ApplyEntries(log, db[r], lastID[r], raftApplied[r] + 1, last)} :
          /\ db' = [db EXCEPT ![r] = CommitNoSync(batch, last)]
          /\ lastID' = [lastID EXCEPT ![r] = batch.lastID]
    /\ raftApplied' = [raftApplied EXCEPT ![r] = last]
    /\ UNCHANGED <<log, disk, saving, snapshots, recovering, installed,
                   crashes>>

(* Sync, or the storage engine flushing by itself. *)
Sync(r) ==
    /\ disk[r] # db[r]
    /\ disk' = [disk EXCEPT ![r] = db[r]]
    /\ UNCHANGED <<log, db, lastID, raftApplied, saving, snapshots, recovering,
                   installed, crashes>>
-----------------------------------------------------------------------------
(* Proposals: producers store messages, the deleter of a leader removes    *)
(* keys that a replica has.                                                *)
ProposeStore(cmd) ==
    /\ Len(log) < MaxLog
    /\ log' = Append(log, cmd)
    /\ UNCHANGED <<db, disk, lastID, raftApplied, saving, snapshots, recovering,
                   installed, crashes>>

ProposeDelete(r, key) ==
    /\ Len(log) < MaxLog
    /\ key \in DOMAIN db[r].events
    /\ log' = Append(log, DeleteBatchCmd({key}))
    /\ UNCHANGED <<db, disk, lastID, raftApplied, saving, snapshots, recovering,
                   installed, crashes>>
-----------------------------------------------------------------------------
(* Snapshots. *)
PrepareSnapshot(r) ==
    /\ Cardinality(snapshots) < MaxSnapshots
    /\ recovering[r] = NoSnapshot
    /\ saving[r] = NotSaving
    /\ raftApplied[r] > 0
    /\ saving' = [saving EXCEPT ![r] = raftApplied[r]]
    /\ UNCHANGED <<log, db, disk, lastID, raftApplied, snapshots, recovering,
                   installed, crashes>>

(* A faulty variant: the snapshot is stamped with the end of the log. *)
SaveSnapshotStampedLate(r) ==
    /\ saving[r] # NotSaving
    /\ snapshots' = snapshots \cup {[index |-> Len(log), content |-> db[r]]}
    /\ saving' = [saving EXCEPT ![r] = NotSaving]
    /\ UNCHANGED <<log, db, disk, lastID, raftApplied, recovering, installed,
                   crashes>>

(* Everything in the store now, whatever PrepareSnapshot returned. *)
SaveSnapshot(r) ==
    /\ saving[r] # NotSaving
    /\ snapshots' = snapshots \cup {[index |-> saving[r], content |-> db[r]]}
    /\ saving' = [saving EXCEPT ![r] = NotSaving]
    /\ UNCHANGED <<log, db, disk, lastID, raftApplied, recovering, installed,
                   crashes>>

(* RecoverFromSnapshot, first batch: clearDB. *)
ClearDB(r, s) ==
    /\ recovering[r] = NoSnapshot
    /\ saving[r] = NotSaving
    /\ s.index > raftApplied[r]
    /\ recovering' = [recovering EXCEPT ![r] = s]
    /\ db' = [db EXCEPT ![r] = EmptyDB]
    /\ UNCHANGED <<log, disk, lastID, raftApplied, saving, snapshots, installed,
                   crashes>>

(* RecoverFromSnapshot, second batch.  It is committed with Sync, which    *)
(* makes it durable only if the store has a WAL.  The repository is not    *)
(* told.  If it fails, Dragonboat stops the replica (Restart).             *)
RecoverFromSnapshot(r) ==
    /\ recovering[r] # NoSnapshot
    /\ db' = [db EXCEPT ![r] = recovering[r].content]
    /\ disk' \in {disk, [disk EXCEPT ![r] = recovering[r].content]}
    /\ raftApplied' = [raftApplied EXCEPT ![r] = recovering[r].index]
    /\ recovering' = [recovering EXCEPT ![r] = NoSnapshot]
    /\ installed' = installed \cup {r}
    /\ UNCHANGED <<log, lastID, saving, snapshots, crashes>>
-----------------------------------------------------------------------------
(* A faulty variant: the counter keeps running instead of being read back. *)
RestartUncounted(r) ==
    /\ crashes < MaxCrashes
    /\ crashes' = crashes + 1
    /\ db' = [db EXCEPT ![r] = disk[r]]
    /\ raftApplied' = [raftApplied EXCEPT ![r] = disk[r].applied]
    /\ saving' = [saving EXCEPT ![r] = NotSaving]
    /\ recovering' = [recovering EXCEPT ![r] = NoSnapshot]
    /\ UNCHANGED <<log, disk, lastID, snapshots, installed>>

(* A replica stops and starts, perhaps between the batches of              *)
(* RecoverFromSnapshot: NewEventRepository reads the counter, Open the     *)
(* applied index.                                                          *)
Restart(r) ==
    /\ crashes < MaxCrashes
    /\ crashes' = crashes + 1
    /\ db' = [db EXCEPT ![r] = disk[r]]
    /\ lastID' = [lastID EXCEPT ![r] = disk[r].lastID]
    /\ raftApplied' = [raftApplied EXCEPT ![r] = disk[r].applied]
    /\ saving' = [saving EXCEPT ![r] = NotSaving]
    /\ recovering' = [recovering EXCEPT ![r] = NoSnapshot]
    /\ UNCHANGED <<log, disk, snapshots, installed>>

Next ==
    \/ \E cmd \in StoreBatchCmd : ProposeStore(cmd)
    \/ \E r \in Replicas : \E key \in DOMAIN db[r].events : ProposeDelete(r, key)
    \/ \E r \in Replicas, last \in 1 .. MaxLog : Update(r, last)
    \/ \E r \in Replicas : Sync(r)
    \/ \E r \in Replicas : PrepareSnapshot(r)
    \/ \E r \in Replicas : SaveSnapshot(r)
    \/ \E r \in Replicas : \E s \in snapshots : ClearDB(r, s)
    \/ \E r \in Replicas : RecoverFromSnapshot(r)
    \/ \E r \in Replicas : Restart(r)

Spec == Init /\ [][Next]_vars

(* Dragonboat keeps handing committed entries to a running replica, and    *)
(* finishes installing a snapshot.                                         *)
FairSpec ==
    /\ Spec
    /\ \A r \in Replicas :
          /\ WF_vars(\E last \in 1 .. MaxLog : Update(r, last))
          /\ WF_vars(RecoverFromSnapshot(r))
-----------------------------------------------------------------------------
(* What the log alone determines: the store after its first n entries. *)
Replay(n) == CommitNoSync(ApplyEntries(log, EmptyDB, 0, 1, n), n)

(* A replica's store is a function of the prefix of the log it has         *)
(* applied, however Update grouped the entries and wherever a crash cut    *)
(* off what was not yet flushed: counter, index and events move together.  *)
(* A store that came with a snapshot taken beside updates need not be.     *)
StoreIsLogPrefix ==
    \A r \in Replicas \ installed : db[r] = Replay(db[r].applied)

(* A snapshot never makes a replica miss an entry: what Dragonboat takes   *)
(* to be applied is in the store, also when updates ran beside             *)
(* SaveSnapshot or a crash hit a half-installed snapshot.                  *)
NoEntrySkipped ==
    \A r \in Replicas : recovering[r] = NoSnapshot => raftApplied[r] <= db[r].applied

(* Every replica applies the whole log, whatever crashes undo of it. *)
CatchesUp ==
    \A r \in Replicas : <>[](db[r].applied = Len(log))

(* "Consistent monotonic IDs" (StoreBatchCmd): the repository's next ID is *)
(* above every ID in the store it assigns keys for.                        *)
IDsMonotonic ==
    \A r \in Replicas : recovering[r] = NoSnapshot =>
        \A k \in DOMAIN db[r].events : k[3] <= lastID[r]
=============================================================================
