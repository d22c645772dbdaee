# FutureQ: TLA+ specifications and proofs

FutureQ is a broker for delayed messages. A producer publishes a message with a
delay and an optional TTL; the broker stores it, hands it to the consumers of its
topic once the delay is over, and removes it when a consumer acknowledges it or
its TTL ends. A node runs standalone over an embedded store, or in a cluster that
replicates the store with Raft (Dragonboat).

This directory models the write path, the delivery path, the replicated store, the
cluster across failovers, the metadata group, joining and leaving, and the shutdown
of a process. TLC checks small instances; TLAPS proves the safety properties and the
refinements for all values of the constants. What is not modelled is listed
at the end.

## The system

| Part | Source | State | Operations | Talks to |
|---|---|---|---|---|
| Key layout | `pkg/utils/keys.go` | none | buckets, event keys, scan bounds | repository, dispatcher |
| Event repository | `internal/repository/events.go` | ID counter in memory and in the store | `StoreWithBatch`, `StoreRawWithBatch`, restart | storage |
| Producer handler | `handlers/producer.go` | one batch per stream | standalone commit, Raft proposal | repository, Raft |
| Dispatcher | `dispatcher/dispatcher.go` | in-flight map | pass, topic scan, send, expiry | storage, hub, deleter |
| Hub | `dispatcher/hub.go` | topic map, ID map, round-robin counters, per-consumer lists, channels | register, unregister, dispatch | dispatcher, consumer handler |
| Consumer handler | `handlers/consumer.go` | one stream per consumer | subscribe, sender, receiver | hub, deleter |
| Deleter | `dispatcher/deleter.go` | pending keys | mark, flush, final flush | storage or Raft, dispatcher |
| TTL janitor | `dispatcher/janitor.go` | none between sweeps | sweep | storage, deleter |
| Event state machine | `internal/raft/event/` | store, applied index | update, snapshot, recover, open | repository, storage, Dragonboat |
| Storage | `internal/storage/` | the data | batch, scan, flush | everyone |
| Metadata group | `pkg/raft/metadata/` | topology, registry of gRPC addresses, epochs | listener calls, publish, register, update, snapshot, look up | Dragonboat |
| Membership | `handlers/cluster.go`, `cmd/futureq/start.go`, `leave.go` | Raft membership | join, leave, join flow over the seeds | both Raft groups |
| Lifecycle | `internal/app/app.go`, `cmd/futureq/start.go`, `grpc/setup.go` | contexts, handles | start, graceful shutdown | everyone |
| Configuration, metrics, logging, CLI | `internal/config`, `internal/metrics`, `pkg/log` | none | | |

What makes it hard: every box above runs in goroutines of its own, and nearly
every operation consists of several critical sections. The dispatcher works on a
snapshot of the store, a copy of the subscriptions and one clock reading, all of
which are old by the time it sends; a message is sent before it is tracked; the
deleter removes keys later than they are acknowledged and may fail; publish
streams share one ID counter and commit in any order; replicas group the log
differently, lose unflushed batches and install snapshots taken beside updates.
In a cluster a proposal whose caller gave up may still commit, a leader that was
replaced may not know it, and acknowledgements wait in the memory of one node. Two
Raft groups change their membership one request at a time. At shutdown all of this
has to come to rest before the store is closed.

What should hold: no message is lost before it is acknowledged or expires; none is
delivered before its time, as long as buckets are no wider than a millisecond, the
default; none that a consumer still has is delivered again before the in-flight
timeout; acknowledged and expired messages are removed; replicas agree; what a producer, a
joining node or a leaving node was told stays true; a process that is told to stop
does, and flushes what it has acknowledged.

`PROJECT.json` lists the hazards one by one with the properties that cover them.

## Modules

| Module | Models | Notes |
|---|---|---|
| `Keys` | key layout, bucket arithmetic, scan bounds | words are numbers below `WordMod`, so overflow wraps as in the code |
| `EventRepository` | ID counter, publish streams, commits, crashes | uses `Keys` |
| `Subscriptions` | topic subscription, topic map, round robin, as values | used by `Broker` and `Hub` |
| `DeleteQueue` | what the deleter promises: queues as sets | abstract specification |
| `AtLeastOnce` | what the broker promises: messages are kept until settled | abstract specification |
| `Deleter` | the deleter with its slices, loop and final flush | implements `DeleteQueue` |
| `Broker` | dispatcher, hub, consumer handlers, deleter, janitor of a standalone node | composition; EXTENDS `Keys`, `Subscriptions`, `DeleteQueue`; implements `AtLeastOnce` |
| `Hub` | the hub alone, with its per-consumer lists and both locks | |
| `EventStateMachine` | the replicated store on all replicas | uses `Keys` |
| `Cluster` | producer, consumer, dispatcher, janitor, deleter on every node, over a replicated log | composition; implements `AtLeastOnce` |
| `Metadata` | topology publishing, registry, state machine and snapshots of the metadata group | |
| `Membership` | join and leave over both Raft groups, join flow, crashes | |
| `Lifecycle` | the goroutines of a process and its graceful shutdown | composition; EXTENDS `Deleter` |
| `EventRepositoryProofs`, `BrokerProofs`, `HubProofs`, `EventStateMachineProofs`, `ClusterProofs`, `MetadataProofs`, `MembershipProofs`, `LifecycleProofs` | theorems | each EXTENDS its component; those on `Keys` are in `EventRepositoryProofs`, those on `Deleter` in `LifecycleProofs` |
| `MC...` | instances for TLC | `Cluster` and `Lifecycle` are run as they are |

Correspondence with the code:

- An action is what one goroutine does between two points where another can
  interfere: a lock, a channel operation, a storage operation. Names are those of
  the code where it has one.
- Go maps are functions whose domain is the set of present keys; channels and
  slices are sequences.
- `Broker` names a message by its event ID and takes the range scan by what it
  yields (`Due`). That the key layout yields exactly this is theorem
  `DueScanRange` and property `DueScanOnTime`. That IDs are not reused is an
  assumption of `Broker`; `repo_lost` below shows when the code breaks it.
- A deletion that failed may have been carried out nevertheless (`DeleteKeysError`):
  the standalone backend never does this, a Raft proposal that timed out may.
- The janitor's sweep and the marks that follow it are separate steps, like the
  dispatcher's scan and the marks of the expired keys it found.
- `StartPass` takes the active topics and the clock in one step. The code reads
  the topics first; a clock tick in between commutes with reading the topics.
- The in-flight map of the dispatcher holds ages instead of time stamps, up to
  the timeout, which stands for every greater age.
- Clients answer only delivery tags they hold. This is an assumption about the
  environment.
- A crash of `Broker` loses everything but the store and the clock. Besides power
  loss and kills one way to get there is in the code: `readInit` returns no error
  and no message when the stream ends first, and `Subscribe` dereferences it.
- A consumer ID is a fresh UUID, so a consumer is in a group's list once.
- Topic hashes are assumed not to collide (`RepositoryAssumption`).
- `Offers` are the pairs of a delay and a TTL that producers use, `Handshakes` the
  groups in which consumers subscribe. A disconnect is a fault, so that it is bounded.
- `since`, a history variable of `Broker`, is the time since the last dispatch of a
  message that no consumer has returned by a NACK or by leaving.
- `DeleteKeys` of the standalone backend only logs an error of `batch.Delete`. Neither
  engine's batch returns one, since it only collects the operations.
- A bucket size below a millisecond becomes 0 in the configuration, which
  `CalculateBucket` treats as buckets of one millisecond.
- Dragonboat is taken by what it does to its callers, as the heads of the modules
  say. In `EventStateMachine` log compaction is left out: a replica that lags is
  given the log or a snapshot, in any order. In `Metadata` a snapshot drops the
  commands it covers, as `SnapshotEntries` in `StartRaft` has it.
- `RecoverFromSnapshot` commits what it has read with `Sync`. That is durable with a
  WAL and not without, so that the model takes either (`disk`). If it fails after
  `clearDB`, or is stopped, Dragonboat stops the replica: `Restart` between its two
  batches.
- `Cluster` takes keys as the messages they stand for, all due and of one topic, and
  a send with its in-flight entry as one step: times, topics, groups, channels and
  the window between send and entry are in `Broker`, the assignment of keys in
  `EventStateMachine`, and so is the rollback of unflushed batches by a crash: a
  restarted node of `Cluster` has its store. Instead of the log each node has the
  entries it has yet to apply. `kept` and `removed` are what the committed log amounts
  to; `forgotten` is history, the messages whose marks went with a restart.
- In `Metadata` a membership is named by its `ConfigChangeID` and an address by its
  node. Every listener method ends in `publishTopology`, so that one action stands
  for them. Between two leaders a node knows of none (`LoseLeader`) and publishes
  leader 0.
- In `Membership` the steps of `JoinCluster` on a seed belong to the joiner's
  `join`: it waits for the answer and asks the next seed after an error. A crash of
  the joiner ends the request. The seed's own crash is a request that times out.
  `JoinMetadata` and `LeaveMetadata` take any node, as the handlers do; `watched` and
  `dropped` are history, the nodes they were called for.
- In `Lifecycle` one stream stands for producers' and consumers' streams, and its
  handler stores, acknowledges, or is refused. `Loops` are the goroutines that
  `start.go` registers beside the deleter and the server. With Raft the final flush
  proposes under the cancelled application context, so that it is told an error. Any
  other flush after the cancellation is too; the model lets it succeed or fail.
- `Hub` leaves out that `Register` wakes the dispatcher, which only makes the next
  call come earlier.

## Runs

Passing runs:

| Run | Instance | Shows | States |
|---|---|---|---|
| `repo_crash` | 1 stream, 3 messages, 2 crashes, buckets of 2 | no overwrite; saved counter covers the store; scan exact up to a bucket | 1.2M |
| `broker` | 1 message with a delay or a TTL, 2 consumers in a group or one of them without, timeout 1, 1 fault or disconnect | all safety properties of `Broker`; implements `AtLeastOnce`; redelivery, to the other consumer if need be; removal of acknowledged and expired messages | 354k |
| `replicas` | 2 replicas, 3 entries of up to 2 messages, 1 snapshot, 1 crash | store is a function of the applied prefix; no entry skipped; catch-up | 768k |
| `hub` | 3 consumers, 4 dispatch calls | indexes agree; round robin fair; unanswered deliveries are tracked | 2.7M |
| `shutdown` | 2 keys, 2 marks, 1 failing flush, 1 loop over the store, 1 stream, with and without Raft | marks kept in order, implements `DeleteQueue`; shutdown window set, store closed quietly, acknowledgements flushed, process exits | 703k |
| `metadata` | 2 nodes, 1 of which restarts, 2 changes or faults, snapshots every 2 commands | replicas serve what the log says; one leader per term; own address advertised; topology converges | 500k |
| `membership` | 2 founders, 2 joiners with 2 seeds, 1 request to leave or about the metadata group, 2 faults | event voters are metadata voters unless `LeaveMetadata` was called for them; success of join and leave stays true; joiners start | 697k |
| `cluster` | 2 nodes, 1 message, 1 client, 1 fault | acknowledged publishes are committed; only committed messages are delivered; implements `AtLeastOnce`; marks lead to removal unless a restart forgets them; redelivery after failover | 423k |

Each property of these runs has a mutant, a faulty variant of a modelled operation
that stands next to it in its module and under which TLC finds the property
violated.

Runs that show where the code does not do what a comment or the documentation
says (quoted in `PROJECT.json`, "findings"):

| Run | Shows |
|---|---|
| `repo_lost` | streams that commit out of order move the saved ID counter back; after a restart a stored message is overwritten |
| `broker_early` | with buckets of 2 milliseconds a message is sent before its delay is over |
| `broker_returned` | a rejected message, or one of a consumer that has left, stays in flight until its timeout |
| `replica_counter` | after a snapshot a replica goes on with its old ID counter |

Observations. The models also contain the following behaviours. They are
consequences of the interleavings and values modelled; no run is devoted to them.

- With buckets wider than a millisecond a message is visible less than a bucket before
  its time (`broker_early`; `DueScanOnTime` allows exactly this, and theorem
  `LittleEarly` says it is no more).
- A delay near the int64 limit makes the fire time negative and the message due at
  once (`AddInt64`; the instances stay below the limit).
- A message has one key for all groups and universal consumers, and the first
  acknowledgement deletes it. What another group rejects then is gone, although
  `hub.go:159` gives groups "an independent copy" and `consumer.go:219` says of a NACK
  that "the key remains in storage".
- A pass over an old snapshot can send a message that was acknowledged, removed and
  released in the meantime (`BeginDispatch` after `OnDelete`).
- If acknowledgement, deletion and `OnDelete` all come before `EndDispatch` tracks
  the message, its in-flight entry is never removed.
- In `Hub`, a key recorded for a consumer that has already left stays in
  `inFlightByConsumer`, and so does one that was answered before `Track`.
- `SaveSnapshot` takes the store as it is then, not as `PrepareSnapshot` found it.
  The entries in between are applied again after recovery, and their messages given
  keys once more: on that replica a message can be stored under two keys, or in the
  place of another (`EventStateMachine`). The properties of the store therefore
  speak of replicas that have not installed a snapshot.
- In `Cluster` a new leader sends messages again whose acknowledgements were in the
  memory of the old one, which the comment on `Deleter` (`deleter.go:80-82`) means to
  prevent, and an old leader that has not heard of the new one goes on
  with its pass: a message can be out with both. A publish that was told an error may
  still commit, so that a producer that repeats it stores it twice. A producer that
  asks for no acknowledgement is promised nothing.
- In `Metadata` an epoch counts the publishes of one node since its start, so that
  epochs of different nodes do not order topologies; the last one committed wins,
  and that may be the one `StartRaft` gathered before the leader changed
  (`overtaken`). A publish that failed is not repeated before the next event, and until
  then clients can be told of an old leader. The epoch of a whole snapshot is the
  greatest one applied since the replica started: it need not change when the topology
  does, and falls when it is recomputed in `RecoverFromSnapshot`, although
  `commands.go:51` calls it "incremented on any change". The leader's address is empty while the publishing node has not applied it.
- In `Membership` a second request for a join that got half way is rejected by
  Dragonboat where the first one succeeded, and a node that crashes after it was told
  yes and before it has Raft data cannot join again. `waitForCatchUp` returns when the
  node is listed as non-voting, and the node starts its replicas only after the answer:
  it is promoted before it has any of the log, although `cluster.go:86-87` says "once
  it has caught up". `LeaveMetadata` removes a voter as well, which then votes in the
  event shard and cannot publish (`dropped`). A node that used `JoinMetadata` first, as
  its comment suggests, may be refused by `JoinCluster` (`watched`).
- In `Lifecycle` an open stream makes `GracefulStop` last for the whole window, and
  after it the store may be closed under a handler. What is acknowledged after the
  final flush is not flushed. With Raft the final flush is told that it failed, so
  that the marks of the last interval are lost and their messages sent again.
- `NewEventRepository` and `Open` take `pebble.ErrNotFound` for a fresh store. The
  bolt engine returns another error, so that a node does not start on an empty bolt
  store; the models start from an absent counter as with Pebble.
- `applyEntry` skips a command it cannot decode or store and reports 0, which the
  producer does not look at. The engines' batches return no errors, and commands are
  decoded as they were encoded unless a length does not fit its field, so that the
  models have no such step.

Bounds. Two producers, nodes or replicas are the fewest between which an order
matters, and two consumers the fewest for a message to go on from one that has left
to another. `repo_crash` has one producer, because with two and a crash the code does
overwrite messages (`repo_lost`). The instances are small in messages,
consumers and nodes; what they check is proved for any number of them, up to
liveness. Three consumers are the fewest for which leaving a group shifts the
round-robin counter past a shorter list that still has two members, and four calls
the fewest for the members left to be picked round from there. A channel of one
place is full after one message. Clocks run up to the
largest delay and TTL of an instance; messages are published only when all their
deadlines lie within the horizon, so the last clock value stands for all later ones,
while the ages of what is in flight go on. In `metadata`
two changes are enough for a leader to be replaced, or for a node to restart, while
a topology is on its way, and two commands per snapshot for a replica to be sent
one. In `membership` both joiners are under way together and use up their seeds.
Faults (crashes, storage errors, stream errors, timeouts) share one budget in each
module. `CHECK_DEADLOCK FALSE` appears where the system really may stop: a process
that has exited (`Lifecycle`), and instances that come to rest when nothing more is
published, joins or changes (`Hub`, `Replicas`, `Metadata`, `Membership`).

Fairness. Faults are finitely many everywhere.

| Run | Assumed | Why |
|---|---|---|
| `broker` | time passes; the dispatcher, janitor and deleter go on, each as one goroutine; the handler of a consumer sends while its stream is open and unregisters when it is not; a deletion is eventually tried with success | each loop has a ticker of its own; the wake channel only makes the dispatcher faster |
| `replicas` | Dragonboat hands committed entries to a running replica | |
| `shutdown` | the clock runs, the main goroutine goes on, an update that has begun ends | the components and the clients owe nothing, since the window bounds the wait |
| `metadata` | replicas hear of leader and members, Dragonboat calls the listener, goroutines go on, commands are applied | nobody has to elect, change members, fail or restart |
| `membership` | a request that can be answered is, `waitForCatchUp` polls, `StartRaft` runs | the requests have deadlines |
| `cluster` | a leader is elected when there is none, nodes hear of it, awaited proposals commit, entries are applied, loops go on | nobody has to publish, answer or disconnect |

## Proofs

All theorems hold for all values of the constants that satisfy the assumptions named
in the modules: any sets of messages, consumers, topics, groups, nodes and loops, any
bucket size, timeout and channel capacity, any number of faults.

| Module | Theorem | Property |
|---|---|---|
| `EventRepositoryProofs` | `DueScanRange` | the keys between the bounds of a scan are those of the topic with a bucket up to the current one, unless the upper bound wraps |
| `EventRepositoryProofs` | `DueScansOnTime` | `DueScanOnTime`, if no fire time overflows (`NoOverflow`) |
| `EventRepositoryProofs` | `StreamKeepsMessages`, `StreamCounterCovers` | `NoOverwrite`, `CounterCoversStore`, with one publish stream (`OneStream`) |
| `EventRepositoryProofs` | `RunKeepsMessages` | `NoOverwrite` with any number of streams, until the process first stops |
| `BrokerProofs` | `TypeCorrect`, `NeverLost`, `NotEarly`, `AckKept`, `RedispatchTimed` | `TypeOK`, `NoLoss`, `NeverEarly` if `BucketMs <= 1`, `AckNotForgotten`, `RedispatchAfterTimeout` |
| `BrokerProofs` | `LittleEarly` | `EarlyByLessThanABucket`, for buckets of any width |
| `BrokerProofs` | `BrokerIsQueue` | a standalone node implements `AtLeastOnce` |
| `HubProofs` | `HubIndexesAgree`, `SelectIsFair`, `NothingForgotten` | `IndexesAgree`, `RoundRobinFair`, `OutstandingIsTracked` |
| `EventStateMachineProofs` | `LogDeterminesStore`, `NoSkip` | `StoreIsLogPrefix`, `NoEntrySkipped` |
| `EventStateMachineProofs` | `ReplicasAgree` | `SameIndexSameStore`: replicas with one applied index have one store and one counter |
| `EventStateMachineProofs` | `LogKeepsMessages` | `NoMessageLost`: a message of an applied entry is stored until an entry deletes it |
| `EventStateMachineProofs` | `LogKeepsIDsMonotonic`, `OnlySnapshotsBreakIDs` | `IDsMonotonic` on replicas without a snapshot, and on all before the first one |
| `ClusterProofs` | `TypeCorrect`, `PublishCommitted`, `DeliveryCommitted` | `TypeOK`, `AckedPublishIsCommitted`, `DeliveredIsCommitted` |
| `ClusterProofs` | `ClusterIsQueue` | a cluster implements `AtLeastOnce` |
| `MetadataProofs` | `ReplicasFollowLog`, `LeadersAgree`, `StartedIsAdvertised` | `StateIsOfLog`, `OneLeaderPerTerm`, `StartAdvertisesSelf` |
| `MembershipProofs` | `VotersPublish`, `JoinedVotes`, `LeftIsOut` | `EventVotersAreInMetadata`, `JoinedIsVoter`, `LeftStaysOut` |
| `LifecycleProofs` | `MarksKept`, `DeleterIsQueue` | `MarksInOrder`; the deleter implements `DeleteQueue` |
| `LifecycleProofs` | `ProcessRunsDeleter` | every behaviour of the process is one of the deleter |
| `LifecycleProofs` | `ProcessKeepsMarks`, `ProcessIsQueue` | the same, in the process |
| `LifecycleProofs` | `TypeCorrect`, `WindowIsOpen`, `StoreQuiet`, `AcksFlushed` | `TypeOK`, `ShutCtxIsSet`, `StoreClosedQuietly`, `AcksBeforeStopFlushed` |

Three of the four runs that disagree with a comment have a theorem on the other side.
`repo_lost` needs two streams and a restart: without the one or the other `NoOverwrite`
is proved. `replica_counter` needs a snapshot: without it `IDsMonotonic` is proved.
`broker_early` needs buckets wider than a millisecond: without them `NeverEarly` is
proved, and with them how early a message can be.

Hardly any of the properties is inductive. Each module has an invariant that is, and
proves action by action that it is kept; `InvCorrect` (for the deleter by itself,
`DeleterCorrect`) combines the steps.

`EventRepositoryProofs`:

| Conjunct | Says | Needed for |
|---|---|---|
| `AllFiled` | stored and batched messages are under the key of their topic, their fire time and some ID handed out | `DueScanOnTime`, with `DueScanRange` |
| `Stopped` | a process that is down has no batches and has been counted | `RunKeepsMessages` |
| `IDsUsed` | IDs in use are at most the counter, and no two batches, and no batch and the store, write one key; holds until the first restart, and always for one stream | `NoOverwrite` |
| `Covered` | with one stream, the counter value in the batch covers the batch and is above the saved one | `CounterCoversStore`, and `IDsUsed` after a restart |

`HubProofs`:

| Conjunct | Says | Needed for |
|---|---|---|
| `HubOK` | `IndexesAgree`, with the phases of the consumers: exactly the registered ones are in the ID map | `IndexesAgree` |
| `CallOK`, `NewOK` | the copy a dispatch call works on is a subscription, each consumer once per group, of consumers that have registered | all: what is selected is a consumer |
| `TurnsOK` | the last picks of a group are the members right before its counter, going round | `RoundRobinFair`: consecutive members are different |
| `OutstandingIsTracked` | inductive with the others, by counting occurrences: what a step takes from or adds to a channel, a client or a list is one occurrence | itself |

Its lemmas say what the operations of `Subscriptions` do: adding or removing a
consumer changes the place of that consumer and nobody else's.

`EventStateMachineProofs`:

| Conjunct | Says | Needed for |
|---|---|---|
| `Stamped` | a snapshot's index is not above what Dragonboat has applied, nor this above the store | `NoEntrySkipped` |
| `PrefixOK` | on a replica without a snapshot the store, and the store on disk, are replays of prefixes of the log, and counter and applied index in memory are those of the store | `StoreIsLogPrefix`: Update goes on exactly where the replay ends, a restart goes back to another prefix |

The store is the end of a recursion over the log, and of one over the items of a
command inside it. That two such recursions over equal entries agree, that they can
be cut in two anywhere (`ReplayExtends`, for the groups that `Update` is given), and
that a message stays until it is deleted (`MessageStays`), is induction over data.
The library's induction rule takes the property as an operator, which the provers
cannot instantiate; these lemmas take the least index at which the claim would fail
instead (`Least`), which needs only that the numbers are well founded.

`BrokerProofs`: `TypeInv` strengthens the type invariant by what each program counter
implies (`ControlOK`); `Inv` adds:

| Conjunct | Says | Needed for |
|---|---|---|
| `KeysKnown` | every key held anywhere was published | all |
| `DeletionJustified` | keys marked, being flushed, or collected as expired are acknowledged or expired | `NoLoss`, `ImplementsQueue` |
| `SentIsDue` | keys being scanned or sent are due at the pass's clock reading, keys in channels and clients' hands at the current time | `NeverEarly` and `EarlyByLessThanABucket`, with the lemma on buckets |
| `AcksKept` | an acknowledged stored key is pending or in a flush that has not deleted yet; an idle deleter has no batch | `AckNotForgotten` |
| `InFlightKept` | a stored key dispatched within the timeout has an in-flight entry of the same age | `RedispatchAfterTimeout` |

`ClusterProofs`:

| Conjunct | Says | Needed for |
|---|---|---|
| `DeletionJustified` | what a node is to delete, or a proposal that may still commit deletes, is acknowledged or expired | `ImplementsQueue` |
| `StoredOnce` | a batch has one proposal, and none after it has committed | `ImplementsQueue`: nothing comes back |
| `CommittedOnly` | what nodes store, scan and hold, and the entries they have yet to apply, was committed | `DeliveredIsCommitted` |

`MetadataProofs` looks at all states of the log that are kept somewhere, its
`Points`: what each replica has applied, what it last saved, and what the dropped
commands amount to.

| Conjunct | Says | Needed for |
|---|---|---|
| `PointsOfLog` | each point is what the commands up to its index make | `StateIsOfLog`: a replica may recover from any point, and a later compaction must not show |
| `PointsInOrder` | a later point has all addresses of an earlier one | a snapshot that is sent to a node does not take its own address away |
| `RegistrationKept` | a registration that `StartRaft` waits for is in the log or in all points that are late enough | `StartAdvertisesSelf`, across compaction |
| `SelfKnown`, `SelfCommitted` | the topologies that `StartRaft` is gathering, has sent or has had committed list the node | `StartAdvertisesSelf` |
| `LeadersElected` | views, topologies on their way, delayed ones and committed ones name the leader of their term | `OneLeaderPerTerm` |

`MembershipProofs`: `ChangesJustified` says that every change under way, and every
request that may still be carried out late, comes after the change it depends on: the
promotion in the event shard after that in the metadata group, the removal from the
metadata group after that from the event shard or on a request of `LeaveMetadata`.
`GroupsOK` says that removed nodes are not members and that nodes leave the event
shard first, unless `LeaveMetadata` was called for them.

`LifecycleProofs`: for the deleter, `FlushControl` says what the program counter
implies; with it `MarksInOrder` is inductive. The process adds `ShutdownInOrder`, what the phase
of the main goroutine says about everybody else, and `FlushedIsGone`, that what was
notified is not in the store and that the final flush took all earlier marks.

The inductive invariants of `EventRepositoryProofs`, `HubProofs` and
`EventStateMachineProofs`, and `NoMessageLost`, were model-checked on the instances
of `repo_crash`, `repo_lost`, `hub` and `replicas` before they were proved.

Only model-checked: liveness, since fairness and ENABLED are beyond the prover
(`RedeliveredUntilRemoved`, `SettledIsRemoved`, `CatchesUp`,
`ShutdownTerminates`, `TopologyConverges`, `JoinersStart`, `MarkedIsRemoved`,
`RedeliveredAfterFailover`). Every other property of the passing runs has a theorem.
Those on `EventRepository` need the assumptions named in the table, which the
instance of `repo_crash` satisfies.

## Not modelled

- The byte layout of the Raft commands (`pkg/raft/*/commands.go`) with its 16-bit
  lengths: encoding and decoding are pure functions on byte strings without state. The
  models take a command as the record it decodes to. A command whose lengths do not
  fit 16 bits is outside of them.
- Opening the store and the Raft host (`app.go`): every error ends the process before
  it serves anything.
- The insides of Pebble, bbolt and Dragonboat. What they do to their callers is in
  the models, marked external in `PROJECT.json`.
- Configuration, metrics, logging and command-line parsing, which hold no state of
  the broker; the index entries stored with a message, and the `EventBatch` type,
  which nothing outside the tests uses; protobuf encoding.
