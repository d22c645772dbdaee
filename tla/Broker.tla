------------------------------- MODULE Broker -------------------------------
(***************************************************************************)
(* The delivery path of one standalone node: the dispatcher, the hub, the  *)
(* consumer handlers, the deleter and the TTL janitor, each a goroutine of *)
(* its own, over the shared store.                                         *)
(*                                                                         *)
(*   internal/dispatcher/dispatcher.go    pass, scan, in-flight map        *)
(*   internal/dispatcher/hub.go           topic map, round robin, channels *)
(*   internal/dispatcher/deleter.go       through module DeleteQueue       *)
(*   internal/dispatcher/janitor.go       sweep                            *)
(*   internal/api/grpc/handlers/consumer.go  Subscribe, sender, receiver   *)
(*                                                                         *)
(* A step is what one goroutine does between two points where another one  *)
(* can interfere: a lock, a channel operation, a storage operation.        *)
(*                                                                         *)
(* A stored message is named by its event ID; IDs are never reused here    *)
(* (module EventRepository is about that), so what was published under an  *)
(* ID does not change.  The range scan is taken by what it yields (Due);   *)
(* EventRepository shows that the key layout yields that.                  *)
(* Hub.inFlightByConsumer, written here and read by nothing, is in module  *)
(* Hub.                                                                    *)
(*                                                                         *)
(* Time: "now" stops at MaxTime, which every deadline of a published       *)
(* message stays below, so MaxTime stands for every later time as well.    *)
(* An in-flight entry holds its age instead of its time stamp, up to       *)
(* InFlightTimeout, which stands for every greater age.                    *)
(***************************************************************************)
EXTENDS Keys, Subscriptions, DeleteQueue, FiniteSets

CONSTANTS
    BucketMs,         \* storage.timeBucketSize in milliseconds
    InFlightTimeout,  \* dispatcher in-flight timeout
    ChanCap,          \* capacity of a consumer's channel (1024 in the code)
    Handshakes,       \* <<consumer, group>>: what a consumer may subscribe with
    Offers,           \* <<delay, TTL>>: what a producer may ask for; TTL 0 is
                      \* "lives forever"
    MaxTime,          \* bound: horizon of the clock
    MaxFaults         \* bound: crashes, disconnections and storage and stream
                      \* errors together

ASSUME BrokerAssumption ==
    /\ IDs \subseteq Nat
    /\ BucketMs \in Nat
    /\ InFlightTimeout \in Nat \ {0}
    /\ ChanCap \in Nat \ {0}
    /\ Handshakes \subseteq Consumers \X (Groups \cup {NoGroup})
    /\ Offers \subseteq Nat \X Nat
    /\ MaxTime \in Nat /\ MaxTime < HalfMod
    /\ MaxFaults \in Nat

VARIABLES
    now,         \* wall clock
    msg,         \* event ID -> message published under it
    topics,      \* Hub.topics
    byID,        \* Hub.byID
    rrNext,      \* RoundRobinStrategy.next
    ch,          \* consumer -> its channel
    conn,        \* consumer -> its connection: "new", "open", "closing", "gone"
    held,        \* consumer -> tags its client has received and not answered
    inFlight,    \* Dispatcher.inFlight: ID -> age, NotTracked if absent
    pc,          \* dispatcher: "idle", "topic", "scan" or "send"
    passNow,     \* dispatchAll: nowMs
    topicsLeft,  \* dispatchAll: active topics still to scan
    topic,       \* dispatchTopic: topic
    scan,        \* dispatchTopic: keys of the snapshot still to visit
    expired,     \* dispatchTopic: expiredKeys
    key,         \* the message being dispatched
    groupsLeft,  \* DispatchToTopic: groups of the snapshot still to serve
    univLeft,    \* DispatchToTopic: universal consumers still to serve
    sentTo,      \* DispatchToTopic: the consumers it was sent to
    sweep,       \* janitor: expiredKeys
    acked,       \* history: the messages of the acknowledgements handled
    since,       \* history: ID -> age of its last dispatch, if nobody returned it
    faults

hubVars == <<topics, byID, rrNext, ch>>
connVars == <<conn, held>>
passVars == <<pc, passNow, topicsLeft, topic, scan, expired>>
sendVars == <<key, groupsLeft, univLeft, sentTo>>
vars == <<now, msg, hubVars, connVars, inFlight, passVars, sendVars, sweep,
          acked, since, faults, delVars>>

NotTracked == -1

NoTopic == "none"

NoKey == -1

Message ==
    {[topic |-> t, enq |-> e, delay |-> o[1], ttl |-> o[2]] :
        t \in Topics, e \in 0 .. MaxTime, o \in Offers}

Entry == [topic : Topics, group : Groups \cup {NoGroup}]

Ages == 0 .. InFlightTimeout

Older(age) == IF age < InFlightTimeout THEN age + 1 ELSE age

(* What a consumer was sent and has not answered. *)
Owed(c) == held[c] \cup Range(ch[c])

Returned(K) == [k \in IDs |-> IF k \in K THEN InFlightTimeout ELSE since[k]]

FireAt(k) == msg[k].enq + msg[k].delay

(* A faulty variant: the bucket after the current one is due. *)
DueOneBucketEarly(k, nowMs) ==
    CalculateBucket(FireAt(k), BucketMs) <= CalculateBucket(nowMs, BucketMs) + 1

(* The keys between TopicLowerBound and DueUpperBound of the pass. *)
Due(k, nowMs) ==
    CalculateBucket(FireAt(k), BucketMs) <= CalculateBucket(nowMs, BucketMs)

(* Order of the scan: by bucket, then by event ID. *)
Before(j, k) ==
    LET bj == CalculateBucket(FireAt(j), BucketMs)
        bk == CalculateBucket(FireAt(k), BucketMs)
    IN  bj < bk \/ (bj = bk /\ j <= k)

IsExpired(k, nowMs) ==
    /\ msg[k].ttl > 0
    /\ nowMs >= msg[k].enq + msg[k].ttl

(* Faulty variants: the timeout is never reached, or one unit too soon. *)
IsInFlightForever(k) == inFlight[k] # NotTracked

IsInFlightShort(k) ==
    inFlight[k] # NotTracked /\ inFlight[k] < InFlightTimeout - 1

IsInFlight(k) == inFlight[k] # NotTracked /\ inFlight[k] < InFlightTimeout

Fault == faults < MaxFaults /\ faults' = faults + 1

Init ==
    /\ DeleteInit
    /\ now = 0
    /\ msg = <<>>
    /\ topics = <<>>
    /\ byID = <<>>
    /\ rrNext = [tg \in Topics \X Groups |-> 0]
    /\ ch = [c \in Consumers |-> <<>>]
    /\ conn = [c \in Consumers |-> "new"]
    /\ held = [c \in Consumers |-> {}]
    /\ inFlight = [k \in IDs |-> NotTracked]
    /\ pc = "idle"
    /\ passNow = 0
    /\ topicsLeft = {}
    /\ topic = NoTopic
    /\ scan = {}
    /\ expired = {}
    /\ key = NoKey
    /\ groupsLeft = <<>>
    /\ univLeft = {}
    /\ sentTo = {}
    /\ sweep = {}
    /\ acked = {}
    /\ since = [k \in IDs |-> InFlightTimeout]
    /\ faults = 0
-----------------------------------------------------------------------------
(* Environment: the clock, and producers whose batch commits (durably) at  *)
(* or after the time they stamped on the message.                          *)
Tick ==
    /\ now' = IF now < MaxTime THEN now + 1 ELSE now
    /\ inFlight' = [k \in IDs |->
           IF inFlight[k] = NotTracked THEN NotTracked ELSE Older(inFlight[k])]
    /\ since' = [k \in IDs |-> Older(since[k])]
    /\ UNCHANGED <<msg, hubVars, connVars, passVars, sendVars, sweep, acked,
                   faults, delVars>>

Publish(k, m) ==
    /\ k \notin DOMAIN msg
    /\ m.enq <= now
    /\ m.enq + m.delay <= MaxTime /\ m.enq + m.ttl <= MaxTime
    /\ msg' = MapPut(msg, k, m)
    /\ stored' = stored \cup {k}
    /\ UNCHANGED <<now, hubVars, connVars, inFlight, passVars, sendVars, sweep,
                   acked, since, faults, pending, flushing, delPhase>>
-----------------------------------------------------------------------------
(* Consumer handler. *)

(* Subscribe: the handshake has been read; register with the hub. *)
Subscribe(c, t, g) ==
    /\ conn[c] = "new"
    /\ <<c, g>> \in Handshakes
    /\ conn' = [conn EXCEPT ![c] = "open"]
    /\ topics' = RegisterIn(topics, c, t, g)
    /\ byID' = MapPut(byID, c, [topic |-> t, group |-> g])
    /\ UNCHANGED <<now, msg, rrNext, ch, held, inFlight, passVars,
                   sendVars, sweep, acked, since, faults, delVars>>

(* sender: one message from the channel to the stream.  Once its context   *)
(* is cancelled the sender may stop at any time, and may send before it    *)
(* does, be it after Unregister.                                           *)
SenderSend(c) ==
    /\ conn[c] # "new"
    /\ ch[c] # <<>>
    /\ held' = [held EXCEPT ![c] = @ \cup {Head(ch[c])}]
    /\ ch' = [ch EXCEPT ![c] = Tail(@)]
    /\ UNCHANGED <<now, msg, topics, byID, rrNext, conn, inFlight,
                   passVars, sendVars, sweep, acked, since, faults, delVars>>

(* sender: the stream fails on a message already taken from the channel. *)
SenderError(c) ==
    /\ conn[c] # "new"
    /\ ch[c] # <<>>
    /\ Fault
    /\ ch' = [ch EXCEPT ![c] = Tail(@)]
    /\ conn' = [conn EXCEPT ![c] = IF @ = "open" THEN "closing" ELSE @]
    /\ UNCHANGED <<now, msg, topics, byID, rrNext, held, inFlight,
                   passVars, sendVars, sweep, acked, since, delVars>>

(* A faulty variant: a rejected message is marked deleted as well. *)
ReceiverHandleAny(c, k, success) ==
    /\ k \in held[c]
    /\ held' = [held EXCEPT ![c] = @ \ {k}]
    /\ MarkDeleted(k)
    /\ acked' = IF success THEN acked \cup {k} ELSE acked
    /\ since' = IF success THEN since ELSE Returned({k})
    /\ UNCHANGED <<now, msg, hubVars, conn, inFlight, passVars, sendVars,
                   sweep, faults, stored, flushing, delPhase>>

(* receiver: the client's answer to a tag it holds.  Frames that were      *)
(* buffered when the stream ended are still read, be it after Unregister.  *)
ReceiverHandle(c, k, success) ==
    /\ k \in held[c]
    /\ held' = [held EXCEPT ![c] = @ \ {k}]
    /\ IF success
         THEN /\ MarkDeleted(k)
              /\ acked' = acked \cup {k}
         ELSE UNCHANGED <<pending, acked>>
    /\ since' = IF success THEN since ELSE Returned({k})
    /\ UNCHANGED <<now, msg, hubVars, conn, inFlight, passVars, sendVars,
                   sweep, faults, stored, flushing, delPhase>>

(* The stream ends: the client closes it or its context is cancelled. *)
Disconnect(c) ==
    /\ conn[c] = "open"
    /\ Fault
    /\ conn' = [conn EXCEPT ![c] = "closing"]
    /\ UNCHANGED <<now, msg, hubVars, held, inFlight, passVars,
                   sendVars, sweep, acked, since, delVars>>

(* Subscribe returns: its deferred Unregister. *)
Unregister(c) ==
    /\ conn[c] = "closing"
    /\ conn' = [conn EXCEPT ![c] = "gone"]
    /\ topics' = UnregisterFrom(topics, c, byID[c].topic, byID[c].group)
    /\ byID' = MapDelete(byID, {c})
    /\ since' = Returned(Owed(c))
    /\ UNCHANGED <<now, msg, rrNext, ch, held, inFlight, passVars, sendVars,
                   sweep, acked, faults, delVars>>
-----------------------------------------------------------------------------
(* Dispatcher. *)

(* dispatchAll with no consumer connected returns at once. *)
IdlePass ==
    /\ pc = "idle"
    /\ DOMAIN byID = {}
    /\ UNCHANGED vars

(* dispatchAll: the active topics, and one clock reading for the pass. *)
StartPass ==
    /\ pc = "idle"
    /\ DOMAIN byID # {}
    /\ DOMAIN topics # {}
    /\ pc' = "topic"
    /\ passNow' = now
    /\ topicsLeft' = DOMAIN topics
    /\ UNCHANGED <<now, msg, hubVars, connVars, inFlight, topic, scan, expired,
                   sendVars, sweep, acked, since, faults, delVars>>

(* dispatchTopic: the scan works on a snapshot of the store. *)
StartTopic(t) ==
    /\ pc = "topic"
    /\ t \in topicsLeft
    /\ pc' = "scan"
    /\ topicsLeft' = topicsLeft \ {t}
    /\ topic' = t
    /\ scan' = {k \in stored : msg[k].topic = t /\ Due(k, passNow)}
    /\ UNCHANGED <<now, msg, hubVars, connVars, inFlight, passNow, expired,
                   sendVars, sweep, acked, since, faults, delVars>>

(* The scan callback is called with k. *)
Visits(k) ==
    /\ pc = "scan"
    /\ k \in scan
    /\ \A j \in scan : Before(k, j)
    /\ scan' = scan \ {k}

SkipInFlight(k) ==
    /\ Visits(k)
    /\ IsInFlight(k)
    /\ UNCHANGED <<now, msg, hubVars, connVars, inFlight, pc, passNow,
                   topicsLeft, topic, expired, sendVars, sweep, acked, since,
                   faults, delVars>>

(* Not in flight, or no longer: isInFlight drops a timed-out entry. *)
CollectExpired(k) ==
    /\ Visits(k)
    /\ ~IsInFlight(k)
    /\ IsExpired(k, passNow)
    /\ inFlight' = [inFlight EXCEPT ![k] = NotTracked]
    /\ expired' = expired \cup {k}
    /\ UNCHANGED <<now, msg, hubVars, connVars, pc, passNow, topicsLeft, topic,
                   sendVars, sweep, acked, since, faults, delVars>>

(* DispatchToTopic copies the subscription under the read lock. *)
BeginDispatch(k) ==
    /\ Visits(k)
    /\ ~IsInFlight(k)
    /\ ~IsExpired(k, passNow)
    /\ inFlight' = [inFlight EXCEPT ![k] = NotTracked]
    /\ pc' = "send"
    /\ key' = k
    /\ groupsLeft' = SubSnapshot(topics, topic).groups
    /\ univLeft' = SubSnapshot(topics, topic).universal
    /\ UNCHANGED <<now, msg, hubVars, connVars, passNow, topicsLeft, topic,
                   expired, sentTo, sweep, acked, since, faults, delVars>>

(* A faulty variant: the capacity of the channel is not respected. *)
TrySendUnbounded(c) ==
    /\ ch' = [ch EXCEPT ![c] = Append(@, key)]
    /\ sentTo' = sentTo \cup {c}

(* trySend: never blocks; a full channel is skipped. *)
TrySend(c) ==
    IF Len(ch[c]) < ChanCap
      THEN /\ ch' = [ch EXCEPT ![c] = Append(@, key)]
           /\ sentTo' = sentTo \cup {c}
      ELSE UNCHANGED <<ch, sentTo>>

SendToGroup(g) ==
    /\ pc = "send"
    /\ g \in DOMAIN groupsLeft
    /\ LET idx == rrNext[<<topic, g>>]
           candidates == groupsLeft[g]
       IN  /\ rrNext' = [rrNext EXCEPT ![<<topic, g>>] = SelectNext(idx, candidates)]
           /\ TrySend(SelectConsumer(idx, candidates))
    /\ groupsLeft' = MapDelete(groupsLeft, {g})
    /\ UNCHANGED <<now, msg, topics, byID, connVars, inFlight, passVars, key,
                   univLeft, sweep, acked, since, faults, delVars>>

SendToUniversal(c) ==
    /\ pc = "send"
    /\ DOMAIN groupsLeft = {}
    /\ c \in univLeft
    /\ TrySend(c)
    /\ univLeft' = univLeft \ {c}
    /\ UNCHANGED <<now, msg, topics, byID, rrNext, connVars, inFlight, passVars,
                   key, groupsLeft, sweep, acked, since, faults, delVars>>

(* Back in the scan callback: a message sent to anyone is tracked. *)
EndDispatch ==
    /\ pc = "send"
    /\ DOMAIN groupsLeft = {}
    /\ univLeft = {}
    /\ IF sentTo # {}
         THEN /\ inFlight' = [inFlight EXCEPT ![key] = 0]
              /\ since' = [since EXCEPT ![key] = 0]
         ELSE UNCHANGED <<inFlight, since>>
    /\ pc' = "scan"
    /\ key' = NoKey
    /\ sentTo' = {}
    /\ UNCHANGED <<now, msg, hubVars, connVars, passNow, topicsLeft, topic,
                   scan, expired, groupsLeft, univLeft, sweep, acked, faults,
                   delVars>>

(* The scan fails; what was collected so far is still marked. *)
ScanError ==
    /\ pc = "scan"
    /\ scan # {}
    /\ Fault
    /\ scan' = {}
    /\ UNCHANGED <<now, msg, hubVars, connVars, inFlight, pc, passNow,
                   topicsLeft, topic, expired, sendVars, sweep, acked, since,
                   delVars>>

MarkExpired(k) ==
    /\ pc = "scan"
    /\ scan = {}
    /\ k \in expired
    /\ MarkDeleted(k)
    /\ expired' = expired \ {k}
    /\ UNCHANGED <<now, msg, hubVars, connVars, inFlight, pc, passNow,
                   topicsLeft, topic, scan, sendVars, sweep, acked, since,
                   faults, stored, flushing, delPhase>>

EndTopic ==
    /\ pc = "scan"
    /\ scan = {}
    /\ expired = {}
    /\ pc' = IF topicsLeft = {} THEN "idle" ELSE "topic"
    /\ passNow' = IF topicsLeft = {} THEN 0 ELSE passNow
    /\ topic' = NoTopic
    /\ UNCHANGED <<now, msg, hubVars, connVars, inFlight, topicsLeft, scan,
                   expired, sendVars, sweep, acked, since, faults, delVars>>
-----------------------------------------------------------------------------
(* TTL janitor. *)

(* A faulty variant: only the active topics are swept. *)
SweepActive ==
    /\ sweep = {}
    /\ sweep' = {k \in stored : IsExpired(k, now) /\ msg[k].topic \in DOMAIN topics}
    /\ UNCHANGED <<now, msg, hubVars, connVars, inFlight, passVars, sendVars,
                   acked, since, faults, delVars>>

(* sweep: one clock reading and one scan of the whole store. *)
Sweep ==
    /\ sweep = {}
    /\ sweep' = {k \in stored : IsExpired(k, now)}
    /\ UNCHANGED <<now, msg, hubVars, connVars, inFlight, passVars, sendVars,
                   acked, since, faults, delVars>>

SweepMark(k) ==
    /\ k \in sweep
    /\ MarkDeleted(k)
    /\ sweep' = sweep \ {k}
    /\ UNCHANGED <<now, msg, hubVars, connVars, inFlight, passVars, sendVars,
                   acked, since, faults, stored, flushing, delPhase>>
-----------------------------------------------------------------------------
(* Deleter. *)
deleterFrame == <<now, msg, hubVars, connVars, passVars, sendVars, sweep,
                  acked, since>>

Flush == FlushDrain /\ UNCHANGED <<deleterFrame, inFlight, faults>>

FlushOK == DeleteKeysOK /\ UNCHANGED <<deleterFrame, inFlight, faults>>

FlushError == DeleteKeysError /\ Fault /\ UNCHANGED <<deleterFrame, inFlight>>

(* OnDelete is Dispatcher.RemoveInFlight. *)
OnDelete(k, rest) ==
    /\ NotifyDelete(k, rest)
    /\ inFlight' = [inFlight EXCEPT ![k] = NotTracked]
    /\ UNCHANGED <<deleterFrame, faults>>
-----------------------------------------------------------------------------
(* The process stops and starts again: only the store survives.  An        *)
(* acknowledgement whose deletion was not done is forgotten.               *)
Crash ==
    /\ Fault
    /\ topics' = <<>>
    /\ byID' = <<>>
    /\ rrNext' = [tg \in Topics \X Groups |-> 0]
    /\ ch' = [c \in Consumers |-> <<>>]
    /\ conn' = [c \in Consumers |-> "new"]
    /\ held' = [c \in Consumers |-> {}]
    /\ inFlight' = [k \in IDs |-> NotTracked]
    /\ pc' = "idle"
    /\ passNow' = 0
    /\ topicsLeft' = {}
    /\ topic' = NoTopic
    /\ scan' = {}
    /\ expired' = {}
    /\ key' = NoKey
    /\ groupsLeft' = <<>>
    /\ univLeft' = {}
    /\ sentTo' = {}
    /\ sweep' = {}
    /\ acked' = acked \ stored
    /\ since' = [k \in IDs |-> InFlightTimeout]
    /\ pending' = {}
    /\ flushing' = {}
    /\ delPhase' = "idle"
    /\ UNCHANGED <<now, msg, stored>>
-----------------------------------------------------------------------------
HandlerStep ==
    \/ \E c \in Consumers, t \in Topics, g \in Groups \cup {NoGroup} :
          Subscribe(c, t, g)
    \/ \E c \in Consumers : SenderSend(c)
    \/ \E c \in Consumers : SenderError(c)
    \/ \E c \in Consumers, k \in IDs, success \in BOOLEAN :
          ReceiverHandle(c, k, success)
    \/ \E c \in Consumers : Disconnect(c)
    \/ \E c \in Consumers : Unregister(c)

DispatcherStep ==
    \/ IdlePass
    \/ StartPass
    \/ \E t \in Topics : StartTopic(t)
    \/ \E k \in IDs : SkipInFlight(k)
    \/ \E k \in IDs : CollectExpired(k)
    \/ \E k \in IDs : BeginDispatch(k)
    \/ \E g \in Groups : SendToGroup(g)
    \/ \E c \in Consumers : SendToUniversal(c)
    \/ EndDispatch
    \/ ScanError
    \/ \E k \in IDs : MarkExpired(k)
    \/ EndTopic

JanitorStep ==
    \/ Sweep
    \/ \E k \in IDs : SweepMark(k)

DeleterStep ==
    \/ Flush
    \/ FlushOK
    \/ FlushError
    \/ \E k \in IDs, rest \in SUBSET IDs : OnDelete(k, rest)

Next ==
    \/ Tick
    \/ \E k \in IDs, m \in Message : Publish(k, m)
    \/ HandlerStep
    \/ DispatcherStep
    \/ JanitorStep
    \/ DeleterStep
    \/ Crash

Spec == Init /\ [][Next]_vars
-----------------------------------------------------------------------------
(* Safety. *)

(* Nobody needs the message any more. *)
Done(k) == k \in acked \/ IsExpired(k, now)

(* Type invariant. *)
TypeOK ==
    /\ DeleteTypeOK
    /\ now \in 0 .. MaxTime
    /\ DOMAIN msg \subseteq IDs /\ \A k \in DOMAIN msg : msg[k] \in Message
    /\ stored \subseteq DOMAIN msg
    /\ DOMAIN topics \subseteq Topics
    /\ \A t \in DOMAIN topics : IsSubscription(topics[t])
    /\ DOMAIN byID \subseteq Consumers /\ \A c \in DOMAIN byID : byID[c] \in Entry
    /\ rrNext \in [Topics \X Groups -> Nat]
    /\ ch \in [Consumers -> Seq(IDs)]
    /\ \A c \in Consumers : Len(ch[c]) <= ChanCap
    /\ conn \in [Consumers -> {"new", "open", "closing", "gone"}]
    /\ held \in [Consumers -> SUBSET IDs]
    /\ inFlight \in [IDs -> Ages \cup {NotTracked}]
    /\ pc \in {"idle", "topic", "scan", "send"}
    /\ passNow \in 0 .. MaxTime
    /\ topicsLeft \subseteq Topics
    /\ topic \in Topics \cup {NoTopic}
    /\ scan \subseteq IDs /\ expired \subseteq IDs
    /\ key \in IDs \cup {NoKey}
    /\ IsGroupMap(groupsLeft)
    /\ univLeft \subseteq Consumers /\ sentTo \subseteq Consumers
    /\ sweep \subseteq IDs
    /\ acked \subseteq IDs
    /\ since \in [IDs -> Ages]
    /\ faults \in 0 .. MaxFaults

(* At-least-once: a published message leaves the store only after a        *)
(* consumer acknowledged it or its TTL elapsed, whatever the order in      *)
(* which the dispatcher, the janitor, the receivers and the flushes of the *)
(* deleter run, and across crashes.                                        *)
NoLoss ==
    \A k \in DOMAIN msg : k \in stored \/ Done(k)

(* The delivery path promises what module AtLeastOnce says: messages are   *)
(* removed when they are settled and only then, never come back, and an    *)
(* acknowledgement is forgotten only while its message is still stored.    *)
Queue ==
    INSTANCE AtLeastOnce WITH
        Messages <- IDs,
        kept <- stored,
        removed <- DOMAIN msg \ stored,
        settled <- {k \in DOMAIN msg : Done(k)}

ImplementsQueue == Queue!QueueSpec

(* A message that a consumer was sent was due: "it becomes visible to      *)
(* consumers only after the delay expires".  It holds with buckets of one  *)
(* millisecond, the default; with wider ones dispatchTopic takes the whole *)
(* bucket that the clock is in.                                            *)
NeverEarly == \A c \in Consumers : \A k \in Owed(c) : FireAt(k) <= now

(* An acknowledgement is not forgotten while the process lives: until the  *)
(* message is gone from the store its key is in the deleter's hands, a     *)
(* failed flush included (flush re-enqueues).                              *)
AckNotForgotten ==
    stored \cap acked \subseteq pending \cup flushing

(* A message that is out and that nobody returned, by a NACK or by         *)
(* disconnecting, is not dispatched again within the in-flight timeout:    *)
(* neither a flush of the deleter (OnDelete), nor a slow pass over an old  *)
(* snapshot, nor the answer of another consumer makes it earlier.          *)
RedispatchAfterTimeout ==
    [][\A k \in stored : (key' = k /\ key # k) => since[k] = InFlightTimeout]_vars
-----------------------------------------------------------------------------
(* Liveness.  The goroutines of the node run (each is scheduled again and  *)
(* again), time passes, and clients read their streams; nobody has to      *)
(* publish, subscribe, answer or disconnect, and faults are finitely many. *)
Fairness ==
    /\ WF_vars(Tick)
    /\ WF_vars(DispatcherStep)
    /\ \A c \in Consumers :
          WF_vars((conn[c] = "open" /\ SenderSend(c)) \/ Unregister(c))
    /\ WF_vars(JanitorStep)
    /\ WF_vars(Flush \/ FlushOK \/ \E k \in IDs : OnDelete(k, flushing \ {k}))

FairSpec == Spec /\ Fairness

(* A consumer of k's topic is connected. *)
Served(k) ==
    /\ k \in DOMAIN msg
    /\ \E c \in Consumers : conn[c] = "open" /\ byID[c].topic = msg[k].topic

(* While a consumer of its topic stays connected, a stored message is      *)
(* dispatched again and again until it is removed: a rejected or lost      *)
(* delivery, a disconnected consumer or a crash does not strand it in the  *)
(* in-flight map.                                                          *)
RedeliveredUntilRemoved ==
    \A k \in IDs :
        \/ []<>~Served(k)
        \/ (k \in stored) ~> (k \notin stored \/ (key = k /\ sentTo # {}))

(* A settled message leaves the store: one that was acknowledged, unless a *)
(* crash forgets that, and one that expired, even if no consumer ever      *)
(* connects (janitor) or while it is in flight.                            *)
SettledIsRemoved ==
    \A k \in IDs : (k \in stored /\ Done(k)) ~> (k \notin stored \/ ~Done(k))
-----------------------------------------------------------------------------
(* What comments of the code say of it, and it does not do.                *)

(* The consumer gives the message back: a NACK, or its stream is over. *)
Returns(c, k) ==
    \/ ReceiverHandle(c, k, FALSE)
    \/ k \in Owed(c) /\ Unregister(c)

(* "On NACK the key is immediately removed from in-flight, making the      *)
(* message eligible for re-dispatch on the next dispatcher tick"           *)
(* (consumer handler), and the Dispatcher "cleans up on consumer           *)
(* disconnect": a message that is given back, and that nobody else has     *)
(* acknowledged, is not in flight any more.                                *)
ReturnedIsEligible ==
    [][\A c \in DOMAIN byID, k \in stored \ acked :
          Returns(c, k) => ~IsInFlight(k)']_vars
=============================================================================
