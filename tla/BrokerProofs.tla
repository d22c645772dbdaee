---------------------------- MODULE BrokerProofs ----------------------------
(***************************************************************************)
(* Proofs about module Broker, for any number of messages, consumers,      *)
(* topics and groups, any clock horizon and any number of faults.          *)
(***************************************************************************)
EXTENDS Broker, SequenceTheorems, TLAPS

(***************************************************************************)
(* Buckets, for every bucket width.                                        *)
(***************************************************************************)

(* A time whose quotient is not above that of n is less than one divisor   *)
(* later than n.                                                           *)
LEMMA DivEarly ==
  ASSUME NEW f \in Nat, NEW n \in Nat, NEW d \in Nat, d > 0,
         f \div d <= n \div d
  PROVE  f < n + d
  OBVIOUS

(* Integer division is monotonic. *)
LEMMA DivMono ==
  ASSUME NEW f \in Nat, NEW n \in Nat, NEW d \in Nat, d > 0,
         f <= n
  PROVE  f \div d <= n \div d
  OBVIOUS

(* A bucket is a number. *)
LEMMA BucketType ==
  ASSUME NEW f \in Nat, NEW d \in Nat
  PROVE  CalculateBucket(f, d) \in Nat
  <1>1. CASE f > 0 /\ d > 0
    <2>1. f \div d \in Nat
      BY <1>1
    <2> QED
      BY <1>1, <2>1 DEF CalculateBucket
  <1>2. CASE ~(f > 0 /\ d > 0)
    BY <1>2 DEF CalculateBucket
  <1> QED
    BY <1>1, <1>2

(* CalculateBucket is monotonic in the time: a later fire time never gets  *)
(* an earlier bucket.                                                      *)
LEMMA BucketMono ==
  ASSUME NEW f \in Nat, NEW n \in Nat, NEW d \in Nat, f <= n
  PROVE  CalculateBucket(f, d) <= CalculateBucket(n, d)
  <1>1. CASE f = 0
    BY <1>1 DEF CalculateBucket
  <1>2. CASE d = 0
    BY <1>2 DEF CalculateBucket
  <1>3. CASE f > 0 /\ d > 0
    BY <1>3, DivMono DEF CalculateBucket
  <1> QED
    BY <1>1, <1>2, <1>3

(* A message whose bucket is not after the bucket of n is due less than    *)
(* one bucket width after n: what "due" means to the dispatcher's scan.    *)
LEMMA BucketEarly ==
  ASSUME NEW f \in Nat, NEW n \in Nat, NEW d \in Nat,
         CalculateBucket(f, d) <= CalculateBucket(n, d)
  PROVE  f < n + (IF d = 0 THEN 1 ELSE d)
  <1>1. CASE d = 0
    BY <1>1 DEF CalculateBucket
  <1>2. CASE d > 0
    <2>1. f > 0 => f \div d <= n \div d
      <3>1. CASE n = 0
        <4>1. 0 \div d = 0
          BY <1>2
        <4> QED
          BY <1>2, <3>1, <4>1 DEF CalculateBucket
      <3>2. CASE n > 0
        BY <1>2, <3>2 DEF CalculateBucket
      <3> QED
        BY <3>1, <3>2
    <2> QED
      BY <1>2, <2>1, DivEarly
  <1> QED
    BY <1>1, <1>2

(***************************************************************************)
(* What the operations on subscriptions preserve.                          *)
(***************************************************************************)

(* A topic map: active topics to subscriptions. *)
IsTopicMap(f) == DOMAIN f \subseteq Topics /\ \A t \in DOMAIN f : IsSubscription(f[t])

(* remove takes one member out of a group's list. *)
LEMMA WithoutType ==
  ASSUME NEW members \in Seq(Consumers), NEW c
  PROVE  Without(members, c) \in Seq(Consumers)
  <1>1. CASE c \in Range(members)
    <2> DEFINE i == CHOOSE i \in DOMAIN members : members[i] = c
    <2>1. i \in DOMAIN members
      BY <1>1 DEF Range
    <2>2. Without(members, c) = SubSeq(members, 1, i - 1) \o SubSeq(members, i + 1, Len(members))
      BY <1>1 DEF Without
    <2> HIDE DEF i
    <2>3. SubSeq(members, 1, i - 1) \in Seq(Consumers)
      <3>1. \A j \in 1 .. i - 1 : members[j] \in Consumers
        BY <2>1
      <3> QED
        BY <2>1, <3>1, SubSeqProperties
    <2>4. SubSeq(members, i + 1, Len(members)) \in Seq(Consumers)
      <3>1. \A j \in i + 1 .. Len(members) : members[j] \in Consumers
        BY <2>1
      <3> QED
        BY <2>1, <3>1, SubSeqProperties
    <2> QED
      BY <2>2, <2>3, <2>4
  <1>2. CASE c \notin Range(members)
    BY <1>2 DEF Without
  <1> QED
    BY <1>1, <1>2

(* Registering a consumer (Register, add) keeps the topic map one of       *)
(* subscriptions without empty groups.                                     *)
LEMMA RegisterType ==
  ASSUME NEW f, IsTopicMap(f),
         NEW c \in Consumers, NEW t \in Topics, NEW g \in Groups \cup {NoGroup}
  PROVE  IsTopicMap(RegisterIn(f, c, t, g))
  <1> DEFINE sub == IF t \in DOMAIN f THEN f[t] ELSE NewTopicSubscription
  <1>1. IsSubscription(sub)
    BY DEF IsTopicMap, NewTopicSubscription, IsSubscription, IsGroupMap
  <1>2. IsSubscription(SubAdd(sub, c, g))
    <2>1. CASE g = NoGroup
      BY <1>1, <2>1 DEF SubAdd, IsSubscription
    <2>2. CASE g # NoGroup
      <3> DEFINE members == IF g \in DOMAIN sub.groups THEN sub.groups[g] ELSE <<>>
      <3> HIDE DEF sub
      <3>1. members \in Seq(Consumers)
        BY <1>1 DEF IsSubscription, IsGroupMap
      <3> DEFINE longer == Append(members, c)
      <3>2. longer \in Seq(Consumers) /\ longer # <<>>
        BY <3>1
      <3>3. SubAdd(sub, c, g) = [sub EXCEPT !.groups = MapPut(@, g, longer)]
        BY <2>2 DEF SubAdd
      <3> HIDE DEF longer
      <3>4. IsGroupMap(MapPut(sub.groups, g, longer))
        BY <1>1, <2>2, <3>2 DEF MapPut, IsGroupMap, IsSubscription
      <3> QED
        BY <1>1, <3>3, <3>4 DEF IsSubscription
    <2> QED
      BY <2>1, <2>2
  <1>3. RegisterIn(f, c, t, g) = MapPut(f, t, SubAdd(sub, c, g))
    BY DEF RegisterIn
  <1> HIDE DEF sub
  <1> QED
    BY <1>2, <1>3 DEF IsTopicMap, MapPut

(* So does unregistering one (Unregister, remove): the group goes with its *)
(* last member, the topic with its last consumer.                          *)
LEMMA UnregisterType ==
  ASSUME NEW f, IsTopicMap(f), NEW c, NEW t, NEW g
  PROVE  IsTopicMap(UnregisterFrom(f, c, t, g))
  <1>1. CASE t \notin DOMAIN f
    BY <1>1 DEF UnregisterFrom
  <1>2. CASE t \in DOMAIN f
    <2>1. IsSubscription(f[t])
      BY <1>2 DEF IsTopicMap
    <2>2. IsSubscription(SubRemove(f[t], c, g))
      <3>1. CASE g = NoGroup
        BY <2>1, <3>1 DEF SubRemove, IsSubscription
      <3>2. CASE g # NoGroup
        <4> DEFINE members == Without(f[t].groups[g], c)
        <4>1. g \in DOMAIN f[t].groups => members \in Seq(Consumers)
          BY <2>1, WithoutType DEF IsSubscription, IsGroupMap
        <4>2. SubRemove(f[t], c, g) =
                IF members = <<>> THEN [f[t] EXCEPT !.groups = MapDelete(@, {g})]
                                  ELSE [f[t] EXCEPT !.groups[g] = members]
          BY <3>2 DEF SubRemove
        <4> HIDE DEF members
        <4>3. CASE members = <<>>
          <5>1. IsGroupMap(MapDelete(f[t].groups, {g}))
            BY <2>1 DEF MapDelete, Restrict, IsGroupMap, IsSubscription
          <5> QED
            BY <2>1, <4>2, <4>3, <5>1 DEF IsSubscription
        <4>4. CASE members # <<>>
          <5>1. IsGroupMap([f[t].groups EXCEPT ![g] = members])
            BY <2>1, <4>1, <4>4 DEF IsGroupMap, IsSubscription
          <5> QED
            BY <2>1, <4>2, <4>4, <5>1 DEF IsSubscription
        <4> QED
          BY <4>3, <4>4
      <3> QED
        BY <3>1, <3>2
    <2> DEFINE sub == SubRemove(f[t], c, g)
    <2>3. UnregisterFrom(f, c, t, g) =
            IF SubIsEmpty(sub) THEN MapDelete(f, {t}) ELSE [f EXCEPT ![t] = sub]
      BY <1>2 DEF UnregisterFrom
    <2> HIDE DEF sub
    <2>4. IsSubscription(sub)
      BY <2>2 DEF sub
    <2> QED
      BY <2>3, <2>4 DEF IsTopicMap, MapDelete, Restrict
  <1> QED
    BY <1>1, <1>2

(* The copy DispatchToTopic takes is a subscription, whatever the topic. *)
LEMMA SnapshotType ==
  ASSUME NEW f, IsTopicMap(f), NEW t
  PROVE  IsSubscription(SubSnapshot(f, t))
  BY DEF SubSnapshot, IsTopicMap, NewTopicSubscription, IsSubscription, IsGroupMap

(* Select on a non-empty group yields one of its members, and a counter. *)
LEMMA SelectType ==
  ASSUME NEW idx \in Nat, NEW candidates \in Seq(Consumers), candidates # <<>>
  PROVE  /\ SelectConsumer(idx, candidates) \in Consumers
         /\ SelectNext(idx, candidates) \in Nat
  <1>1. Len(candidates) \in Nat \ {0}
    OBVIOUS
  <1>2. idx % Len(candidates) \in 0 .. Len(candidates) - 1
    BY <1>1
  <1>3. (idx + 1) % Len(candidates) \in Nat
    BY <1>1
  <1> QED
    BY <1>1, <1>2, <1>3 DEF SelectConsumer, SelectNext

(***************************************************************************)
(* The invariant.                                                          *)
(***************************************************************************)

(* What the program counters of the dispatcher and of the handlers say     *)
(* about the rest of the state.                                            *)
ControlOK ==
    /\ \A c \in Consumers : conn[c] \in {"open", "closing"} => c \in DOMAIN byID
    /\ pc \in {"scan", "send"} => topic \in Topics
    /\ pc = "send" => key \in IDs
    /\ pc \in {"idle", "topic"} => scan = {}

TypeInv == TypeOK /\ ControlOK

(* Every key the node works on is the key of a published message. *)
KeysKnown ==
    /\ pending \cup flushing \cup expired \cup sweep \cup scan \subseteq DOMAIN msg
    /\ pc = "send" => key \in DOMAIN msg
    /\ \A c \in Consumers : held[c] \cup Range(ch[c]) \subseteq DOMAIN msg
    /\ acked \subseteq DOMAIN msg
    /\ \A k \in IDs : since[k] < InFlightTimeout => k \in DOMAIN msg

(* What is marked for deletion, or gone, was acknowledged or is expired. *)
DeletionJustified ==
    /\ passNow <= now
    /\ \A k \in pending \cup flushing \cup expired \cup sweep : Done(k)
    /\ \A k \in DOMAIN msg \ stored : Done(k)

(* What the dispatcher scans, sends and has sent is due. *)
SentIsDue ==
    /\ \A k \in scan : Due(k, passNow)
    /\ pc = "send" => Due(key, passNow)
    /\ \A c \in Consumers : \A k \in held[c] \cup Range(ch[c]) : Due(k, now)

(* An acknowledged key is in the deleter's hands, no batch is left behind  *)
(* by a flush, and a deleted batch stays deleted while OnDelete is called. *)
AcksKept ==
    /\ AckNotForgotten
    /\ delPhase = "idle" => flushing = {}
    /\ delPhase = "notifying" => flushing \cap stored = {}

(* The in-flight map agrees with the history for every stored message. *)
InFlightKept ==
    \A k \in stored : since[k] < InFlightTimeout => inFlight[k] = since[k]

Inv ==
    /\ KeysKnown
    /\ DeletionJustified
    /\ SentIsDue
    /\ AcksKept
    /\ InFlightKept
-----------------------------------------------------------------------------
(* The node starts in a well-typed state. *)
LEMMA InitType == Init => TypeInv
  BY BrokerAssumption
  DEF Init, TypeInv, TypeOK, ControlOK, DeleteInit, DeleteTypeOK, Message, Entry,
      Ages, NotTracked, NoKey, NoTopic, IsGroupMap

(* A message given back is one to be dispatched again; the others keep the *)
(* age of their dispatch.                                                  *)
LEMMA ReturnedIs ==
  ASSUME TypeInv, NEW K
  PROVE  /\ Returned(K) \in [IDs -> Ages]
         /\ \A k \in IDs : Returned(K)[k] \in {since[k], InFlightTimeout}
  <1>1. since \in [IDs -> Ages] /\ InFlightTimeout \in Ages
    BY BrokerAssumption DEF TypeInv, TypeOK, Ages
  <1> QED
    BY <1>1 DEF Returned

(* What the handlers make of the age of the last dispatch. *)
LEMMA HandlerSince ==
  ASSUME TypeInv, HandlerStep
  PROVE  /\ since' \in [IDs -> Ages]
         /\ \A k \in IDs : since'[k] \in {since[k], InFlightTimeout}
  <1>1. ASSUME NEW c \in Consumers, NEW k \in IDs, NEW success \in BOOLEAN,
               ReceiverHandle(c, k, success)
        PROVE  since' = since \/ \E K : since' = Returned(K)
    BY <1>1 DEF ReceiverHandle
  <1>2. ASSUME NEW c \in Consumers, Unregister(c)
        PROVE  since' = since \/ \E K : since' = Returned(K)
    BY <1>2 DEF Unregister
  <1>3. since' = since \/ \E K : since' = Returned(K)
    BY <1>1, <1>2, ZenonT(60)
    DEF HandlerStep, Subscribe, SenderSend, SenderError, Disconnect
  <1>4. since \in [IDs -> Ages]
    BY DEF TypeInv, TypeOK
  <1> QED
    BY <1>3, <1>4, ReturnedIs

(* The oldest message of a channel is one of its messages. *)
LEMMA HeadInRange ==
  ASSUME NEW s \in Seq(IDs), s # <<>>
  PROVE  Head(s) \in Range(s)
  <1>1. 1 \in DOMAIN s /\ Head(s) = s[1]
    OBVIOUS
  <1> QED
    BY <1>1 DEF Range

(* The sender takes a message from the channel of c. *)
LEMMA SenderTakes ==
  ASSUME NEW c \in Consumers, TypeOK, ch[c] # <<>>,
         ch' = [ch EXCEPT ![c] = Tail(@)]
  PROVE  /\ ch' \in [Consumers -> Seq(IDs)]
         /\ \A d \in Consumers : Len(ch'[d]) <= ChanCap
         /\ \A d \in Consumers : Range(ch'[d]) \subseteq Range(ch[d])
  <1>1. /\ Tail(ch[c]) \in Seq(IDs)
        /\ Len(Tail(ch[c])) = Len(ch[c]) - 1
        /\ \A i \in 1 .. Len(ch[c]) - 1 : Tail(ch[c])[i] = ch[c][i + 1]
    BY HeadTailProperties DEF TypeOK
  <1>2. Range(Tail(ch[c])) \subseteq Range(ch[c])
    <2> SUFFICES ASSUME NEW i \in DOMAIN Tail(ch[c])
                 PROVE  \E j \in DOMAIN ch[c] : ch[c][j] = Tail(ch[c])[i]
      BY DEF Range
    <2>1. i \in 1 .. Len(ch[c]) - 1
      BY <1>1
    <2>2. i + 1 \in DOMAIN ch[c]
      BY <2>1 DEF TypeOK
    <2> QED
      BY <1>1, <2>1, <2>2
  <1>3. ch \in [Consumers -> Seq(IDs)] /\ \A d \in Consumers : Len(ch[d]) <= ChanCap
    BY DEF TypeOK
  <1>4. ChanCap \in Nat
    BY BrokerAssumption
  <1>5. Len(Tail(ch[c])) <= ChanCap
    BY <1>1, <1>3, <1>4
  <1>6. \A d \in Consumers : ch'[d] = IF d = c THEN Tail(ch[c]) ELSE ch[d]
    BY <1>3
  <1> QED
    BY <1>1, <1>2, <1>3, <1>5, <1>6

(* trySend puts the key on the channel of c if there is room. *)
LEMMA TrySendAdds ==
  ASSUME NEW c \in Consumers, TypeOK, key \in IDs, TrySend(c)
  PROVE  /\ ch' \in [Consumers -> Seq(IDs)]
         /\ \A d \in Consumers : Len(ch'[d]) <= ChanCap
         /\ \A d \in Consumers : Range(ch'[d]) \subseteq Range(ch[d]) \cup {key}
         /\ sentTo' \subseteq Consumers
  <1>1. ch \in [Consumers -> Seq(IDs)] /\ \A d \in Consumers : Len(ch[d]) <= ChanCap
    BY DEF TypeOK
  <1>2. ChanCap \in Nat
    BY BrokerAssumption
  <1>3. sentTo \subseteq Consumers
    BY DEF TypeOK
  <1>4. CASE Len(ch[c]) < ChanCap
    <2>1. ch' = [ch EXCEPT ![c] = Append(@, key)] /\ sentTo' = sentTo \cup {c}
      BY <1>4 DEF TrySend
    <2>2. /\ Append(ch[c], key) \in Seq(IDs)
          /\ Len(Append(ch[c], key)) = Len(ch[c]) + 1
          /\ \A i \in 1 .. Len(ch[c]) + 1 :
                Append(ch[c], key)[i] = IF i = Len(ch[c]) + 1 THEN key ELSE ch[c][i]
      BY <1>1
    <2>3. Range(Append(ch[c], key)) \subseteq Range(ch[c]) \cup {key}
      <3>1. DOMAIN Append(ch[c], key) = 1 .. Len(ch[c]) + 1 /\ DOMAIN ch[c] = 1 .. Len(ch[c])
        BY <1>1, <2>2
      <3> QED
        BY <1>1, <2>2, <3>1 DEF Range
    <2>4. Len(Append(ch[c], key)) <= ChanCap
      BY <1>1, <1>2, <1>4, <2>2
    <2>5. \A d \in Consumers : ch'[d] = IF d = c THEN Append(ch[c], key) ELSE ch[d]
      BY <1>1, <2>1
    <2> QED
      BY <1>1, <1>3, <2>1, <2>2, <2>3, <2>4, <2>5
  <1>5. CASE ~(Len(ch[c]) < ChanCap)
    BY <1>1, <1>3, <1>5 DEF TrySend
  <1> QED
    BY <1>4, <1>5, ZenonT(60)

(* A step for a group sends to one consumer. *)
LEMMA SendToGroupTo ==
  ASSUME NEW g \in Groups, TypeInv, SendToGroup(g)
  PROVE  \E c \in Consumers : TrySend(c)
  <1> DEFINE candidates == groupsLeft[g]
             idx == rrNext[<<topic, g>>]
  <1>1. candidates \in Seq(Consumers) /\ candidates # <<>>
    BY DEF SendToGroup, TypeInv, TypeOK, IsGroupMap
  <1>2. idx \in Nat
    BY DEF SendToGroup, TypeInv, TypeOK, ControlOK
  <1>3. SelectConsumer(idx, candidates) \in Consumers
    BY <1>1, <1>2, SelectType
  <1> QED
    BY <1>3 DEF SendToGroup

(* Every step of every goroutine leads from a well-typed state to one. *)
LEMMA NextType == TypeInv /\ [Next]_vars => TypeInv'
  <1> SUFFICES ASSUME TypeInv, [Next]_vars PROVE TypeInv'
    OBVIOUS
  <1> USE BrokerAssumption DEF TypeInv, TypeOK, ControlOK, DeleteTypeOK
  <1>1. CASE Tick
    <2>1. now' \in 0 .. MaxTime
      BY <1>1 DEF Tick
    <2>2. inFlight' \in [IDs -> Ages \cup {NotTracked}]
      BY <1>1 DEF Tick, Ages, Older, NotTracked
    <2>3. since' \in [IDs -> Ages]
      BY <1>1 DEF Tick, Ages, Older
    <2> QED
      BY <1>1, <2>1, <2>2, <2>3 DEF Tick, hubVars, connVars, passVars, sendVars, delVars
  <1>2. ASSUME NEW k \in IDs, NEW m \in Message, Publish(k, m) PROVE TypeInv'
    BY <1>2, SMTT(30) DEF Publish, MapPut, hubVars, connVars, passVars, sendVars
  <1>3. ASSUME NEW c \in Consumers, NEW t \in Topics, NEW g \in Groups \cup {NoGroup},
               Subscribe(c, t, g)
        PROVE  TypeInv'
    <2>1. IsTopicMap(topics')
      BY <1>3, RegisterType, ZenonT(60) DEF Subscribe, IsTopicMap
    <2> QED
      BY <1>3, <2>1 DEF Subscribe, IsTopicMap, MapPut, Entry, passVars, sendVars, delVars
  <1>4. ASSUME NEW c \in Consumers, SenderSend(c) PROVE TypeInv'
    <2>1. /\ ch' \in [Consumers -> Seq(IDs)]
          /\ \A d \in Consumers : Len(ch'[d]) <= ChanCap
      BY <1>4, SenderTakes DEF SenderSend
    <2>2. held' \in [Consumers -> SUBSET IDs]
      <3>1. Head(ch[c]) \in IDs
        BY <1>4 DEF SenderSend
      <3> QED
        BY <1>4, <3>1 DEF SenderSend
    <2> QED
      BY <1>4, <2>1, <2>2, ZenonT(60) DEF SenderSend, passVars, sendVars, delVars
  <1>5. ASSUME NEW c \in Consumers, SenderError(c) PROVE TypeInv'
    <2>1. /\ ch' \in [Consumers -> Seq(IDs)]
          /\ \A d \in Consumers : Len(ch'[d]) <= ChanCap
      BY <1>5, SenderTakes DEF SenderError
    <2>2. /\ conn' \in [Consumers -> {"new", "open", "closing", "gone"}]
          /\ \A d \in Consumers : conn'[d] \in {"open", "closing"} => d \in DOMAIN byID
      BY <1>5 DEF SenderError
    <2> QED
      BY <1>5, <2>1, <2>2, SMTT(30) DEF SenderError, Fault, passVars, sendVars, delVars
  <1>6. ASSUME NEW c \in Consumers, NEW k \in IDs, NEW success \in BOOLEAN,
               ReceiverHandle(c, k, success)
        PROVE  TypeInv'
    <2>1. held' \in [Consumers -> SUBSET IDs]
      BY <1>6 DEF ReceiverHandle
    <2>2. pending' \subseteq IDs /\ acked' \subseteq IDs
      <3>1. CASE success
        <4>1. pending' = pending \cup {k} /\ acked' = acked \cup {k}
          BY <1>6, <3>1 DEF ReceiverHandle, MarkDeleted
        <4>2. pending \subseteq IDs /\ acked \subseteq IDs
          OBVIOUS
        <4> HIDE DEF TypeInv, TypeOK, ControlOK, DeleteTypeOK
        <4> QED
          BY <4>1, <4>2
      <3>2. CASE ~success
        BY <1>6, <3>2, ZenonT(60) DEF ReceiverHandle
      <3> QED
        BY <3>1, <3>2
    <2>3. since' \in [IDs -> Ages]
      <3>1. TypeInv
        OBVIOUS
      <3> HIDE DEF TypeInv, TypeOK, ControlOK, DeleteTypeOK
      <3>2. HandlerStep
        BY <1>6, Zenon DEF HandlerStep
      <3> QED
        BY <3>1, <3>2, HandlerSince
    <2> QED
      <3>1. UNCHANGED <<now, msg, hubVars, conn, inFlight, passVars, sendVars, sweep,
                        faults, stored, flushing, delPhase>>
        BY <1>6 DEF ReceiverHandle
      <3> QED
        BY <2>1, <2>2, <2>3, <3>1, SMTT(30) DEF hubVars, passVars, sendVars
  <1>7. ASSUME NEW c \in Consumers, Disconnect(c) PROVE TypeInv'
    BY <1>7 DEF Disconnect, Fault, hubVars, passVars, sendVars, delVars
  <1>8. ASSUME NEW c \in Consumers, Unregister(c) PROVE TypeInv'
    <2>1. IsTopicMap(topics')
      BY <1>8, UnregisterType, ZenonT(60) DEF Unregister, IsTopicMap
    <2>2. since' \in [IDs -> Ages]
      <3>1. HandlerStep
        BY <1>8, Zenon DEF HandlerStep
      <3> QED
        BY <3>1, HandlerSince
    <2> QED
      BY <1>8, <2>1, <2>2, SMTT(30) DEF Unregister, IsTopicMap, MapDelete, Restrict, passVars, sendVars, delVars
  <1>9. CASE IdlePass
    BY <1>9, SMTT(30) DEF IdlePass, vars, hubVars, connVars, passVars, sendVars, delVars
  <1>10. CASE StartPass
    BY <1>10, SMTT(30) DEF StartPass, hubVars, connVars, sendVars, delVars
  <1>11. ASSUME NEW t \in Topics, StartTopic(t) PROVE TypeInv'
    BY <1>11 DEF StartTopic, hubVars, connVars, sendVars, delVars
  <1>12. ASSUME NEW k \in IDs, SkipInFlight(k) PROVE TypeInv'
    BY <1>12 DEF SkipInFlight, Visits, hubVars, connVars, sendVars, delVars
  <1>13. ASSUME NEW k \in IDs, CollectExpired(k) PROVE TypeInv'
    BY <1>13 DEF CollectExpired, Visits, hubVars, connVars, sendVars, delVars
  <1>14. ASSUME NEW k \in IDs, BeginDispatch(k) PROVE TypeInv'
    <2>1. IsSubscription(SubSnapshot(topics, topic))
      BY SnapshotType, ZenonT(60) DEF IsTopicMap
    <2> QED
      BY <1>14, <2>1 DEF BeginDispatch, Visits, IsSubscription, hubVars, connVars, delVars
  <1>15. ASSUME NEW g \in Groups, SendToGroup(g) PROVE TypeInv'
    <2> DEFINE candidates == groupsLeft[g]
               idx == rrNext[<<topic, g>>]
               c == SelectConsumer(idx, candidates)
    <2>1. candidates \in Seq(Consumers) /\ candidates # <<>>
      BY <1>15 DEF SendToGroup, IsGroupMap
    <2>2. idx \in Nat
      BY <1>15 DEF SendToGroup
    <2>3. c \in Consumers /\ SelectNext(idx, candidates) \in Nat
      BY <2>1, <2>2, SelectType, ZenonT(60)
    <2>4. /\ rrNext' = [rrNext EXCEPT ![<<topic, g>>] = SelectNext(idx, candidates)]
          /\ TrySend(c)
          /\ groupsLeft' = MapDelete(groupsLeft, {g})
      BY <1>15 DEF SendToGroup
    <2> HIDE DEF c, idx, candidates
    <2>5. IsGroupMap(groupsLeft')
      BY <2>4 DEF MapDelete, Restrict, IsGroupMap
    <2>6. rrNext' \in [Topics \X Groups -> Nat]
      BY <2>3, <2>4, ZenonT(60)
    <2>7. /\ ch' \in [Consumers -> Seq(IDs)]
          /\ \A d \in Consumers : Len(ch'[d]) <= ChanCap
          /\ sentTo' \subseteq Consumers
      BY <1>15, <2>3, <2>4, TrySendAdds, ZenonT(60) DEF SendToGroup
    <2> QED
      BY <1>15, <2>5, <2>6, <2>7, ZenonT(60) DEF SendToGroup, connVars, passVars, delVars
  <1>16. ASSUME NEW c \in Consumers, SendToUniversal(c) PROVE TypeInv'
    <2>1. /\ ch' \in [Consumers -> Seq(IDs)]
          /\ \A d \in Consumers : Len(ch'[d]) <= ChanCap
          /\ sentTo' \subseteq Consumers
      BY <1>16, TrySendAdds, ZenonT(60) DEF SendToUniversal
    <2> QED
      BY <1>16, <2>1, SMTT(30) DEF SendToUniversal, connVars, passVars, delVars
  <1>17. CASE EndDispatch
    <2>1. inFlight' \in [IDs -> Ages \cup {NotTracked}]
      BY <1>17 DEF EndDispatch, Ages
    <2>2. since' \in [IDs -> Ages]
      BY <1>17 DEF EndDispatch, Ages
    <2> QED
      BY <1>17, <2>1, <2>2 DEF EndDispatch, NoKey, hubVars, connVars, delVars
  <1>18. CASE ScanError
    BY <1>18 DEF ScanError, Fault, hubVars, connVars, sendVars, delVars
  <1>19. ASSUME NEW k \in IDs, MarkExpired(k) PROVE TypeInv'
    BY <1>19 DEF MarkExpired, MarkDeleted, hubVars, connVars, sendVars
  <1>20. CASE EndTopic
    BY <1>20 DEF EndTopic, NoTopic, hubVars, connVars, sendVars, delVars
  <1>21. CASE Sweep
    BY <1>21 DEF Sweep, hubVars, connVars, passVars, sendVars, delVars
  <1>22. ASSUME NEW k \in IDs, SweepMark(k) PROVE TypeInv'
    BY <1>22 DEF SweepMark, MarkDeleted, hubVars, connVars, passVars, sendVars
  <1>23. CASE Flush
    BY <1>23 DEF Flush, FlushDrain, deleterFrame, hubVars, connVars, passVars, sendVars
  <1>24. CASE FlushOK
    BY <1>24 DEF FlushOK, DeleteKeysOK, deleterFrame, hubVars, connVars, passVars, sendVars
  <1>25. CASE FlushError
    BY <1>25 DEF FlushError, DeleteKeysError, Fault, deleterFrame, hubVars, connVars, passVars, sendVars
  <1>26. ASSUME NEW k \in IDs, NEW rest \in SUBSET IDs, OnDelete(k, rest) PROVE TypeInv'
    BY <1>26 DEF OnDelete, NotifyDelete, deleterFrame, hubVars, connVars, passVars, sendVars
  <1>27. CASE Crash
    <2>1. acked' \subseteq IDs
      BY <1>27 DEF Crash
    <2> QED
      BY <1>27, <2>1, SMTT(30) DEF Crash, Fault, Ages, NotTracked, NoKey, NoTopic, IsGroupMap
  <1>28. CASE UNCHANGED vars
    BY <1>28 DEF vars, hubVars, connVars, passVars, sendVars, delVars
  <1> QED
    BY <1>1, <1>2, <1>3, <1>4, <1>5, <1>6, <1>7, <1>8, <1>9, <1>10, <1>11, <1>12,
       <1>13, <1>14, <1>15, <1>16, <1>17, <1>18, <1>19, <1>20, <1>21, <1>22, <1>23,
       <1>24, <1>25, <1>26, <1>27, <1>28, ZenonT(60)
    DEF Next, HandlerStep, DispatcherStep, JanitorStep, DeleterStep

(* Every reachable state is well typed, whatever the bounds: no channel    *)
(* holds more than its capacity, and no group is kept without a member     *)
(* (Select would divide by zero on one).                                   *)
THEOREM TypeCorrect == Spec => []TypeOK
  <1>1. TypeInv => TypeOK
    BY DEF TypeInv
  <1> QED
    BY <1>1, InitType, NextType, PTL DEF Spec
-----------------------------------------------------------------------------
(* The invariant holds when the node starts: it works on nothing yet. *)
LEMMA InitInv == Init => Inv
  BY BrokerAssumption
  DEF Init, DeleteInit, Inv, KeysKnown, DeletionJustified, SentIsDue, AcksKept,
      AckNotForgotten, InFlightKept, NoKey, Range

(* A published message keeps its contents: msg only grows, with new keys. *)
LEMMA MessagesStay ==
  ASSUME TypeInv, [Next]_vars
  PROVE  DOMAIN msg \subseteq DOMAIN msg' /\ \A k \in DOMAIN msg : msg'[k] = msg[k]
  <1>1. ASSUME NEW k \in IDs, NEW m \in Message, Publish(k, m)
        PROVE  DOMAIN msg \subseteq DOMAIN msg' /\ \A j \in DOMAIN msg : msg'[j] = msg[j]
    BY <1>1 DEF Publish, MapPut
  <1>2. CASE ~\E k \in IDs, m \in Message : Publish(k, m)
    <2>1. UNCHANGED msg
      BY <1>2, ZenonT(60) DEF Next, vars, Tick, HandlerStep, Subscribe, SenderSend, SenderError,
         ReceiverHandle, Disconnect, Unregister, DispatcherStep, IdlePass, StartPass,
         StartTopic, SkipInFlight, CollectExpired, BeginDispatch, SendToGroup,
         SendToUniversal, EndDispatch, ScanError, MarkExpired, EndTopic, JanitorStep,
         Sweep, SweepMark, DeleterStep, Flush, FlushOK, FlushError, OnDelete,
         deleterFrame, Crash
    <2> QED
      BY <2>1
  <1> QED
    BY <1>1, <1>2

(* What a consumer has, in its channel or at its client, grows only by the *)
(* key being dispatched.                                                   *)
LEMMA SentGrowth ==
  ASSUME TypeInv, [Next]_vars
  PROVE  \A d \in Consumers : held'[d] \cup Range(ch'[d]) \subseteq
             held[d] \cup Range(ch[d]) \cup (IF pc = "send" THEN {key} ELSE {})
  <1> DEFINE grows == \A d \in Consumers : held'[d] \cup Range(ch'[d]) \subseteq
                 held[d] \cup Range(ch[d]) \cup (IF pc = "send" THEN {key} ELSE {})
  <1> SUFFICES grows
    OBVIOUS
  <1>t. /\ TypeOK
        /\ held \in [Consumers -> SUBSET IDs] /\ ch \in [Consumers -> Seq(IDs)]
        /\ pc = "send" => key \in IDs
    BY DEF TypeInv, TypeOK, ControlOK
  <1>1. ASSUME NEW c \in Consumers, SenderSend(c) PROVE grows
    <2>1. /\ ch[c] # <<>>
          /\ held' = [held EXCEPT ![c] = @ \cup {Head(ch[c])}]
          /\ ch' = [ch EXCEPT ![c] = Tail(@)]
      BY <1>1 DEF SenderSend
    <2>2. \A d \in Consumers : Range(ch'[d]) \subseteq Range(ch[d])
      BY <1>t, <2>1, SenderTakes, ZenonT(60)
    <2>3. Head(ch[c]) \in Range(ch[c])
      BY <1>t, <2>1, HeadInRange
    <2>4. \A d \in Consumers : held'[d] \subseteq held[d] \cup Range(ch[d])
      BY <1>t, <2>1, <2>3
    <2> QED
      BY <2>2, <2>4
  <1>2. ASSUME NEW c \in Consumers, SenderError(c) PROVE grows
    <2>1. ch[c] # <<>> /\ ch' = [ch EXCEPT ![c] = Tail(@)] /\ held' = held
      BY <1>2 DEF SenderError
    <2>2. \A d \in Consumers : Range(ch'[d]) \subseteq Range(ch[d])
      BY <1>t, <2>1, SenderTakes, ZenonT(60)
    <2> QED
      BY <2>1, <2>2
  <1>3. ASSUME NEW c \in Consumers, NEW k \in IDs, NEW success \in BOOLEAN,
               ReceiverHandle(c, k, success)
        PROVE  grows
    <2>1. ch' = ch /\ held' = [held EXCEPT ![c] = @ \ {k}]
      BY <1>3 DEF ReceiverHandle, hubVars
    <2> QED
      BY <1>t, <2>1
  <1>4. ASSUME NEW c \in Consumers, pc = "send", TrySend(c), UNCHANGED held PROVE grows
    <2>1. \A d \in Consumers : Range(ch'[d]) \subseteq Range(ch[d]) \cup {key}
      BY <1>4, <1>t, TrySendAdds, ZenonT(60)
    <2> QED
      BY <1>4, <2>1
  <1>5. ASSUME NEW g \in Groups, SendToGroup(g) PROVE grows
    <2>1. pc = "send" /\ UNCHANGED held
      BY <1>5 DEF SendToGroup, connVars
    <2> QED
      BY <1>4, <1>5, <2>1, SendToGroupTo, ZenonT(60)
  <1>6. ASSUME NEW c \in Consumers, SendToUniversal(c) PROVE grows
    <2>1. pc = "send" /\ TrySend(c) /\ UNCHANGED held
      BY <1>6 DEF SendToUniversal, connVars
    <2> QED
      BY <1>4, <2>1, ZenonT(60)
  <1>7. CASE Crash
    BY <1>7 DEF Crash, Range
  <1>8. CASE UNCHANGED <<held, ch>>
    BY <1>8
  <1> HIDE DEF grows
  <1>9. CASE HandlerStep
    BY <1>1, <1>2, <1>3, <1>8, <1>9, ZenonT(60)
    DEF HandlerStep, Subscribe, Disconnect, Unregister, hubVars
  <1>10. CASE DispatcherStep
    BY <1>5, <1>6, <1>8, <1>10, ZenonT(60)
    DEF DispatcherStep, IdlePass, StartPass, StartTopic, SkipInFlight, CollectExpired,
        BeginDispatch, EndDispatch, ScanError, MarkExpired, EndTopic, vars, hubVars, connVars
  <1>11. CASE JanitorStep \/ DeleterStep
    BY <1>8, <1>11, ZenonT(60)
    DEF JanitorStep, Sweep, SweepMark, DeleterStep, Flush, FlushOK, FlushError, OnDelete,
        deleterFrame, hubVars, connVars
  <1> QED
    BY <1>7, <1>8, <1>9, <1>10, <1>11, ZenonT(60)
    DEF Next, vars, Tick, Publish, hubVars, connVars

(* No step makes the node work on a key that was not published. *)
LEMMA NextKeysKnown == TypeInv /\ KeysKnown /\ [Next]_vars => KeysKnown'
  <1> SUFFICES ASSUME TypeInv, KeysKnown, [Next]_vars PROVE KeysKnown'
    OBVIOUS
  <1> DEFINE working == pending \cup flushing \cup expired \cup sweep \cup scan
  <1>1. DOMAIN msg \subseteq DOMAIN msg'
    BY MessagesStay, ZenonT(60)
  <1>2. \A c \in Consumers : held'[c] \cup Range(ch'[c]) \subseteq DOMAIN msg'
    <2>1. \A c \in Consumers : held[c] \cup Range(ch[c]) \cup (IF pc = "send" THEN {key} ELSE {})
                                  \subseteq DOMAIN msg
      BY DEF KeysKnown
    <2> QED
      BY <1>1, <2>1, SentGrowth, ZenonT(60)
  <1>3. working' \subseteq DOMAIN msg /\ acked' \subseteq DOMAIN msg
    <2>t. /\ working \subseteq DOMAIN msg /\ stored \subseteq DOMAIN msg
          /\ \A c \in Consumers : held[c] \subseteq DOMAIN msg
          /\ acked \subseteq DOMAIN msg
      BY DEF KeysKnown, TypeInv, TypeOK
    <2> DEFINE known == working' \subseteq DOMAIN msg /\ acked' \subseteq DOMAIN msg
    <2> SUFFICES known
      OBVIOUS
    <2>1. ASSUME NEW c \in Consumers, NEW k \in IDs, NEW success \in BOOLEAN,
                 ReceiverHandle(c, k, success)
          PROVE  known
      <3>1. /\ k \in held[c]
            /\ pending' \subseteq pending \cup {k} /\ acked' \subseteq acked \cup {k}
            /\ UNCHANGED <<flushing, expired, sweep, scan>>
        BY <2>1 DEF ReceiverHandle, MarkDeleted, passVars
      <3> QED
        BY <2>t, <3>1
    <2>2. ASSUME working' \subseteq working \cup stored, acked' \subseteq acked PROVE known
      BY <2>2, <2>t
    <2>3. ASSUME NEW t \in Topics, StartTopic(t) PROVE known
      BY <2>2, <2>3 DEF StartTopic, delVars
    <2>4. ASSUME NEW k \in IDs, SkipInFlight(k) \/ CollectExpired(k) \/ BeginDispatch(k)
          PROVE  known
      BY <2>2, <2>4 DEF SkipInFlight, CollectExpired, BeginDispatch, Visits, delVars
    <2>5. CASE ScanError
      BY <2>2, <2>5 DEF ScanError, delVars
    <2>6. ASSUME NEW k \in IDs, MarkExpired(k) PROVE known
      BY <2>2, <2>6 DEF MarkExpired, MarkDeleted
    <2>7. CASE Sweep
      BY <2>2, <2>7 DEF Sweep, passVars, delVars
    <2>8. ASSUME NEW k \in IDs, SweepMark(k) PROVE known
      BY <2>2, <2>8 DEF SweepMark, MarkDeleted, passVars
    <2>9. CASE Flush \/ FlushOK \/ FlushError
      BY <2>2, <2>9 DEF Flush, FlushDrain, FlushOK, DeleteKeysOK, FlushError, DeleteKeysError,
                        deleterFrame, passVars
    <2>10. ASSUME NEW k \in IDs, NEW rest \in SUBSET IDs, OnDelete(k, rest) PROVE known
      BY <2>2, <2>10 DEF OnDelete, NotifyDelete, deleterFrame, passVars
    <2>11. CASE Crash
      BY <2>2, <2>11 DEF Crash
    <2>12. CASE UNCHANGED <<scan, expired, sweep, acked, pending, flushing>>
      BY <2>2, <2>12
    <2> HIDE DEF known
    <2>13. CASE HandlerStep
      BY <2>1, <2>12, <2>13, ZenonT(60)
      DEF HandlerStep, Subscribe, SenderSend, SenderError, Disconnect, Unregister, passVars, delVars
    <2>14. CASE DispatcherStep
      BY <2>3, <2>4, <2>5, <2>6, <2>12, <2>14, ZenonT(60)
      DEF DispatcherStep, IdlePass, StartPass, SendToGroup, SendToUniversal, EndDispatch,
          EndTopic, vars, passVars, delVars
    <2> QED
      BY <2>7, <2>8, <2>9, <2>10, <2>11, <2>12, <2>13, <2>14, ZenonT(60)
      DEF Next, vars, Tick, Publish, JanitorStep, DeleterStep, passVars, delVars
  <1>4. pc' = "send" => key' \in DOMAIN msg
    <2>t. scan \subseteq DOMAIN msg /\ (pc = "send" => key \in DOMAIN msg)
      BY DEF KeysKnown
    <2>1. ASSUME NEW k \in IDs, SkipInFlight(k) \/ CollectExpired(k) \/ BeginDispatch(k)
          PROVE  pc' = "send" => key' \in DOMAIN msg
      BY <2>1, <2>t DEF SkipInFlight, CollectExpired, BeginDispatch, Visits, sendVars
    <2>2. ASSUME pc' = "send" => pc = "send" /\ key' = key
          PROVE  pc' = "send" => key' \in DOMAIN msg
      BY <2>2, <2>t
    <2>3. CASE StartPass \/ EndDispatch \/ EndTopic \/ Crash \/ \E t \in Topics : StartTopic(t)
      BY <2>2, <2>3 DEF StartPass, EndDispatch, EndTopic, Crash, StartTopic
    <2>4. CASE UNCHANGED <<pc, key>>
      BY <2>2, <2>4
    <2>5. CASE HandlerStep \/ JanitorStep \/ DeleterStep
      BY <2>4, <2>5, ZenonT(60)
      DEF HandlerStep, Subscribe, SenderSend, SenderError, ReceiverHandle, Disconnect,
          Unregister, JanitorStep, Sweep, SweepMark, DeleterStep, Flush, FlushOK,
          FlushError, OnDelete, deleterFrame, passVars, sendVars
    <2>6. CASE DispatcherStep
      BY <2>1, <2>3, <2>4, <2>6, ZenonT(60)
      DEF DispatcherStep, IdlePass, SendToGroup, SendToUniversal, ScanError, MarkExpired,
          vars, passVars, sendVars
    <2> QED
      BY <2>3, <2>4, <2>5, <2>6, ZenonT(60) DEF Next, vars, Tick, Publish, passVars, sendVars
  <1>5. \A k \in IDs : since'[k] < InFlightTimeout => k \in DOMAIN msg
    <2>t. /\ \A k \in IDs : since[k] < InFlightTimeout => k \in DOMAIN msg
          /\ since \in [IDs -> Ages] /\ InFlightTimeout \in Nat
          /\ pc = "send" => key \in DOMAIN msg
      BY BrokerAssumption DEF KeysKnown, TypeInv, TypeOK
    <2>1. CASE Tick
      <3>1. \A k \in IDs : since'[k] = Older(since[k])
        BY <2>1 DEF Tick
      <3> QED
        BY <2>t, <3>1 DEF Older, Ages
    <2>2. CASE EndDispatch
      <3>1. pc = "send" /\ (since' = since \/ since' = [since EXCEPT ![key] = 0])
        BY <2>2 DEF EndDispatch
      <3> QED
        BY <2>t, <3>1
    <2>3. CASE Crash
      BY <2>3, <2>t DEF Crash
    <2>4. CASE UNCHANGED since
      BY <2>4, <2>t
    <2>5. CASE HandlerStep
      BY <2>5, <2>t, HandlerSince
    <2>7. CASE JanitorStep \/ DeleterStep
      BY <2>4, <2>7, ZenonT(60)
      DEF JanitorStep, Sweep, SweepMark, DeleterStep, Flush, FlushOK, FlushError,
          OnDelete, deleterFrame
    <2>6. CASE DispatcherStep
      BY <2>2, <2>4, <2>6, ZenonT(60)
      DEF DispatcherStep, IdlePass, StartPass, StartTopic, SkipInFlight, CollectExpired,
          BeginDispatch, SendToGroup, SendToUniversal, ScanError, MarkExpired, EndTopic, vars
    <2> QED
      BY <2>1, <2>3, <2>4, <2>5, <2>6, <2>7, ZenonT(60) DEF Next, vars, Publish
  <1> HIDE DEF working
  <1>6. working' \subseteq DOMAIN msg'
    BY <1>1, <1>3
  <1> QED
    BY <1>1, <1>2, <1>3, <1>4, <1>5, <1>6 DEF KeysKnown, working

(* The times of a message. *)
LEMMA MessageTimes ==
  ASSUME TypeInv, NEW k \in DOMAIN msg
  PROVE  msg[k].enq \in Nat /\ msg[k].delay \in Nat /\ msg[k].ttl \in Nat
  <1>1. msg[k] \in Message
    BY DEF TypeInv, TypeOK
  <1>2. PICK e \in 0 .. MaxTime, o \in Offers :
           msg[k].enq = e /\ msg[k].delay = o[1] /\ msg[k].ttl = o[2]
    BY <1>1 DEF Message
  <1>3. e \in Nat /\ o[1] \in Nat /\ o[2] \in Nat
    BY BrokerAssumption
  <1> QED
    BY <1>2, <1>3

(* The clock does not run backwards. *)
LEMMA ClockForward ==
  ASSUME TypeInv, [Next]_vars
  PROVE  now \in Nat /\ now' \in Nat /\ now <= now'
  <1>1. now \in Nat
    BY BrokerAssumption DEF TypeInv, TypeOK
  <1>2. CASE Tick
    BY <1>1, <1>2 DEF Tick
  <1>3. CASE ~Tick
    <2>1. UNCHANGED now
      BY <1>3, ZenonT(60) DEF Next, vars, Publish, HandlerStep, Subscribe, SenderSend, SenderError,
         ReceiverHandle, Disconnect, Unregister, DispatcherStep, IdlePass, StartPass,
         StartTopic, SkipInFlight, CollectExpired, BeginDispatch, SendToGroup,
         SendToUniversal, EndDispatch, ScanError, MarkExpired, EndTopic, JanitorStep,
         Sweep, SweepMark, DeleterStep, Flush, FlushOK, FlushError, OnDelete,
         deleterFrame, Crash
    <2> QED
      BY <1>1, <2>1
  <1> QED
    BY <1>2, <1>3

(* A message that is due stays so. *)
LEMMA DueStays ==
  ASSUME TypeInv, [Next]_vars, NEW k \in DOMAIN msg, Due(k, now)
  PROVE  Due(k, now)'
  <1>1. msg'[k] = msg[k] /\ now \in Nat /\ now' \in Nat /\ now <= now'
    BY MessagesStay, ClockForward
  <1>2. CalculateBucket(now, BucketMs) <= CalculateBucket(now', BucketMs)
    BY <1>1, BucketMono, BrokerAssumption
  <1>3. /\ CalculateBucket(msg[k].enq + msg[k].delay, BucketMs) \in Int
        /\ CalculateBucket(now, BucketMs) \in Int
        /\ CalculateBucket(now', BucketMs) \in Int
    <2>1. msg[k].enq + msg[k].delay \in Nat
      BY MessageTimes
    <2>2. BucketMs \in Nat
      BY BrokerAssumption
    <2>3. \A n \in Nat : CalculateBucket(n, BucketMs) \in Int
      BY <2>2, BucketType
    <2> QED
      BY <1>1, <2>1, <2>3, Zenon
  <1> QED
    BY <1>1, <1>2, <1>3 DEF Due, FireAt

(* A message that is expired stays so. *)
LEMMA ExpiredStays ==
  ASSUME TypeInv, [Next]_vars, NEW k \in DOMAIN msg, IsExpired(k, now)
  PROVE  IsExpired(k, now)'
  <1>1. msg'[k] = msg[k] /\ now \in Nat /\ now' \in Nat /\ now <= now'
    BY MessagesStay, ClockForward
  <1>2. msg[k].enq \in Nat /\ msg[k].ttl \in Nat
    BY MessageTimes
  <1> QED
    BY <1>1, <1>2 DEF IsExpired

(* The clock reading of a pass is not in the future. *)
LEMMA PassNowPast ==
  ASSUME TypeInv, passNow <= now, [Next]_vars
  PROVE  passNow' <= now'
  <1>1. passNow \in Nat /\ now \in Nat /\ now' \in Nat /\ now <= now'
    BY ClockForward, BrokerAssumption DEF TypeInv, TypeOK
  <1>2. CASE StartPass \/ EndTopic \/ Crash
    <2>1. passNow' \in {passNow, now, 0}
      BY <1>2 DEF StartPass, EndTopic, Crash
    <2> QED
      BY <1>1, <2>1
  <1>3. CASE ~(StartPass \/ EndTopic \/ Crash)
    <2>1. UNCHANGED passNow
      BY <1>3, ZenonT(60) DEF Next, vars, Tick, Publish, HandlerStep, Subscribe, SenderSend, SenderError,
         ReceiverHandle, Disconnect, Unregister, DispatcherStep, IdlePass,
         StartTopic, SkipInFlight, CollectExpired, BeginDispatch, SendToGroup,
         SendToUniversal, EndDispatch, ScanError, MarkExpired, JanitorStep,
         Sweep, SweepMark, DeleterStep, Flush, FlushOK, FlushError, OnDelete,
         deleterFrame, passVars
    <2> QED
      BY <1>1, <2>1
  <1> QED
    BY <1>2, <1>3

(* Acknowledgements are forgotten only by a crash. *)
LEMMA AckedStays ==
  ASSUME [Next]_vars, ~Crash
  PROVE  acked \subseteq acked'
  <1>1. ASSUME NEW c \in Consumers, NEW k \in IDs, NEW success \in BOOLEAN,
               ReceiverHandle(c, k, success)
        PROVE  acked \subseteq acked'
    BY <1>1 DEF ReceiverHandle
  <1>2. CASE ~\E c \in Consumers, k \in IDs, success \in BOOLEAN : ReceiverHandle(c, k, success)
    <2>1. UNCHANGED acked
      BY <1>2, ZenonT(60) DEF Next, vars, Tick, Publish, HandlerStep, Subscribe, SenderSend, SenderError,
         Disconnect, Unregister, DispatcherStep, IdlePass, StartPass,
         StartTopic, SkipInFlight, CollectExpired, BeginDispatch, SendToGroup,
         SendToUniversal, EndDispatch, ScanError, MarkExpired, EndTopic, JanitorStep,
         Sweep, SweepMark, DeleterStep, Flush, FlushOK, FlushError, OnDelete,
         deleterFrame
    <2> QED
      BY <2>1
  <1> QED
    BY <1>1, <1>2

(* What is marked for deletion, or gone, stays acknowledged or expired. *)
LEMMA NextDeletionJustified ==
  ASSUME TypeInv, KeysKnown, DeletionJustified, [Next]_vars
  PROVE  DeletionJustified'
  <1> DEFINE marked == pending \cup flushing \cup expired \cup sweep
             gone == DOMAIN msg \ stored
  <1>1. passNow' <= now'
    BY PassNowPast DEF DeletionJustified
  <1>2. CASE Crash
    <2>1. \A k \in DOMAIN msg \ stored : k \in acked => k \in acked'
      BY <1>2, ZenonT(60) DEF Crash
    <2>2. \A k \in DOMAIN msg : IsExpired(k, now) => IsExpired(k, now)'
      BY <1>2 DEF Crash, IsExpired
    <2>3. \A k \in DOMAIN msg \ stored : Done(k)'
      BY <2>1, <2>2 DEF DeletionJustified, Done
    <2> QED
      BY <1>1, <1>2, <2>3 DEF Crash, DeletionJustified
  <1>3. CASE ~Crash
    <2>1. \A k \in DOMAIN msg : Done(k) => Done(k)'
      <3>1. \A k : k \in acked => k \in acked'
        BY <1>3, AckedStays
      <3> QED
        BY <3>1, ExpiredStays DEF Done
    <2> SUFFICES /\ \A k \in marked' : k \in marked \/ k \in acked'
                                        \/ (k \in DOMAIN msg /\ IsExpired(k, now))
                 /\ gone' \subseteq gone \cup marked
      <3>1. marked \cup gone \subseteq DOMAIN msg /\ \A k \in marked \cup gone : Done(k)
        BY DEF KeysKnown, DeletionJustified
      <3> HIDE DEF marked, gone
      <3>2. \A k \in marked' : Done(k)'
        BY <2>1, <3>1 DEF Done
      <3>3. \A k \in gone' : Done(k)'
        BY <2>1, <3>1
      <3> QED
        BY <1>1, <3>2, <3>3 DEF DeletionJustified, marked, gone
    <2>2. ASSUME NEW k \in IDs, NEW m \in Message, Publish(k, m)
          PROVE  marked' = marked /\ gone' \subseteq gone
      BY <2>2 DEF Publish, MapPut, passVars
    <2>3. ASSUME NEW c \in Consumers, NEW k \in IDs, NEW success \in BOOLEAN,
                 ReceiverHandle(c, k, success)
          PROVE  (\A j \in marked' : j \in marked \/ j \in acked') /\ gone' = gone
      BY <2>3 DEF ReceiverHandle, MarkDeleted, passVars
    <2>4. ASSUME NEW k \in IDs, CollectExpired(k)
          PROVE  (\A j \in marked' : j \in marked \/ (j \in DOMAIN msg /\ IsExpired(j, now)))
                 /\ gone' = gone
      <3>1. k \in DOMAIN msg
        BY <2>4 DEF CollectExpired, Visits, KeysKnown
      <3>2. passNow \in Nat /\ now \in Nat /\ passNow <= now
        BY BrokerAssumption DEF TypeInv, TypeOK, DeletionJustified
      <3>3. IsExpired(k, now)
        BY <2>4, <3>1, <3>2, MessageTimes DEF CollectExpired, IsExpired
      <3> QED
        BY <2>4, <3>1, <3>3 DEF CollectExpired, delVars
    <2>5. ASSUME NEW k \in IDs, MarkExpired(k) PROVE marked' = marked /\ gone' = gone
      BY <2>5 DEF MarkExpired, MarkDeleted
    <2>6. CASE Sweep
      BY <2>6 DEF Sweep, TypeInv, TypeOK, passVars, delVars
    <2>7. ASSUME NEW k \in IDs, SweepMark(k) PROVE marked' = marked /\ gone' = gone
      BY <2>7 DEF SweepMark, MarkDeleted, passVars
    <2>8. CASE Flush \/ FlushOK \/ FlushError
      BY <2>8 DEF Flush, FlushDrain, FlushOK, DeleteKeysOK, FlushError, DeleteKeysError,
                  deleterFrame, passVars
    <2>9. ASSUME NEW k \in IDs, NEW rest \in SUBSET IDs, OnDelete(k, rest)
          PROVE  marked' \subseteq marked /\ gone' = gone
      BY <2>9 DEF OnDelete, NotifyDelete, deleterFrame, passVars
    <2>10. CASE UNCHANGED <<msg, expired, sweep, delVars>>
      BY <2>10 DEF delVars
    <2>11. CASE Tick \/ HandlerStep \/ DispatcherStep \/ UNCHANGED vars
      BY <2>3, <2>4, <2>5, <2>10, <2>11, ZenonT(60)
      DEF vars, Tick, HandlerStep, Subscribe, SenderSend, SenderError, Disconnect,
          Unregister, DispatcherStep, IdlePass, StartPass, StartTopic, SkipInFlight,
          BeginDispatch, SendToGroup, SendToUniversal, EndDispatch, ScanError, EndTopic,
          passVars
    <2> QED
      BY <1>3, <2>2, <2>6, <2>7, <2>8, <2>9, <2>11 DEF Next, JanitorStep, DeleterStep
  <1> QED
    BY <1>2, <1>3

(* What is scanned is due at the time of the pass, what is sent is due. *)
LEMMA NextSentIsDue ==
  ASSUME TypeInv, KeysKnown, DeletionJustified, SentIsDue, [Next]_vars
  PROVE  SentIsDue'
  <1>t. pc \in {"idle", "topic"} => scan = {}
    BY DEF TypeInv, ControlOK
  <1>1. \A k \in DOMAIN msg :
           Due(k, passNow) => CalculateBucket(msg'[k].enq + msg'[k].delay, BucketMs)
                                 <= CalculateBucket(passNow, BucketMs)
    BY MessagesStay DEF Due, FireAt
  <1>2. \A c \in Consumers : \A k \in held[c] \cup Range(ch[c]) : Due(k, now)'
    <2>1. \A c \in Consumers : \A k \in held[c] \cup Range(ch[c]) : k \in DOMAIN msg /\ Due(k, now)
      BY DEF KeysKnown, SentIsDue
    <2> QED
      BY <2>1, DueStays, ZenonT(60)
  <1>3. pc = "send" => \A k \in {key} : Due(k, now)'
    <2> SUFFICES ASSUME pc = "send" PROVE \A k \in {key} : Due(k, now)'
      OBVIOUS
    <2>1. key \in DOMAIN msg /\ Due(key, passNow)
      BY DEF KeysKnown, SentIsDue
    <2>2. passNow \in Nat /\ now \in Nat /\ passNow <= now /\ BucketMs \in Nat
      <3>1. MaxTime \in Nat /\ BucketMs \in Nat
        BY BrokerAssumption
      <3>2. passNow \in 0 .. MaxTime /\ now \in 0 .. MaxTime /\ passNow <= now
        BY DEF TypeInv, TypeOK, DeletionJustified
      <3> QED
        BY <3>1, <3>2
    <2>3. /\ CalculateBucket(passNow, BucketMs) \in Nat
          /\ CalculateBucket(now, BucketMs) \in Nat
          /\ CalculateBucket(passNow, BucketMs) <= CalculateBucket(now, BucketMs)
      BY <2>2, BucketMono, BucketType
    <2>4. FireAt(key) \in Nat
      BY <2>1, MessageTimes DEF FireAt
    <2>5. CalculateBucket(FireAt(key), BucketMs) \in Nat
      BY <2>2, <2>4, BucketType, ZenonT(60)
    <2>6. Due(key, now)
      BY <2>1, <2>3, <2>5 DEF Due
    <2>7. \A k \in {key} : k \in DOMAIN msg /\ Due(k, now)
      BY <2>1, <2>6
    <2> QED
      BY <2>7, DueStays
  <1>5. \A c \in Consumers : \A k \in held'[c] \cup Range(ch'[c]) : Due(k, now)'
    <2>1. \A c \in Consumers : \A k \in held'[c] \cup Range(ch'[c]) :
             k \in held[c] \cup Range(ch[c]) \/ (pc = "send" /\ k \in {key})
      BY SentGrowth, ZenonT(60)
    <2> QED
      BY <1>2, <1>3, <2>1, ZenonT(60)
  <1>6. (\A k \in scan' : Due(k, passNow)') /\ (pc' = "send" => Due(key, passNow)')
    <2>1. ASSUME NEW t \in Topics, StartTopic(t)
          PROVE  (\A k \in scan' : Due(k, passNow)') /\ pc' # "send"
      BY <2>1, ZenonT(60) DEF StartTopic, Due, FireAt
    <2>2. CASE StartPass \/ EndTopic \/ Crash
      BY <2>2, <1>t DEF StartPass, EndTopic, Crash
    <2>3. ASSUME UNCHANGED passNow, scan' \subseteq scan,
                 pc' = "send" => key' \in scan \/ (pc = "send" /\ key' = key)
          PROVE  (\A k \in scan' : Due(k, passNow)') /\ (pc' = "send" => Due(key, passNow)')
      <3>1. scan \subseteq DOMAIN msg /\ (pc = "send" => key \in DOMAIN msg)
        BY DEF KeysKnown
      <3>2. \A k \in scan : CalculateBucket(msg'[k].enq + msg'[k].delay, BucketMs)
                               <= CalculateBucket(passNow, BucketMs)
        BY <1>1, <3>1 DEF SentIsDue
      <3>3. pc = "send" => CalculateBucket(msg'[key].enq + msg'[key].delay, BucketMs)
                               <= CalculateBucket(passNow, BucketMs)
        BY <1>1, <3>1 DEF SentIsDue
      <3> QED
        BY <2>3, <3>2, <3>3 DEF Due, FireAt
    <2>4. ASSUME NEW k \in IDs, SkipInFlight(k) \/ CollectExpired(k) \/ BeginDispatch(k)
          PROVE  (\A j \in scan' : Due(j, passNow)') /\ (pc' = "send" => Due(key, passNow)')
      BY <2>3, <2>4 DEF SkipInFlight, CollectExpired, BeginDispatch, Visits, sendVars
    <2>5. CASE DispatcherStep
      BY <2>1, <2>2, <2>3, <2>4, <2>5, ZenonT(60)
      DEF DispatcherStep, IdlePass, SendToGroup, SendToUniversal, EndDispatch, ScanError,
          MarkExpired, vars, passVars, sendVars
    <2> QED
      BY <2>2, <2>3, <2>5, ZenonT(60)
      DEF Next, vars, Tick, Publish, HandlerStep, Subscribe, SenderSend, SenderError,
          ReceiverHandle, Disconnect, Unregister, JanitorStep, Sweep, SweepMark,
          DeleterStep, Flush, FlushOK, FlushError, OnDelete, deleterFrame, passVars, sendVars
  <1> QED
    BY <1>5, <1>6 DEF SentIsDue

(* An acknowledged key stays in the deleter's hands until it is deleted. *)
LEMMA NextAcksKept ==
  ASSUME TypeInv, KeysKnown, AcksKept, [Next]_vars
  PROVE  AcksKept'
  <1> USE DEF AcksKept, AckNotForgotten
  <1>1. ASSUME NEW k \in IDs, NEW m \in Message, Publish(k, m) PROVE AcksKept'
    <2>1. k \notin flushing /\ k \notin acked
      BY <1>1, ZenonT(60) DEF Publish, KeysKnown
    <2> QED
      BY <1>1, <2>1 DEF Publish
  <1>2. ASSUME NEW c \in Consumers, NEW k \in IDs, NEW success \in BOOLEAN,
               ReceiverHandle(c, k, success)
        PROVE  AcksKept'
    <2>1. CASE success
      <3>1. \A j : j \in acked' => j \in acked \/ j = k
        BY <1>2, <2>1 DEF ReceiverHandle
      <3> QED
        BY <1>2, <2>1, <3>1 DEF ReceiverHandle, MarkDeleted
    <2>2. CASE ~success
      BY <1>2, <2>2 DEF ReceiverHandle
    <2> QED
      BY <2>1, <2>2
  <1>3. ASSUME NEW k \in IDs, MarkExpired(k) \/ SweepMark(k) PROVE AcksKept'
    BY <1>3 DEF MarkExpired, SweepMark, MarkDeleted
  <1>4. CASE Flush \/ FlushOK \/ FlushError
    <2>1. \A k : k \in acked' => k \in acked
      BY <1>4 DEF Flush, FlushOK, FlushError, deleterFrame
    <2>2. CASE Flush
      BY <2>1, <2>2 DEF Flush, FlushDrain
    <2>3. CASE FlushOK
      BY <2>1, <2>3 DEF FlushOK, DeleteKeysOK
    <2>4. CASE FlushError
      BY <2>1, <2>4 DEF FlushError, DeleteKeysError
    <2> QED
      BY <1>4, <2>2, <2>3, <2>4
  <1>5. ASSUME NEW k \in IDs, NEW rest \in SUBSET IDs, OnDelete(k, rest) PROVE AcksKept'
    BY <1>5 DEF OnDelete, NotifyDelete, deleterFrame
  <1>6. CASE Crash
    BY <1>6, ZenonT(60) DEF Crash
  <1>7. CASE UNCHANGED <<acked, delVars>>
    BY <1>7 DEF delVars
  <1>8. CASE HandlerStep
    BY <1>2, <1>7, <1>8, ZenonT(60)
    DEF HandlerStep, Subscribe, SenderSend, SenderError, Disconnect, Unregister
  <1>9. CASE DispatcherStep
    BY <1>3, <1>7, <1>9, ZenonT(60)
    DEF DispatcherStep, IdlePass, StartPass, StartTopic, SkipInFlight, CollectExpired,
        BeginDispatch, SendToGroup, SendToUniversal, EndDispatch, ScanError, EndTopic, vars
  <1> QED
    BY <1>1, <1>3, <1>4, <1>5, <1>6, <1>7, <1>8, <1>9
    DEF Next, vars, Tick, JanitorStep, Sweep, DeleterStep

(* A stored message that was dispatched less than the timeout ago is in    *)
(* the in-flight map, with the age of that dispatch.                       *)
LEMMA NextInFlightKept ==
  ASSUME TypeInv, KeysKnown, AcksKept, InFlightKept, [Next]_vars
  PROVE  InFlightKept'
  <1>t. /\ inFlight \in [IDs -> Ages \cup {NotTracked}] /\ since \in [IDs -> Ages]
        /\ stored \subseteq IDs /\ stored \subseteq DOMAIN msg
        /\ InFlightTimeout \in Nat
        /\ pc = "send" => key \in IDs
    BY BrokerAssumption DEF TypeInv, TypeOK, DeleteTypeOK, ControlOK
  <1> USE DEF InFlightKept
  <1>1. CASE Tick
    BY <1>1, <1>t DEF Tick, Older, Ages, NotTracked, delVars
  <1>2. ASSUME NEW k \in IDs, NEW m \in Message, Publish(k, m) PROVE InFlightKept'
    BY <1>2, <1>t DEF Publish, KeysKnown
  <1>3. ASSUME NEW k \in IDs, ~IsInFlight(k), inFlight' = [inFlight EXCEPT ![k] = NotTracked],
               UNCHANGED <<stored, since>>
        PROVE  InFlightKept'
    <2>1. k \in stored => ~(since[k] < InFlightTimeout)
      BY <1>3, <1>t DEF IsInFlight, Ages, NotTracked
    <2> QED
      BY <1>3, <1>t, <2>1
  <1>4. ASSUME NEW k \in IDs, SkipInFlight(k) \/ CollectExpired(k) \/ BeginDispatch(k)
        PROVE  InFlightKept'
    BY <1>3, <1>4 DEF SkipInFlight, CollectExpired, BeginDispatch, delVars
  <1>5. CASE EndDispatch
    BY <1>5, <1>t DEF EndDispatch, delVars
  <1>6. CASE Flush \/ FlushOK \/ FlushError
    BY <1>6 DEF Flush, FlushDrain, FlushOK, DeleteKeysOK, FlushError, DeleteKeysError,
                deleterFrame
  <1>7. ASSUME NEW k \in IDs, NEW rest \in SUBSET IDs, OnDelete(k, rest) PROVE InFlightKept'
    <2>1. k \notin stored
      BY <1>7 DEF OnDelete, NotifyDelete, AcksKept
    <2> QED
      BY <1>7, <1>t, <2>1 DEF OnDelete, NotifyDelete, deleterFrame
  <1>8. CASE Crash
    <2>1. \A k \in stored' : since'[k] = InFlightTimeout
      BY <1>8, <1>t DEF Crash
    <2> QED
      BY <1>t, <2>1
  <1>9. CASE UNCHANGED <<stored, inFlight, since>>
    BY <1>9
  <1>10. CASE HandlerStep
    <2>1. UNCHANGED <<stored, inFlight>>
      BY <1>10, ZenonT(60)
      DEF HandlerStep, Subscribe, SenderSend, SenderError, ReceiverHandle, Disconnect,
          Unregister, delVars
    <2>2. \A k \in IDs : since'[k] \in {since[k], InFlightTimeout}
      BY <1>10, HandlerSince
    <2> QED
      BY <1>t, <2>1, <2>2
  <1>11. CASE DispatcherStep
    BY <1>4, <1>5, <1>9, <1>11, ZenonT(60)
    DEF DispatcherStep, IdlePass, StartPass, StartTopic, SendToGroup, SendToUniversal,
        ScanError, MarkExpired, EndTopic, vars, delVars
  <1> QED
    BY <1>1, <1>2, <1>6, <1>7, <1>8, <1>9, <1>10, <1>11
    DEF Next, vars, JanitorStep, Sweep, SweepMark, DeleterStep, delVars

(* The invariant from which the theorems below follow. *)
THEOREM InvCorrect == Spec => [](TypeInv /\ Inv)
  <1>1. TypeInv /\ Inv /\ [Next]_vars => (TypeInv /\ Inv)'
    BY NextType, NextKeysKnown, NextDeletionJustified, NextSentIsDue, NextAcksKept,
       NextInFlightKept
    DEF Inv
  <1> QED
    BY <1>1, InitType, InitInv, PTL DEF Spec
-----------------------------------------------------------------------------
(* At-least-once delivery: a published message leaves the store only after *)
(* an acknowledgement (receiver) or once its TTL has elapsed, for any      *)
(* interleaving of the goroutines, any storage errors and any crashes.     *)
THEOREM NeverLost == Spec => []NoLoss
  <1>1. TypeInv /\ Inv => NoLoss
    BY DEF Inv, DeletionJustified, NoLoss
  <1> QED
    BY <1>1, InvCorrect, PTL

(* With buckets of any width, a message is early by less than one bucket.  *)
BucketWidth == IF BucketMs = 0 THEN 1 ELSE BucketMs

EarlyByLessThanABucket ==
    \A c \in Consumers : \A k \in Owed(c) : FireAt(k) < now + BucketWidth

(* No consumer gets a message a whole bucket width before its delay is     *)
(* over (dispatchTopic, CalculateBucket).                                  *)
THEOREM LittleEarly == Spec => []EarlyByLessThanABucket
  <1>1. TypeInv /\ Inv => EarlyByLessThanABucket
    <2> SUFFICES ASSUME TypeInv, Inv, NEW c \in Consumers, NEW k \in Owed(c)
                 PROVE  FireAt(k) < now + BucketWidth
      BY DEF EarlyByLessThanABucket
    <2>1. k \in DOMAIN msg /\ Due(k, now)
      BY DEF Inv, KeysKnown, SentIsDue, Owed
    <2>2. FireAt(k) \in Nat
      BY <2>1, MessageTimes DEF FireAt
    <2>3. now \in Nat /\ BucketMs \in Nat
      BY BrokerAssumption DEF TypeInv, TypeOK
    <2> QED
      BY <2>1, <2>2, <2>3, BucketEarly DEF Due, BucketWidth
  <1> QED
    BY <1>1, InvCorrect, PTL

(* With buckets of one millisecond, the default and the least that the     *)
(* configuration keeps, or none, no consumer gets a message before its     *)
(* delay is over, however old the clock reading and the snapshot of the    *)
(* pass that sends it.                                                     *)
THEOREM NotEarly ==
  ASSUME BucketMs <= 1
  PROVE  Spec => []NeverEarly
  <1>1. TypeInv /\ Inv => NeverEarly
    <2> SUFFICES ASSUME TypeInv, Inv, NEW c \in Consumers, NEW k \in Owed(c)
                 PROVE  FireAt(k) <= now
      BY DEF NeverEarly
    <2>1. k \in DOMAIN msg /\ Due(k, now)
      BY DEF Inv, KeysKnown, SentIsDue, Owed
    <2>2. FireAt(k) \in Nat
      BY <2>1, MessageTimes DEF FireAt
    <2>3. now \in Nat /\ BucketMs \in {0, 1}
      BY BrokerAssumption DEF TypeInv, TypeOK
    <2>4. FireAt(k) < now + BucketWidth
      BY <2>1, <2>2, <2>3, BucketEarly DEF Due, BucketWidth
    <2> QED
      BY <2>2, <2>3, <2>4 DEF BucketWidth
  <1> QED
    BY <1>1, InvCorrect, PTL

(* An acknowledged key is not lost by the deleter while the process lives, *)
(* failed flushes included (MarkDeleted, flush).                           *)
THEOREM AckKept == Spec => []AckNotForgotten
  <1>1. TypeInv /\ Inv => AckNotForgotten
    BY DEF Inv, AcksKept
  <1> QED
    BY <1>1, InvCorrect, PTL

(* A stored message that nobody gave back is dispatched again only after   *)
(* the in-flight timeout (isInFlight, RemoveInFlight).                     *)
THEOREM RedispatchTimed == Spec => RedispatchAfterTimeout
  <1> DEFINE step == \A k \in stored : (key' = k /\ key # k) => since[k] = InFlightTimeout
  <1>1. TypeInv /\ Inv /\ [Next]_vars => [step]_vars
    <2> SUFFICES ASSUME TypeInv, Inv, Next PROVE step
      OBVIOUS
    <2>1. ASSUME NEW k \in IDs, BeginDispatch(k) PROVE step
      <3>1. ~IsInFlight(k) /\ key' = k
        BY <2>1 DEF BeginDispatch
      <3>2. k \in stored => ~(since[k] < InFlightTimeout)
        BY <3>1, BrokerAssumption
        DEF IsInFlight, Inv, InFlightKept, TypeInv, TypeOK, Ages, NotTracked
      <3>3. since[k] \in 0 .. InFlightTimeout /\ InFlightTimeout \in Nat
        BY BrokerAssumption DEF TypeInv, TypeOK, Ages
      <3> QED
        BY <3>1, <3>2, <3>3
    <2>2. CASE key' = key \/ key' = NoKey
      <3>1. IDs \subseteq Nat
        BY BrokerAssumption
      <3>2. stored \subseteq IDs
        BY DEF TypeInv, TypeOK, DeleteTypeOK
      <3> QED
        BY <2>2, <3>1, <3>2 DEF NoKey
    <2> QED
      BY <2>1, <2>2, ZenonT(60)
      DEF Next, Tick, Publish, HandlerStep, Subscribe, SenderSend, SenderError,
          ReceiverHandle, Disconnect, Unregister, DispatcherStep, IdlePass, StartPass,
          StartTopic, SkipInFlight, CollectExpired, SendToGroup, SendToUniversal,
          EndDispatch, ScanError, MarkExpired, EndTopic, JanitorStep, Sweep, SweepMark,
          DeleterStep, Flush, FlushOK, FlushError, OnDelete, deleterFrame, Crash,
          vars, sendVars
  <1> QED
    BY <1>1, InvCorrect, PTL DEF Spec, RedispatchAfterTimeout

(* The delivery path implements the at-least-once queue: a step stores a   *)
(* new message (Publish), settles messages (receiver, the clock), removes  *)
(* settled ones (flush), forgets acknowledgements of stored ones (a crash) *)
(* or changes nothing a client could tell.                                 *)
THEOREM BrokerIsQueue == Spec => ImplementsQueue
  <1> DEFINE S == {k \in DOMAIN msg : Done(k)}
             R == DOMAIN msg \ stored
  <1>1. Init => Queue!QueueInit
    BY DEF Init, DeleteInit, Queue!QueueInit
  <1>2. ASSUME TypeInv, Inv, [Next]_vars PROVE [Queue!QueueNext]_(Queue!queueVars)
    <2>t. stored \subseteq DOMAIN msg /\ DOMAIN msg \subseteq IDs
      BY <1>2 DEF TypeInv, TypeOK
    <2>1. ASSUME NEW k \in IDs, NEW m \in Message, Publish(k, m) PROVE Queue!QueueNext
      <3>1. /\ k \notin DOMAIN msg /\ stored' = stored \cup {k} /\ UNCHANGED <<acked, now>>
            /\ DOMAIN msg' = DOMAIN msg \cup {k} /\ \A j \in DOMAIN msg : msg'[j] = msg[j]
        BY <2>1 DEF Publish, MapPut
      <3>2. \A j \in DOMAIN msg : Done(j)' <=> Done(j)
        BY <3>1 DEF Done, IsExpired
      <3>3. S' = S \cup (S' \cap {k}) /\ R' = R
        BY <2>t, <3>1, <3>2
      <3>4. Queue!Accept({k})
        <4>1. {k} \cap (stored \cup R) = {}
          BY <2>t, <3>1
        <4>2. \E late \in SUBSET {k} : S' = S \cup late
          BY <3>3, Zenon
        <4> QED
          BY <3>1, <3>3, <4>1, <4>2, Zenon DEF Queue!Accept
      <3> QED
        BY <3>4 DEF Queue!QueueNext
    <2>2. ASSUME NEW ms \in SUBSET (stored \cap flushing), stored' = stored \ ms,
                 UNCHANGED <<msg, acked, now>>
          PROVE  Queue!QueueNext
      <3>1. \A k \in ms : k \in DOMAIN msg /\ Done(k)
        BY <1>2, <2>t DEF Inv, DeletionJustified
      <3>2. S' = S
        BY <2>2 DEF Done, IsExpired
      <3>3. ms \subseteq stored \cap S /\ R' = R \cup ms
        BY <2>2, <2>t, <3>1
      <3>4. Queue!Remove(ms)
        BY <2>2, <3>2, <3>3 DEF Queue!Remove
      <3>5. ms \in SUBSET IDs
        BY <2>t
      <3> QED
        BY <3>4, <3>5 DEF Queue!QueueNext
    <2>3. ASSUME ~Crash, UNCHANGED <<msg, stored>> PROVE Queue!QueueNext
      <3>1. \A k \in DOMAIN msg : IsExpired(k, now) => IsExpired(k, now)'
        BY <1>2, ExpiredStays
      <3>2. \A k \in DOMAIN msg : Done(k) => Done(k)'
        BY <1>2, <2>3, <3>1, AckedStays DEF Done
      <3>3. S' = S \cup S' /\ R' = R
        BY <2>3, <3>1, <3>2
      <3>4. S' \in SUBSET IDs
        BY <2>3, <2>t
      <3>5. Queue!Settle(S')
        BY <2>3, <3>3 DEF Queue!Settle
      <3> QED
        BY <3>4, <3>5 DEF Queue!QueueNext
    <2>4. CASE Crash
      <3>1. UNCHANGED <<msg, stored, now>> /\ acked' = acked \ stored
        BY <2>4 DEF Crash
      <3>2. \A k : IsExpired(k, now)' <=> IsExpired(k, now)
        BY <3>1 DEF IsExpired
      <3>3. \A k : /\ Done(k)' => Done(k)
                   /\ Done(k) /\ k \notin stored => Done(k)'
        BY <3>1, <3>2 DEF Done
      <3>4. S' \subseteq S /\ S \ S' \subseteq stored /\ R' = R
        BY <3>1, <3>2, <3>3
      <3> HIDE DEF S, R
      <3>5. S' = S \ (S \ S')
        BY <3>4
      <3>6. Queue!Forget(S \ S')
        BY <3>1, <3>4, <3>5 DEF Queue!Forget, S, R
      <3>7. S \ S' \in SUBSET IDs
        BY <2>t, <3>4
      <3> QED
        BY <3>6, <3>7 DEF Queue!QueueNext
    <2>5. CASE FlushOK
      <3>1. stored' = stored \ (stored \cap flushing) /\ UNCHANGED <<msg, acked, now>>
        BY <2>5 DEF FlushOK, DeleteKeysOK, deleterFrame
      <3>2. Queue!QueueNext
        BY <2>2, <3>1, Zenon
      <3> QED
        BY <3>2
    <2>6. CASE FlushError
      <3>1. /\ \/ stored' = stored \ (stored \cap flushing)
               \/ stored' = stored \ {}
            /\ UNCHANGED <<msg, acked, now>>
        BY <2>6 DEF FlushError, DeleteKeysError, deleterFrame
      <3>2. Queue!QueueNext
        BY <2>2, <3>1, Zenon
      <3> QED
        BY <3>2
    <2>7. CASE UNCHANGED vars
      BY <2>7 DEF vars, delVars, Done, IsExpired, Queue!queueVars
    <2>8. CASE Next /\ ~Crash /\ ~FlushOK /\ ~FlushError
               /\ ~\E k \in IDs, m \in Message : Publish(k, m)
      <3>1. UNCHANGED <<msg, stored>>
        BY <2>8, ZenonT(60)
        DEF Next, vars, Tick, HandlerStep, Subscribe, SenderSend, SenderError,
            ReceiverHandle, Disconnect, Unregister, DispatcherStep, IdlePass, StartPass,
            StartTopic, SkipInFlight, CollectExpired, BeginDispatch, SendToGroup,
            SendToUniversal, EndDispatch, ScanError, MarkExpired, EndTopic, JanitorStep,
            Sweep, SweepMark, DeleterStep, Flush, FlushDrain, OnDelete, NotifyDelete,
            deleterFrame, delVars
      <3> QED
        BY <2>3, <2>8, <3>1
    <2> QED
      BY <1>2, <2>1, <2>4, <2>5, <2>6, <2>7, <2>8
  <1> QED
    BY <1>1, <1>2, InvCorrect, PTL DEF Spec, ImplementsQueue, Queue!QueueSpec
=============================================================================
