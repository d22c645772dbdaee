---------------------------- MODULE Subscriptions ----------------------------
(***************************************************************************)
(* The data structures of internal/dispatcher/hub.go as values: the        *)
(* per-topic subscription (TopicSubscription) and the hub's topic map,     *)
(* both Go maps, hence functions whose domain is the set of present keys;  *)
(* and the round-robin strategy.                                           *)
(***************************************************************************)
EXTENDS Integers, Sequences, Functions

CONSTANTS
    Consumers,  \* consumer IDs; a connection gets a fresh one
    Topics,
    Groups,     \* non-empty group IDs
    NoGroup     \* the empty group ID of a universal (fan-out) consumer

ASSUME SubscriptionsAssumption == NoGroup \notin Groups

(* The map f with k mapped to v, and without the keys S. *)
MapPut(f, k, v) == [x \in DOMAIN f \cup {k} |-> IF x = k THEN v ELSE f[x]]

MapDelete(f, S) == Restrict(f, DOMAIN f \ S)
-----------------------------------------------------------------------------
(* A subscription: group -> its consumers in the order they joined, and    *)
(* the universal consumers.                                                *)
IsGroupMap(f) ==
    /\ DOMAIN f \subseteq Groups
    /\ \A g \in DOMAIN f : f[g] \in Seq(Consumers) /\ f[g] # <<>>

IsSubscription(sub) ==
    /\ DOMAIN sub = {"groups", "universal"}
    /\ IsGroupMap(sub.groups)
    /\ sub.universal \subseteq Consumers

NewTopicSubscription == [groups |-> <<>>, universal |-> {}]

SubAdd(sub, c, g) ==
    IF g = NoGroup
      THEN [sub EXCEPT !.universal = @ \cup {c}]
      ELSE LET members == IF g \in DOMAIN sub.groups THEN sub.groups[g] ELSE <<>>
           IN  [sub EXCEPT !.groups = MapPut(@, g, Append(members, c))]

(* The members without c, which is in the list once. *)
Without(members, c) ==
    IF c \in Range(members)
      THEN LET i == CHOOSE i \in DOMAIN members : members[i] = c
           IN  SubSeq(members, 1, i - 1) \o SubSeq(members, i + 1, Len(members))
      ELSE members

SubRemove(sub, c, g) ==
    IF g = NoGroup
      THEN [sub EXCEPT !.universal = @ \ {c}]
      ELSE LET members == Without(sub.groups[g], c)
           IN  IF members = <<>>
                 THEN [sub EXCEPT !.groups = MapDelete(@, {g})]
                 ELSE [sub EXCEPT !.groups[g] = members]

SubIsEmpty(sub) == DOMAIN sub.groups = {} /\ sub.universal = {}
-----------------------------------------------------------------------------
(* The topic map after Register and after Unregister: an empty             *)
(* subscription is dropped, so that DOMAIN is the set of active topics.    *)
RegisterIn(topics, c, t, g) ==
    LET sub == IF t \in DOMAIN topics THEN topics[t] ELSE NewTopicSubscription
    IN  MapPut(topics, t, SubAdd(sub, c, g))

UnregisterFrom(topics, c, t, g) ==
    IF t \notin DOMAIN topics THEN topics
    ELSE LET sub == SubRemove(topics[t], c, g)
         IN  IF SubIsEmpty(sub) THEN MapDelete(topics, {t})
                                ELSE [topics EXCEPT ![t] = sub]

(* What DispatchToTopic copies under the read lock. *)
SubSnapshot(topics, t) ==
    IF t \in DOMAIN topics THEN topics[t] ELSE NewTopicSubscription
-----------------------------------------------------------------------------
(* A faulty variant: the counter does not advance. *)
SelectNextStuck(idx, candidates) == idx % Len(candidates)

(* RoundRobinStrategy.Select with counter idx: the consumer selected and   *)
(* the counter it leaves.                                                  *)
SelectConsumer(idx, candidates) == candidates[(idx % Len(candidates)) + 1]

SelectNext(idx, candidates) == (idx + 1) % Len(candidates)
=============================================================================
