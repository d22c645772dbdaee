--------------------------------- MODULE Hub ---------------------------------
(***************************************************************************)
(* internal/dispatcher/hub.go: registration, the dispatch call, the        *)
(* round-robin strategy and the per-consumer in-flight lists, under the    *)
(* hub's two locks.  The dispatcher is the only caller of DispatchToTopic; *)
(* consumer handlers call the rest at any time.  That Register also wakes  *)
(* the dispatcher is left out: here a call may come whenever none runs.    *)
(*                                                                         *)
(* DispatchToTopic works on a copy of the subscription taken under h.mu,   *)
(* and trySend sends on the channel before it takes inFlightMu to record   *)
(* the key, so the handlers' steps come in between.  Unregister takes the  *)
(* two locks one after the other.                                          *)
(***************************************************************************)
EXTENDS Subscriptions, FiniteSets

CONSTANTS
    Keys,       \* delivery tags
    ChanCap,    \* capacity of a consumer's channel
    MaxCalls    \* bound: calls of DispatchToTopic

ASSUME HubAssumption == ChanCap \in Nat \ {0} /\ MaxCalls \in Nat

VARIABLES
    topics,              \* Hub.topics
    byID,                \* Hub.byID
    rrNext,              \* RoundRobinStrategy.next, absent keys being 0
    ch,                  \* consumer -> its channel
    inFlightByConsumer,  \* Hub.inFlightByConsumer
    phase,               \* consumer -> "new", "registered", "leaving" or "gone"
    got,                 \* consumer -> tags its client has and has not answered
    pc,                  \* DispatchToTopic: "idle", "send" or "track"
    topic, key,          \* DispatchToTopic: its arguments
    groupsLeft,          \* DispatchToTopic: groups of the copy still to serve
    univLeft,            \* DispatchToTopic: universal consumers still to serve
    target,              \* trySend: the consumer just sent to
    turns,               \* history: <<topic, group>> -> candidates and latest picks
    calls

callVars == <<topic, key, groupsLeft, univLeft, target>>
vars == <<topics, byID, rrNext, ch, inFlightByConsumer, phase, got, pc,
          callVars, turns, calls>>

NoOne == "none"

Init ==
    /\ topics = <<>>
    /\ byID = <<>>
    /\ rrNext = [tg \in Topics \X Groups |-> 0]
    /\ ch = [c \in Consumers |-> <<>>]
    /\ inFlightByConsumer = <<>>
    /\ phase = [c \in Consumers |-> "new"]
    /\ got = [c \in Consumers |-> <<>>]
    /\ pc = "idle"
    /\ topic = NoOne /\ key = NoOne
    /\ groupsLeft = <<>>
    /\ univLeft = {}
    /\ target = NoOne
    /\ turns = [tg \in Topics \X Groups |-> [candidates |-> <<>>, picks |-> <<>>]]
    /\ calls = 0
-----------------------------------------------------------------------------
(* Called by Subscribe. *)
Register(c, t, g) ==
    /\ phase[c] = "new"
    /\ phase' = [phase EXCEPT ![c] = "registered"]
    /\ topics' = RegisterIn(topics, c, t, g)
    /\ byID' = MapPut(byID, c, [topic |-> t, group |-> g])
    /\ UNCHANGED <<rrNext, ch, inFlightByConsumer, got, pc, callVars, turns,
                   calls>>

(* A faulty variant: a topic is dropped with its first consumer. *)
UnregisterTopic(c) ==
    /\ phase[c] = "registered"
    /\ phase' = [phase EXCEPT ![c] = "leaving"]
    /\ topics' = MapDelete(topics, {byID[c].topic})
    /\ byID' = MapDelete(byID, {c})
    /\ UNCHANGED <<rrNext, ch, inFlightByConsumer, got, pc, callVars, turns,
                   calls>>

(* Unregister under h.mu. *)
Unregister(c) ==
    /\ phase[c] = "registered"
    /\ phase' = [phase EXCEPT ![c] = "leaving"]
    /\ topics' = UnregisterFrom(topics, c, byID[c].topic, byID[c].group)
    /\ byID' = MapDelete(byID, {c})
    /\ UNCHANGED <<rrNext, ch, inFlightByConsumer, got, pc, callVars, turns,
                   calls>>

(* Unregister under h.inFlightMu. *)
UnregisterInFlight(c) ==
    /\ phase[c] = "leaving"
    /\ phase' = [phase EXCEPT ![c] = "gone"]
    /\ inFlightByConsumer' = MapDelete(inFlightByConsumer, {c})
    /\ UNCHANGED <<topics, byID, rrNext, ch, got, pc, callVars, turns, calls>>

(* The list of c, nil if it has none. *)
InFlightOf(c) == IF c \in DOMAIN inFlightByConsumer THEN inFlightByConsumer[c] ELSE <<>>

(* A list without the first occurrence of k, which it has. *)
RemoveFirst(list, k) ==
    LET i == CHOOSE i \in DOMAIN list : list[i] = k /\ \A j \in 1 .. i - 1 : list[j] # k
    IN  SubSeq(list, 1, i - 1) \o SubSeq(list, i + 1, Len(list))

(* A faulty variant: every occurrence of the key is removed. *)
RemoveInFlightAll(c, k) ==
    LET Other(x) == x # k
    IN  IF k \in Range(InFlightOf(c))
          THEN MapPut(inFlightByConsumer, c, SelectSeq(InFlightOf(c), Other))
          ELSE inFlightByConsumer

(* Only the first occurrence goes. *)
RemoveInFlightForConsumer(c, k) ==
    IF k \in Range(InFlightOf(c))
      THEN MapPut(inFlightByConsumer, c, RemoveFirst(InFlightOf(c), k))
      ELSE inFlightByConsumer
-----------------------------------------------------------------------------
(* The consumer handler on the other side of the channel: the sender, and  *)
(* the receiver with an answer of the client.  Either may still run when   *)
(* the consumer has been unregistered.                                     *)
SenderSend(c) ==
    /\ ch[c] # <<>>
    /\ ch' = [ch EXCEPT ![c] = Tail(@)]
    /\ got' = [got EXCEPT ![c] = Append(@, Head(ch[c]))]
    /\ UNCHANGED <<topics, byID, rrNext, inFlightByConsumer, phase, pc,
                   callVars, turns, calls>>

ReceiverHandle(c, k) ==
    /\ k \in Range(got[c])
    /\ got' = [got EXCEPT ![c] = RemoveFirst(@, k)]
    /\ inFlightByConsumer' = RemoveInFlightForConsumer(c, k)
    /\ UNCHANGED <<topics, byID, rrNext, ch, phase, pc, callVars, turns, calls>>
-----------------------------------------------------------------------------
(* DispatchToTopic: copy the subscription. *)
DispatchToTopic(t, k) ==
    /\ pc = "idle"
    /\ calls < MaxCalls
    /\ calls' = calls + 1
    /\ t \in DOMAIN topics
    /\ pc' = "send"
    /\ topic' = t
    /\ key' = k
    /\ groupsLeft' = SubSnapshot(topics, t).groups
    /\ univLeft' = SubSnapshot(topics, t).universal
    /\ UNCHANGED <<topics, byID, rrNext, ch, inFlightByConsumer, phase, got,
                   target, turns>>

(* trySend, the channel operation. *)
TrySend(c) ==
    IF Len(ch[c]) < ChanCap
      THEN /\ ch' = [ch EXCEPT ![c] = Append(@, key)]
           /\ pc' = "track"
           /\ target' = c
      ELSE UNCHANGED <<ch, pc, target>>

(* The picks of a group since its candidates last changed, the latest      *)
(* Len(candidates) of them.                                                *)
Picked(turn, candidates, c) ==
    LET picks == IF turn.candidates = candidates THEN Append(turn.picks, c) ELSE <<c>>
    IN  [candidates |-> candidates,
         picks |-> IF Len(picks) > Len(candidates) THEN Tail(picks) ELSE picks]

(* One group: Select, then trySend. *)
SendToGroup(g) ==
    /\ pc = "send"
    /\ g \in DOMAIN groupsLeft
    /\ LET tg         == <<topic, g>>
           candidates == groupsLeft[g]
           selected   == SelectConsumer(rrNext[tg], candidates)
       IN  /\ rrNext' = [rrNext EXCEPT ![tg] = SelectNext(@, candidates)]
           /\ turns' = [turns EXCEPT ![tg] = Picked(@, candidates, selected)]
           /\ TrySend(selected)
    /\ groupsLeft' = MapDelete(groupsLeft, {g})
    /\ UNCHANGED <<topics, byID, inFlightByConsumer, phase, got, topic, key,
                   univLeft, calls>>

SendToUniversal(c) ==
    /\ pc = "send"
    /\ DOMAIN groupsLeft = {}
    /\ c \in univLeft
    /\ TrySend(c)
    /\ univLeft' = univLeft \ {c}
    /\ UNCHANGED <<topics, byID, rrNext, inFlightByConsumer, phase, got, topic,
                   key, groupsLeft, turns, calls>>

(* trySend, the record. *)
Track ==
    /\ pc = "track"
    /\ inFlightByConsumer' =
           MapPut(inFlightByConsumer, target, Append(InFlightOf(target), key))
    /\ pc' = "send"
    /\ target' = NoOne
    /\ UNCHANGED <<topics, byID, rrNext, ch, phase, got, topic, key, groupsLeft,
                   univLeft, turns, calls>>

Return ==
    /\ pc = "send"
    /\ DOMAIN groupsLeft = {}
    /\ univLeft = {}
    /\ pc' = "idle"
    /\ topic' = NoOne
    /\ key' = NoOne
    /\ UNCHANGED <<topics, byID, rrNext, ch, inFlightByConsumer, phase, got,
                   groupsLeft, univLeft, target, turns, calls>>

Next ==
    \/ \E c \in Consumers, t \in Topics, g \in Groups \cup {NoGroup} : Register(c, t, g)
    \/ \E c \in Consumers : Unregister(c)
    \/ \E c \in Consumers : UnregisterInFlight(c)
    \/ \E c \in Consumers : SenderSend(c)
    \/ \E c \in Consumers, k \in Keys : ReceiverHandle(c, k)
    \/ \E t \in Topics, k \in Keys : DispatchToTopic(t, k)
    \/ \E g \in Groups : SendToGroup(g)
    \/ \E c \in Consumers : SendToUniversal(c)
    \/ Track
    \/ Return

Spec == Init /\ [][Next]_vars
-----------------------------------------------------------------------------
(* The subscription of t has c in group g, or as a universal consumer. *)
Listed(c, t, g) ==
    /\ t \in DOMAIN topics
    /\ IF g = NoGroup THEN c \in topics[t].universal
       ELSE g \in DOMAIN topics[t].groups /\ c \in Range(topics[t].groups[g])

(* The two indexes of the hub agree: a consumer is in byID if and only if  *)
(* the subscription of its topic has it, once, where its group says, and   *)
(* no topic is left behind empty.  HasConsumers reads the one,             *)
(* ActiveTopics and DispatchToTopic the other.                             *)
IndexesAgree ==
    /\ \A c \in Consumers, t \in Topics, g \in Groups \cup {NoGroup} :
          Listed(c, t, g) <=>
              c \in DOMAIN byID /\ byID[c].topic = t /\ byID[c].group = g
    /\ \A t \in DOMAIN topics :
          /\ ~SubIsEmpty(topics[t])
          /\ \A g \in DOMAIN topics[t].groups : IsInjective(topics[t].groups[g])

(* Round robin: as long as the members of a group stay the same, nobody is *)
(* picked again before everybody else has been (Select and its counter,    *)
(* which survives changes of the membership).                              *)
RoundRobinFair == \A tg \in Topics \X Groups : IsInjective(turns[tg].picks)

(* What a connected consumer has been sent and has not answered is in its  *)
(* in-flight list, or about to be: counted per key, since a key can be     *)
(* sent again before it is answered.                                       *)
Count(k, s) == Cardinality({i \in DOMAIN s : s[i] = k})

OutstandingIsTracked ==
    \A c \in Consumers, k \in Keys :
        phase[c] = "registered" =>
            Count(k, ch[c]) + Count(k, got[c]) <=
                Count(k, InFlightOf(c))
                    + (IF pc = "track" /\ target = c /\ key = k THEN 1 ELSE 0)

=============================================================================
