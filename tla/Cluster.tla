------------------------------- MODULE Cluster -------------------------------
(***************************************************************************)
(* The cluster across failovers: producer handlers that propose batches    *)
(* at an acknowledgement level, the replicas that apply the committed log, *)
(* and on every node the dispatcher behind its leader check, the consumer  *)
(* handler, the janitor and the deleter that proposes deletions.           *)
(*                                                                         *)
(*   internal/api/grpc/handlers/producer.go  processBatch, processRaftBatch*)
(*   internal/api/grpc/handlers/consumer.go  checkLeadership, receiver     *)
(*   internal/dispatcher/dispatcher.go       isLeader, pass, in-flight map *)
(*   internal/dispatcher/deleter.go          raft backend, flush           *)
(*   internal/dispatcher/janitor.go          sweep, on every node          *)
(*   internal/raft/event/statemachine.go     Update, OnDeleteKeys          *)
(*                                                                         *)
(* Dragonboat is taken by what it does to its callers.  A proposal commits *)
(* or does not; SyncPropose returns when the entry has been applied by the *)
(* node that proposed it, or with an error that tells nothing: the entry   *)
(* may still commit.  A follower's proposal is forwarded.  GetLeaderID is  *)
(* what the node last heard, and a leader that was replaced may not have   *)
(* heard of it.                                                            *)
(*                                                                         *)
(* Keys are taken as the messages they stand for, all of them due and of   *)
(* one topic, with one consumer per node: times, topics and groups are in  *)
(* module Broker, the assignment of keys in EventStateMachine.  Instead of *)
(* the log, each node has the entries it has yet to apply.                 *)
(***************************************************************************)
EXTENDS Naturals, Sequences, FiniteSets

CONSTANTS
    Nodes,
    Messages,
    Batches,       \* what producers publish: disjoint sets of messages
    NoNode,
    Clients,       \* number of consumers
    MinAckLevel,   \* storage.minAckLevel: "quorum" or "none"
    MaxFaults,     \* bound: leaders replaced, proposals given up, restarts
    MaxLag         \* bound: committed entries a node has yet to apply

ASSUME ClusterAssumption ==
    /\ Batches \subseteq SUBSET Messages
    /\ \A a, b \in Batches : a # b => a \cap b = {}
    /\ NoNode \notin Nodes /\ {"new", "ok", "open"} \cap Nodes = {}
    /\ Clients \in Nat
    /\ MinAckLevel \in {"none", "quorum"}
    /\ MaxFaults \in Nat /\ MaxLag \in Nat \ {0}

VARIABLES
    leader,     \* leader of the shard in its latest term
    leaders,    \* nodes whose GetLeaderID is themselves
    proposals,  \* proposals that may commit
    kept,       \* store after the last committed entry
    removed,    \* messages stored and deleted by committed entries
    todo,       \* node -> committed entries it has yet to apply
    db,         \* node -> messages in its storage
    pub,        \* batch -> "new", the node whose handler waits, "ok", or
                \* "open": answered with an error or at NO_ACK
    conn,       \* nodes a consumer is connected to
    held,       \* node -> messages its consumer has received and not answered
    scan,       \* node -> dispatchTopic: messages of the snapshot to visit
    inFlight,   \* node -> Dispatcher.inFlight
    pending,    \* node -> Deleter.pending
    flushing,   \* node -> keysToFlush of the running flush
    flush,      \* node -> "idle", "proposed" or "applied"
    acked,      \* history: messages whose acknowledgement was handled
    expired,    \* messages whose TTL has elapsed
    forgotten,  \* history: messages a restarted node was going to delete
    faults

logVars == <<proposals, kept, removed, todo, db>>
deliveryVars == <<conn, held, scan, inFlight>>
deleterVars == <<pending, flushing, flush>>
historyVars == <<acked, expired, forgotten>>
vars == <<leader, leaders, logVars, pub, deliveryVars, deleterVars, historyVars,
          faults>>

AckLevels == {"none", "quorum"}

Proposal == [node : Nodes, op : {"store", "delete"}, keys : SUBSET Messages,
             waited : BOOLEAN]

Entry == [op : {"store", "delete"}, keys : SUBSET Messages, waited : BOOLEAN]

Fault == faults < MaxFaults /\ faults' = faults + 1

(* isLeader, checkLeadership, processRaftBatch: the node takes itself to   *)
(* be the leader.                                                          *)
IsLeader(n) == n \in leaders

Init ==
    /\ leader = NoNode
    /\ leaders = {}
    /\ proposals = {}
    /\ kept = {}
    /\ removed = {}
    /\ todo = [n \in Nodes |-> <<>>]
    /\ db = [n \in Nodes |-> {}]
    /\ pub = [b \in Batches |-> "new"]
    /\ conn = {}
    /\ held = [n \in Nodes |-> {}]
    /\ scan = [n \in Nodes |-> {}]
    /\ inFlight = [n \in Nodes |-> {}]
    /\ pending = [n \in Nodes |-> {}]
    /\ flushing = [n \in Nodes |-> {}]
    /\ flush = [n \in Nodes |-> "idle"]
    /\ acked = {}
    /\ expired = {}
    /\ forgotten = {}
    /\ faults = 0
-----------------------------------------------------------------------------
(* Dragonboat. *)
Elect(n) ==
    /\ leader # n
    /\ leader' = n
    /\ IF leader = NoNode THEN UNCHANGED faults ELSE Fault
    /\ UNCHANGED <<leaders, logVars, pub, deliveryVars, deleterVars,
                   historyVars>>

(* A faulty variant: the leader reported is taken though it is not valid. *)
LearnLeaderInvalid(n) ==
    /\ leader \notin leaders
    /\ leaders' = (leaders \ {n}) \cup {leader}
    /\ UNCHANGED <<leader, logVars, pub, deliveryVars, deleterVars,
                   historyVars, faults>>

LearnLeader(n) ==
    /\ IsLeader(n) # (leader = n)
    /\ leaders' = IF leader = n THEN leaders \cup {n} ELSE leaders \ {n}
    /\ UNCHANGED <<leader, logVars, pub, deliveryVars, deleterVars,
                   historyVars, faults>>

(* A proposal is committed by the leader of the day: every replica is to   *)
(* apply the entry, and the proposer's call waits until its own has.       *)
Commit(p) ==
    /\ leader # NoNode
    /\ p \in proposals
    /\ \A n \in Nodes : Len(todo[n]) < MaxLag
    /\ proposals' = proposals \ {p}
    /\ todo' = [n \in Nodes |-> Append(todo[n],
          [op |-> p.op, keys |-> p.keys, waited |-> p.waited /\ n = p.node])]
    /\ IF p.op = "store"
         THEN kept' = kept \cup p.keys /\ UNCHANGED removed
         ELSE /\ kept' = kept \ p.keys
              /\ removed' = removed \cup (kept \cap p.keys)
    /\ UNCHANGED <<leader, leaders, db, pub, deliveryVars, deleterVars,
                   historyVars, faults>>

(* A faulty variant: a follower keeps no messages. *)
ApplyOnLeader(n) ==
    /\ todo[n] # <<>>
    /\ LET e == Head(todo[n]) IN
       /\ todo' = [todo EXCEPT ![n] = Tail(@)]
       /\ IF e.op = "store"
            THEN /\ db' = [db EXCEPT ![n] = IF IsLeader(n) THEN @ \cup e.keys ELSE @]
                 /\ pub' = IF pub[e.keys] = n THEN [pub EXCEPT ![e.keys] = "ok"]
                                              ELSE pub
                 /\ UNCHANGED <<inFlight, flush>>
            ELSE /\ db' = [db EXCEPT ![n] = @ \ e.keys]
                 /\ inFlight' = [inFlight EXCEPT ![n] = @ \ e.keys]
                 /\ flush' = IF e.waited THEN [flush EXCEPT ![n] = "applied"]
                                         ELSE flush
                 /\ UNCHANGED pub
    /\ UNCHANGED <<leader, leaders, proposals, kept, removed, conn, held, scan,
                   pending, flushing, historyVars, faults>>

(* Update: the next entry; OnDeleteKeys is RemoveInFlightBatch. *)
Apply(n) ==
    /\ todo[n] # <<>>
    /\ LET e == Head(todo[n]) IN
       /\ todo' = [todo EXCEPT ![n] = Tail(@)]
       /\ IF e.op = "store"
            THEN /\ db' = [db EXCEPT ![n] = @ \cup e.keys]
                 /\ pub' = IF pub[e.keys] = n THEN [pub EXCEPT ![e.keys] = "ok"]
                                              ELSE pub
                 /\ UNCHANGED <<inFlight, flush>>
            ELSE /\ db' = [db EXCEPT ![n] = @ \ e.keys]
                 /\ inFlight' = [inFlight EXCEPT ![n] = @ \ e.keys]
                 /\ flush' = IF e.waited THEN [flush EXCEPT ![n] = "applied"]
                                         ELSE flush
                 /\ UNCHANGED pub
    /\ UNCHANGED <<leader, leaders, proposals, kept, removed, conn, held, scan,
                   pending, flushing, historyVars, faults>>

-----------------------------------------------------------------------------
(* Producer handler. *)

Propose(n, op, keys, waited) ==
    proposals' = proposals \cup
        {[node |-> n, op |-> op, keys |-> keys, waited |-> waited]}

(* A faulty variant: every batch is answered when it has been proposed. *)
PublishEarly(n, b, level) ==
    /\ pub[b] = "new"
    /\ IsLeader(n)
    /\ level = "quorum" \/ MinAckLevel = "none"
    /\ Propose(n, "store", b, FALSE)
    /\ pub' = [pub EXCEPT ![b] = IF level = "none" THEN "open" ELSE "ok"]
    /\ UNCHANGED <<leader, leaders, kept, removed, todo, db, deliveryVars,
                   deleterVars, historyVars, faults>>

(* processBatch, processRaftBatch: a batch at NO_ACK is answered when it   *)
(* has been handed to Raft, another one waits for SyncPropose.             *)
Publish(n, b, level) ==
    /\ pub[b] = "new"
    /\ IsLeader(n)
    /\ level = "quorum" \/ MinAckLevel = "none"
    /\ Propose(n, "store", b, FALSE)
    /\ pub' = [pub EXCEPT ![b] = IF level = "none" THEN "open" ELSE n]
    /\ UNCHANGED <<leader, leaders, kept, removed, todo, db, deliveryVars,
                   deleterVars, historyVars, faults>>

(* SyncPropose gives up; the proposal may still commit. *)
PublishError(b) ==
    /\ pub[b] \in Nodes
    /\ Fault
    /\ pub' = [pub EXCEPT ![b] = "open"]
    /\ UNCHANGED <<leader, leaders, logVars, deliveryVars, deleterVars,
                   historyVars>>
-----------------------------------------------------------------------------
(* Consumer handler. *)

Subscribe(n) ==
    /\ n \notin conn
    /\ Cardinality(conn) < Clients
    /\ IsLeader(n)
    /\ conn' = conn \cup {n}
    /\ UNCHANGED <<leader, leaders, logVars, pub, held, scan, inFlight,
                   deleterVars, historyVars, faults>>

Disconnect(n) ==
    /\ n \in conn
    /\ conn' = conn \ {n}
    /\ held' = [held EXCEPT ![n] = {}]
    /\ UNCHANGED <<leader, leaders, logVars, pub, scan, inFlight, deleterVars,
                   historyVars, faults>>

(* receiver: an acknowledgement is taken whoever leads the shard by then. *)
Ack(n, m) ==
    /\ m \in held[n]
    /\ held' = [held EXCEPT ![n] = @ \ {m}]
    /\ pending' = [pending EXCEPT ![n] = @ \cup {m}]
    /\ acked' = acked \cup {m}
    /\ UNCHANGED <<leader, leaders, logVars, pub, conn, scan, inFlight, flushing,
                   flush, expired, forgotten, faults>>

(* A faulty variant: a rejected message is marked deleted as well. *)
NackMarks(n, m) ==
    /\ m \in held[n]
    /\ held' = [held EXCEPT ![n] = @ \ {m}]
    /\ pending' = [pending EXCEPT ![n] = @ \cup {m}]
    /\ UNCHANGED <<leader, leaders, logVars, pub, conn, scan, inFlight,
                   flushing, flush, historyVars, faults>>

Nack(n, m) ==
    /\ m \in held[n]
    /\ held' = [held EXCEPT ![n] = @ \ {m}]
    /\ UNCHANGED <<leader, leaders, logVars, pub, conn, scan, inFlight,
                   deleterVars, historyVars, faults>>
-----------------------------------------------------------------------------
(* Dispatcher. *)

(* A faulty variant: proposals that are not committed yet are scanned. *)
StartPassDirty(n) ==
    /\ scan[n] = {}
    /\ n \in conn
    /\ IsLeader(n)
    /\ scan' = [scan EXCEPT ![n] = db[n] \cup
          UNION {p.keys : p \in {q \in proposals : q.op = "store"}}]
    /\ UNCHANGED <<leader, leaders, logVars, pub, conn, held, inFlight,
                   deleterVars, historyVars, faults>>

(* dispatchAll: consumers and leadership are checked once, at the start. *)
StartPass(n) ==
    /\ scan[n] = {}
    /\ n \in conn
    /\ IsLeader(n)
    /\ scan' = [scan EXCEPT ![n] = db[n]]
    /\ UNCHANGED <<leader, leaders, logVars, pub, conn, held, inFlight,
                   deleterVars, historyVars, faults>>

(* The scan callback; expired messages are marked for deletion. *)
Visit(n, m) ==
    /\ m \in scan[n]
    /\ scan' = [scan EXCEPT ![n] = @ \ {m}]
    /\ IF m \notin inFlight[n] /\ m \in expired
         THEN pending' = [pending EXCEPT ![n] = @ \cup {m}]
         ELSE UNCHANGED pending
    /\ IF m \notin inFlight[n] \cup expired /\ n \in conn
         THEN /\ held' = [held EXCEPT ![n] = @ \cup {m}]
              /\ inFlight' = [inFlight EXCEPT ![n] = @ \cup {m}]
         ELSE UNCHANGED <<held, inFlight>>
    /\ UNCHANGED <<leader, leaders, logVars, pub, conn, flushing, flush,
                   historyVars, faults>>

(* isInFlight: an entry older than the timeout counts no longer. *)
InFlightTimeout(n, m) ==
    /\ m \in inFlight[n]
    /\ inFlight' = [inFlight EXCEPT ![n] = @ \ {m}]
    /\ UNCHANGED <<leader, leaders, logVars, pub, conn, held, scan, deleterVars,
                   historyVars, faults>>
-----------------------------------------------------------------------------
(* The TTL of a published message elapses; the janitor of every node,      *)
(* leader or not, sweeps.                                                  *)
Expire(m) ==
    /\ m \notin expired
    /\ \E b \in Batches : m \in b /\ pub[b] # "new"
    /\ expired' = expired \cup {m}
    /\ UNCHANGED <<leader, leaders, logVars, pub, deliveryVars, deleterVars,
                   acked, forgotten, faults>>

Sweep(n) ==
    /\ pending' = [pending EXCEPT ![n] = @ \cup (db[n] \cap expired)]
    /\ UNCHANGED <<leader, leaders, logVars, pub, deliveryVars, flushing, flush,
                   historyVars, faults>>
-----------------------------------------------------------------------------
(* Deleter. *)

(* flush: what is pending goes into one DeleteBatchCmd, leader or not. *)
Flush(n) ==
    /\ flush[n] = "idle"
    /\ pending[n] # {}
    /\ flushing' = [flushing EXCEPT ![n] = pending[n]]
    /\ pending' = [pending EXCEPT ![n] = {}]
    /\ flush' = [flush EXCEPT ![n] = "proposed"]
    /\ Propose(n, "delete", pending[n], TRUE)
    /\ UNCHANGED <<leader, leaders, kept, removed, todo, db, pub, deliveryVars,
                   historyVars, faults>>

(* The proposal was applied here: OnDelete for every key. *)
FlushOK(n) ==
    /\ flush[n] = "applied"
    /\ flush' = [flush EXCEPT ![n] = "idle"]
    /\ inFlight' = [inFlight EXCEPT ![n] = @ \ flushing[n]]
    /\ flushing' = [flushing EXCEPT ![n] = {}]
    /\ UNCHANGED <<leader, leaders, logVars, pub, conn, held, scan, pending,
                   historyVars, faults>>

(* Nobody at n waits for its delete proposal any more; it may still commit. *)
StopWaiting(n) ==
    /\ proposals' = {IF p.node = n THEN [p EXCEPT !.waited = FALSE] ELSE p :
                        p \in proposals}
    /\ todo' = [todo EXCEPT ![n] = [i \in DOMAIN todo[n] |->
                                       [todo[n][i] EXCEPT !.waited = FALSE]]]

(* A faulty variant: the keys of the failed flush are dropped. *)
FlushErrorDrops(n) ==
    /\ flush[n] = "proposed"
    /\ Fault
    /\ StopWaiting(n)
    /\ flush' = [flush EXCEPT ![n] = "idle"]
    /\ flushing' = [flushing EXCEPT ![n] = {}]
    /\ UNCHANGED <<leader, leaders, kept, removed, db, pub, deliveryVars, pending,
                   historyVars>>

(* SyncPropose gives up: the keys are enqueued again. *)
FlushError(n) ==
    /\ flush[n] = "proposed"
    /\ Fault
    /\ StopWaiting(n)
    /\ flush' = [flush EXCEPT ![n] = "idle"]
    /\ pending' = [pending EXCEPT ![n] = flushing[n] \cup @]
    /\ flushing' = [flushing EXCEPT ![n] = {}]
    /\ UNCHANGED <<leader, leaders, kept, removed, db, pub, deliveryVars,
                   historyVars>>
-----------------------------------------------------------------------------
(* A node stops and starts again with its store and the rest of the log;   *)
(* acknowledgements it had not proposed to delete are forgotten.           *)
Restart(n) ==
    /\ Fault
    /\ leader' = IF leader = n THEN NoNode ELSE leader
    /\ leaders' = leaders \ {n}
    /\ StopWaiting(n)
    /\ pub' = [b \in Batches |-> IF pub[b] = n THEN "open" ELSE pub[b]]
    /\ conn' = conn \ {n}
    /\ held' = [held EXCEPT ![n] = {}]
    /\ scan' = [scan EXCEPT ![n] = {}]
    /\ inFlight' = [inFlight EXCEPT ![n] = {}]
    /\ pending' = [pending EXCEPT ![n] = {}]
    /\ flushing' = [flushing EXCEPT ![n] = {}]
    /\ flush' = [flush EXCEPT ![n] = "idle"]
    /\ forgotten' = forgotten \cup pending[n] \cup flushing[n]
    /\ UNCHANGED <<kept, removed, db, acked, expired>>
-----------------------------------------------------------------------------
NodeStep(n) ==
    \/ Elect(n)
    \/ LearnLeader(n)
    \/ Apply(n)
    \/ \E b \in Batches, level \in AckLevels : Publish(n, b, level)
    \/ Subscribe(n)
    \/ Disconnect(n)
    \/ \E m \in Messages : Ack(n, m)
    \/ \E m \in Messages : Nack(n, m)
    \/ StartPass(n)
    \/ \E m \in Messages : Visit(n, m)
    \/ \E m \in Messages : InFlightTimeout(n, m)
    \/ Sweep(n)
    \/ Flush(n)
    \/ FlushOK(n)
    \/ FlushError(n)
    \/ Restart(n)

Next ==
    \/ \E n \in Nodes : NodeStep(n)
    \/ \E p \in proposals : Commit(p)
    \/ \E b \in Batches : PublishError(b)
    \/ \E m \in Messages : Expire(m)

Spec == Init /\ [][Next]_vars

(* Dragonboat elects a leader when there is none, tells the nodes, commits *)
(* what somebody waits for and hands it out; the goroutines of every node  *)
(* run and time passes.  Elections, restarts and proposals given up are    *)
(* finitely many; nobody has to publish, subscribe or answer.              *)
Fairness ==
    /\ WF_vars(\E n \in Nodes : leader = NoNode /\ Elect(n))
    /\ WF_vars(\E p \in proposals : p.waited /\ Commit(p))
    /\ \A n \in Nodes :
          /\ WF_vars(LearnLeader(n))
          /\ WF_vars(Apply(n))
          /\ WF_vars(StartPass(n) \/ \E m \in Messages : Visit(n, m))
          /\ \A m \in Messages : WF_vars(InFlightTimeout(n, m))
          /\ WF_vars(Sweep(n))
          /\ WF_vars(Flush(n) \/ FlushOK(n))

FairSpec == Spec /\ Fairness
-----------------------------------------------------------------------------
(* Type invariant. *)
TypeOK ==
    /\ leader \in Nodes \cup {NoNode}
    /\ leaders \subseteq Nodes
    /\ proposals \subseteq Proposal
    /\ kept \subseteq Messages /\ removed \subseteq Messages
    /\ todo \in [Nodes -> Seq(Entry)]
    /\ db \in [Nodes -> SUBSET Messages]
    /\ pub \in [Batches -> {"new", "ok", "open"} \cup Nodes]
    /\ conn \subseteq Nodes
    /\ held \in [Nodes -> SUBSET Messages]
    /\ scan \in [Nodes -> SUBSET Messages]
    /\ inFlight \in [Nodes -> SUBSET Messages]
    /\ pending \in [Nodes -> SUBSET Messages]
    /\ flushing \in [Nodes -> SUBSET Messages]
    /\ flush \in [Nodes -> {"idle", "proposed", "applied"}]
    /\ acked \subseteq Messages /\ expired \subseteq Messages
    /\ forgotten \subseteq Messages
    /\ faults \in 0 .. MaxFaults

(* An answer of success at the default level means that the whole batch is *)
(* in the replicated log, so no failover takes it back; SyncPropose is     *)
(* what stands behind it (processRaftBatch).                               *)
AckedPublishIsCommitted ==
    \A b \in Batches : pub[b] = "ok" => b \subseteq kept \cup removed

(* A consumer is only handed messages that are committed: a pass of a      *)
(* leader that was replaced, over a snapshot of its own store, shows it    *)
(* nothing that a failover could take back (dispatchAll).                  *)
DeliveredIsCommitted ==
    \A n \in Nodes : held[n] \subseteq kept \cup removed

(* The cluster promises what a single queue does: late and repeated delete *)
(* proposals of several nodes, passes of a replaced leader and failovers   *)
(* remove nothing that is not acknowledged or expired, and bring nothing   *)
(* back.                                                                   *)
Queue == INSTANCE AtLeastOnce WITH settled <- acked \cup expired

ImplementsQueue == Queue!QueueSpec

Marked(m) == \E n \in Nodes : m \in pending[n] \cup flushing[n]

(* An acknowledgement or an expiry that some node has taken note of        *)
(* removes the message, although the node may have lost the leadership and *)
(* its proposals may time out: followers propose, failed flushes are       *)
(* repeated.  Only a restart of the node forgets it.                       *)
MarkedIsRemoved ==
    \A m \in Messages : Marked(m) ~> (m \in removed \/ m \in forgotten)

(* After a failover the new leader serves what the old one left: while a   *)
(* consumer stays connected to the leader, a committed message is handed   *)
(* out or removed, whichever in-flight maps it was in.                     *)
ServedByLeader == leader \in conn /\ IsLeader(leader)

RedeliveredAfterFailover ==
    \A m \in Messages :
        \/ []<>~ServedByLeader
        \/ (m \in kept) ~> (m \in removed \/ (leader \in conn /\ m \in held[leader]))
=============================================================================
