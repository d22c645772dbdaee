------------------------------ MODULE Metadata ------------------------------
(***************************************************************************)
(* The metadata Raft group: every node's Service                           *)
(* (pkg/raft/metadata/service.go) publishes what it knows about the event  *)
(* shard, every node's MetadataStateMachine (statemachine.go) keeps the    *)
(* last topology published and the registry of gRPC addresses, and         *)
(* GetClusterInfo (handlers/cluster.go) answers clients from it.           *)
(*                                                                         *)
(* A node publishes from two goroutines: Dragonboat calls the listener     *)
(* methods of the Service one after another, and StartRaft registers the   *)
(* node's address and then the shard.  A publish reads the membership, the *)
(* leader and the registry one by one and proposes later, so anything may  *)
(* happen in between.                                                      *)
(*                                                                         *)
(* Dragonboat is taken by what it does: membership is read linearizably,   *)
(* the leader as this node knows it; a proposal is committed, is lost, or  *)
(* is committed after its caller gave up; replicas apply the log in order, *)
(* restart from their last snapshot, or are sent one.  There is one event  *)
(* shard.  A membership is named by its ConfigChangeID, an address by the  *)
(* node it belongs to.                                                     *)
(***************************************************************************)
EXTENDS Integers, Sequences, FiniteSets

CONSTANTS
    Nodes,
    Unstable,      \* nodes that may restart
    NoNode,        \* replica ID 0
    MaxChanges,    \* bound: elections, membership changes, restarts and faults
    SnapshotEntries, \* a replica takes a snapshot after as many commands
    MaxLog         \* bound: commands in the log that were not compacted

ASSUME MetadataAssumption ==
    /\ Unstable \subseteq Nodes /\ NoNode \notin Nodes
    /\ Cardinality(Unstable) \in Nat   \* they are finitely many
    /\ MaxChanges \in Nat
    /\ SnapshotEntries \in Nat \ {0} /\ MaxLog \in Nat \ {0}

VARIABLES
    shard,     \* the event shard: its leader, term and membership
    view,      \* node -> leader, term and membership as its replica knows them
    events,    \* node -> listener calls Dragonboat has yet to make
    start,     \* node -> where StartRaft is
    publish,   \* <<node, goroutine>> -> its publishTopology
    epoch,     \* node -> Service.epoch
    elected,   \* history: term -> the leader elected in it
    base,      \* what the compacted commands of the metadata group amount to
    log,       \* the committed commands after them
    late,      \* proposals whose callers gave up, not yet committed
    sm,        \* node -> its MetadataStateMachine
    applied,   \* node -> index of the log it has applied
    snapshot,  \* node -> its last snapshot
    restarts, faults,
    overtaken  \* history: something out of date may be committed last

shardVars == <<shard, elected>>
logVars == <<base, log>>
smVars == <<sm, applied, snapshot>>
boundVars == <<restarts, faults>>
vars == <<shardVars, view, events, start, publish, epoch, logVars, late, smVars,
          boundVars, overtaken>>

Goroutines == Nodes \X {"listener", "start"}

NoTopology == [leader |-> NoNode, leaderAddr |-> NoNode, term |-> 0,
               epoch |-> 0, config |-> 0, grpcAddrs |-> {}]

(* What a goroutine has gathered for a topology. *)
Idle == [step |-> "idle", topo |-> NoTopology]

RegisterNodeAddrCmd(n) == [type |-> "register", node |-> n]

(* by is history: the node whose StartRaft published it.                   *)
UpdateTopologyCmd(g) ==
    [type |-> "topology", by |-> IF g[2] = "start" THEN g[1] ELSE NoNode,
     topo |-> publish[g].topo]

(* Where StartRaft is, and the index of the registration it waits for.     *)
Starting == [step |-> "register", index |-> 0]

Started == [step |-> "done", index |-> 0]

Unknown == [leader |-> NoNode, term |-> 0, config |-> 1]

Max2(a, b) == IF a < b THEN b ELSE a

(* RecoverFromSnapshot: the epoch is that of the shard in it, which may be *)
(* less than it was.                                                       *)
Recover(snap) ==
    [shard |-> snap.shard, epoch |-> snap.shard.epoch, grpcAddrs |-> snap.grpcAddrs]

(* Every node has registered its address, the Unstable ones after the last *)
(* snapshot of the metadata group; indices are counted from there.  The    *)
(* shard has no leader yet, so nothing could be published.                 *)
Init ==
    LET snap == [index |-> 0, shard |-> NoTopology, grpcAddrs |-> Nodes \ Unstable]
    IN  /\ shard = Unknown
        /\ view = [n \in Nodes |-> Unknown]
        /\ events = [n \in Nodes |-> 0]
        /\ start = [n \in Nodes |-> Started]
        /\ publish = [g \in Goroutines |-> Idle]
        /\ epoch = [n \in Nodes |-> 0]
        /\ elected = [t \in 0 .. MaxChanges |-> NoNode]
        /\ base = snap
        /\ log \in [1 .. Cardinality(Unstable) -> {RegisterNodeAddrCmd(n) : n \in Unstable}]
        /\ \A n \in Unstable : \E i \in DOMAIN log : log[i] = RegisterNodeAddrCmd(n)
        /\ late = {}
        /\ sm = [n \in Nodes |-> [Recover(snap) EXCEPT !.grpcAddrs = Nodes]]
        /\ applied = [n \in Nodes |-> Len(log)]
        /\ snapshot = [n \in Nodes |-> snap]
        /\ restarts = 0 /\ faults = 0
        /\ overtaken = FALSE
-----------------------------------------------------------------------------
MayChange == shard.term + (shard.config - 1) + restarts + faults < MaxChanges

(* The event shard, as Dragonboat runs it. *)
Elect(n) ==
    /\ MayChange
    /\ shard' = [shard EXCEPT !.leader = n, !.term = @ + 1]
    /\ elected' = [elected EXCEPT ![shard.term + 1] = n]
    /\ UNCHANGED <<view, events, start, publish, epoch, logVars, late, smVars,
                   boundVars, overtaken>>

ChangeMembership ==
    /\ MayChange
    /\ shard.leader # NoNode
    /\ shard' = [shard EXCEPT !.config = @ + 1]
    /\ UNCHANGED <<elected, view, events, start, publish, epoch, logVars, late, smVars,
                   boundVars, overtaken>>

(* Between two leaders a replica may know of none: GetLeaderID is not      *)
(* valid then, and publishTopology takes 0 for the leader and its term.    *)
LoseLeader(n) ==
    /\ view[n].leader # NoNode
    /\ view[n].term < shard.term
    /\ view' = [view EXCEPT ![n].leader = NoNode, ![n].term = 0]
    /\ events' = [events EXCEPT ![n] = @ + 1]
    /\ UNCHANGED <<shardVars, start, publish, epoch, logVars, late, smVars, boundVars,
                   overtaken>>

(* A replica learns of the leader or applies a membership change: one call *)
(* of LeaderUpdated or MembershipChanged will follow.                      *)
LearnLeader(n) ==
    /\ view[n].term < shard.term
    /\ view' = [view EXCEPT ![n].leader = shard.leader, ![n].term = shard.term]
    /\ events' = [events EXCEPT ![n] = @ + 1]
    /\ overtaken' = (overtaken \/ publish[<<n, "start">>].step = "propose")
    /\ UNCHANGED <<shardVars, start, publish, epoch, logVars, late, smVars, boundVars>>

LearnMembership(n) ==
    /\ view[n].config < shard.config
    /\ view' = [view EXCEPT ![n].config = @ + 1]
    /\ events' = [events EXCEPT ![n] = @ + 1]
    /\ overtaken' = (overtaken \/ publish[<<n, "start">>] # Idle)
    /\ UNCHANGED <<shardVars, start, publish, epoch, logVars, late, smVars, boundVars>>
-----------------------------------------------------------------------------
(* The log of the metadata group, as Dragonboat keeps it. *)
LastIndex == base.index + Len(log)

Commit(cmd) ==
    /\ Len(log) < MaxLog
    /\ log' = Append(log, cmd)
    /\ UNCHANGED base
-----------------------------------------------------------------------------
(* publishTopology.  Its last reads are one step: the leader comes from     *)
(* the node's view, the addresses from its state machine, and what changes *)
(* one of them does not read or change the other.                          *)

EndPublish(g) == publish' = [publish EXCEPT ![g] = Idle]

(* SyncGetShardMembership: linearizable, so it needs a leader.  The        *)
(* publish ends here when there is none, and when the request times out.   *)
ReadMembership(g) ==
    \/ /\ shard.leader # NoNode
       /\ publish' = [publish EXCEPT ![g] =
              [step |-> "read", topo |-> [NoTopology EXCEPT !.config = shard.config]]]
       /\ UNCHANGED faults
    \/ /\ shard.leader = NoNode
       /\ UNCHANGED <<publish, faults>>
    \/ /\ MayChange
       /\ faults' = faults + 1
       /\ UNCHANGED publish

(* LeaderUpdated, MembershipChanged, NodeReady and NodeDeleted: whatever   *)
(* the event says, the topology is published as it is found.               *)
ListenerCall(n) ==
    /\ events[n] > 0
    /\ publish[<<n, "listener">>] = Idle
    /\ events' = [events EXCEPT ![n] = @ - 1]
    /\ ReadMembership(<<n, "listener">>)
    /\ UNCHANGED <<shardVars, view, start, epoch, logVars, late, smVars, restarts,
                   overtaken>>

(* A faulty variant: the leader and its term are asked for separately. *)
BuildTopologyMixed(g) ==
    LET n     == g[1]
        addrs == sm[n].grpcAddrs
    IN  [publish[g].topo EXCEPT
            !.leader = shard.leader,
            !.term = view[n].term,
            !.grpcAddrs = addrs,
            !.leaderAddr = IF shard.leader \in addrs THEN shard.leader ELSE NoNode,
            !.epoch = epoch[n] + 1]

(* GetLeaderID: leader and term as this node knows them.  GetGrpcAddrs:    *)
(* the registry as this node's state machine has it; the leader's address  *)
(* is left empty if it is not in there.                                    *)
BuildTopology(g) ==
    LET n     == g[1]
        addrs == sm[n].grpcAddrs
    IN  [publish[g].topo EXCEPT
            !.leader = view[n].leader,
            !.term = view[n].term,
            !.grpcAddrs = addrs,
            !.leaderAddr = IF view[n].leader \in addrs THEN view[n].leader ELSE NoNode,
            !.epoch = epoch[n] + 1]

ReadLeaderAndAddrs(g) ==
    /\ publish[g].step = "read"
    /\ publish' = [publish EXCEPT ![g] = [step |-> "propose", topo |-> BuildTopology(g)]]
    /\ epoch' = [epoch EXCEPT ![g[1]] = @ + 1]
    /\ UNCHANGED <<shardVars, view, events, start, logVars, late, smVars, boundVars, overtaken>>

(* A faulty variant: publishing is left to the leader of the shard. *)
ProposeIfLeader(g) ==
    /\ publish[g].step = "propose"
    /\ IF publish[g].topo.leader = g[1]
       THEN Commit(UpdateTopologyCmd(g))
       ELSE UNCHANGED logVars
    /\ EndPublish(g)
    /\ UNCHANGED <<shardVars, view, events, start, epoch, late, smVars, boundVars, overtaken>>

Propose(g) ==
    /\ publish[g].step = "propose"
    /\ Commit(UpdateTopologyCmd(g))
    /\ EndPublish(g)
    /\ UNCHANGED <<shardVars, view, events, start, epoch, late, smVars, boundVars, overtaken>>

(* The proposal times out: nobody tries again, and it may yet be committed. *)
ProposeFails(g) ==
    /\ publish[g].step = "propose"
    /\ MayChange
    /\ faults' = faults + 1
    /\ late' = late \cup {UpdateTopologyCmd(g)}
    /\ EndPublish(g)
    /\ UNCHANGED <<shardVars, view, events, start, epoch, logVars, smVars, restarts,
                   overtaken>>

CommitLate(cmd) ==
    /\ cmd \in late
    /\ late' = late \ {cmd}
    /\ Commit(cmd)
    /\ UNCHANGED <<shardVars, view, events, start, publish, epoch, smVars,
                   boundVars, overtaken>>
-----------------------------------------------------------------------------
(* StartRaft, once the replicas run. *)

(* RegisterNodeAddr: SyncPropose returns when this node has applied the    *)
(* command.                                                                *)
RegisterNodeAddr(n) ==
    /\ start[n].step = "register"
    /\ Commit(RegisterNodeAddrCmd(n))
    /\ start' = [start EXCEPT ![n] = [step |-> "registering", index |-> LastIndex + 1]]
    /\ UNCHANGED <<shardVars, view, events, publish, epoch, late, smVars,
                   boundVars, overtaken>>

(* A failed registration is repeated, unlike a failed publish. *)
RegisterNodeAddrFails(n) ==
    /\ start[n].step = "register"
    /\ MayChange
    /\ faults' = faults + 1
    /\ late' \in {late, late \cup {RegisterNodeAddrCmd(n)}}
    /\ UNCHANGED <<shardVars, view, events, start, publish, epoch, logVars, smVars,
                   restarts, overtaken>>

(* A faulty variant: the shard is registered as soon as the address has    *)
(* been sent.                                                              *)
RegisterShardEarly(n) ==
    /\ start[n].step = "registering"
    /\ start' = [start EXCEPT ![n] = Started]
    /\ ReadMembership(<<n, "start">>)
    /\ UNCHANGED <<shardVars, view, events, epoch, logVars, late, smVars, restarts,
                   overtaken>>

RegisterShard(n) ==
    /\ start[n].step = "registering"
    /\ applied[n] >= start[n].index
    /\ start' = [start EXCEPT ![n] = Started]
    /\ ReadMembership(<<n, "start">>)
    /\ UNCHANGED <<shardVars, view, events, epoch, logVars, late, smVars, restarts,
                   overtaken>>
-----------------------------------------------------------------------------
(* MetadataStateMachine. *)

(* A faulty variant: a topology of a lower epoch is ignored. *)
ApplyNewer(s, cmd) ==
    CASE cmd.type = "register" ->
            [s EXCEPT !.grpcAddrs = @ \cup {cmd.node}]
      [] cmd.type = "topology" ->
            IF cmd.topo.epoch < s.epoch THEN s
            ELSE [s EXCEPT !.shard = cmd.topo, !.epoch = cmd.topo.epoch]

(* Update: the last topology wins, whatever its epoch. *)
Apply(s, cmd) ==
    CASE cmd.type = "register" ->
            [s EXCEPT !.grpcAddrs = @ \cup {cmd.node}]
      [] cmd.type = "topology" ->
            [s EXCEPT !.shard = cmd.topo, !.epoch = Max2(@, cmd.topo.epoch)]

(* SaveSnapshot: registry and shards, but not the epoch beside them.       *)
(* Dragonboat asks for it after every SnapshotEntries commands, and drops  *)
(* the commands up to it, those a slower replica needs included.           *)
SaveSnapshot(n, index, s) ==
    LET snap == [index |-> index, shard |-> s.shard, grpcAddrs |-> s.grpcAddrs]
    IN  /\ snapshot' = [snapshot EXCEPT ![n] = snap]
        /\ IF index > base.index
           THEN /\ base' = snap
                /\ log' = SubSeq(log, index - base.index + 1, Len(log))
           ELSE UNCHANGED logVars

Update(n) ==
    /\ applied[n] >= base.index
    /\ applied[n] < LastIndex
    /\ LET s     == Apply(sm[n], log[applied[n] - base.index + 1])
           index == applied[n] + 1
       IN  /\ sm' = [sm EXCEPT ![n] = s]
           /\ applied' = [applied EXCEPT ![n] = index]
           /\ IF index >= snapshot[n].index + SnapshotEntries
              THEN SaveSnapshot(n, index, s)
              ELSE UNCHANGED <<snapshot, logVars>>
    /\ UNCHANGED <<shardVars, view, events, start, publish, epoch, late,
                   boundVars, overtaken>>

(* A replica that lags is sent the snapshot of another one. *)
ReceiveSnapshot(n, from) ==
    /\ snapshot[from].index > applied[n]
    /\ snapshot' = [snapshot EXCEPT ![n] = snapshot[from]]
    /\ sm' = [sm EXCEPT ![n] = Recover(snapshot[from])]
    /\ applied' = [applied EXCEPT ![n] = snapshot[from].index]
    /\ UNCHANGED <<shardVars, view, events, start, publish, epoch, logVars, late,
                   boundVars, overtaken>>

(* A node stops and starts: the state machine comes back from the last     *)
(* snapshot, everything else in memory is new.  A proposal that outlives   *)
(* its node is one that failed before.  NodeReady will be called for the   *)
(* event shard.                                                            *)
Restart(n) ==
    /\ n \in Unstable
    /\ MayChange
    /\ restarts' = restarts + 1
    /\ sm' = [sm EXCEPT ![n] = Recover(snapshot[n])]
    /\ applied' = [applied EXCEPT ![n] = snapshot[n].index]
    /\ view' = [view EXCEPT ![n] = Unknown]
    /\ events' = [events EXCEPT ![n] = 1]
    /\ start' = [start EXCEPT ![n] = Starting]
    /\ publish' = [publish EXCEPT ![<<n, "listener">>] = Idle, ![<<n, "start">>] = Idle]
    /\ epoch' = [epoch EXCEPT ![n] = 0]
    /\ UNCHANGED <<shardVars, logVars, late, snapshot, faults, overtaken>>
-----------------------------------------------------------------------------
PublishStep(g) ==
    \/ ReadLeaderAndAddrs(g)
    \/ Propose(g)
    \/ ProposeFails(g)

Next ==
    \/ \E n \in Nodes : Elect(n)
    \/ ChangeMembership
    \/ \E n \in Nodes : LoseLeader(n)
    \/ \E n \in Nodes : LearnLeader(n)
    \/ \E n \in Nodes : LearnMembership(n)
    \/ \E n \in Nodes : ListenerCall(n)
    \/ \E g \in Goroutines : PublishStep(g)
    \/ \E cmd \in late : CommitLate(cmd)
    \/ \E n \in Nodes : RegisterNodeAddr(n)
    \/ \E n \in Nodes : RegisterNodeAddrFails(n)
    \/ \E n \in Nodes : RegisterShard(n)
    \/ \E n \in Nodes : Update(n)
    \/ \E n, from \in Nodes : ReceiveSnapshot(n, from)
    \/ \E n \in Nodes : Restart(n)

Spec == Init /\ [][Next]_vars

(* Replicas run and hear of the shard, Dragonboat calls the listener, and  *)
(* goroutines go on.  Nobody has to elect, reconfigure, fail or restart.   *)
Fairness ==
    /\ \A n \in Nodes :
          /\ WF_vars(LearnLeader(n))
          /\ WF_vars(LearnMembership(n))
          /\ WF_vars(ListenerCall(n))
          /\ WF_vars(RegisterNodeAddr(n))
          /\ WF_vars(RegisterShard(n))
          /\ WF_vars(Update(n))
          /\ WF_vars(\E from \in Nodes : ReceiveSnapshot(n, from))
    /\ \A g \in Goroutines : WF_vars(PublishStep(g))

FairSpec == Spec /\ Fairness
-----------------------------------------------------------------------------
(* GetClusterInfo on n, from the local state machine.  The members are     *)
(* listed under their gRPC addresses, or else under their Raft addresses.  *)
(* Before the first topology there is nothing to answer.                   *)
ClusterInfo(n) ==
    LET topo == sm[n].shard
    IN  [available |-> topo # NoTopology,
         leader |-> topo.leader, leaderAddress |-> topo.leaderAddr,
         members |-> topo.config, underGrpc |-> topo.grpcAddrs]

Views == [leader : Nodes \cup {NoNode}, term : 0 .. MaxChanges, config : Nat \ {0}]

Topologies ==
    [leader : Nodes \cup {NoNode}, leaderAddr : Nodes \cup {NoNode},
     term : 0 .. MaxChanges, epoch : Nat, config : Nat, grpcAddrs : SUBSET Nodes]

Commands ==
    [type : {"register"}, node : Nodes]
       \cup [type : {"topology"}, by : Nodes \cup {NoNode}, topo : Topologies]

Snapshots == [index : Nat, shard : Topologies, grpcAddrs : SUBSET Nodes]

(* The variables have the types of the Go fields they stand for. *)
TypeOK ==
    /\ shard \in Views
    /\ view \in [Nodes -> Views]
    /\ events \in [Nodes -> Nat]
    /\ start \in [Nodes -> [step : {"register", "registering", "done"}, index : Nat]]
    /\ publish \in [Goroutines ->
          [step : {"idle", "read", "propose"}, topo : Topologies]]
    /\ epoch \in [Nodes -> Nat]
    /\ elected \in [0 .. MaxChanges -> Nodes \cup {NoNode}]
    /\ base \in Snapshots
    /\ log \in Seq(Commands)
    /\ late \subseteq Commands
    /\ sm \in [Nodes -> [shard : Topologies, epoch : Nat, grpcAddrs : SUBSET Nodes]]
    /\ applied \in [Nodes -> Nat]
    /\ snapshot \in [Nodes -> Snapshots]
    /\ restarts \in Nat /\ faults \in Nat
    /\ overtaken \in BOOLEAN

(* topo is what the commands up to index k leave as the shard's topology:  *)
(* that of the last UpdateTopologyCmd among them.                          *)
IsLastTopology(topo, k) ==
    \/ /\ topo = base.shard
       /\ \A i \in 1 .. (k - base.index) : log[i].type # "topology"
    \/ \E i \in 1 .. (k - base.index) :
          /\ log[i].type = "topology" /\ log[i].topo = topo
          /\ \A j \in (i + 1) .. (k - base.index) : log[j].type # "topology"

Registered(k) ==
    base.grpcAddrs \cup
    {n \in Nodes : \E i \in 1 .. (k - base.index) : log[i] = RegisterNodeAddrCmd(n)}

(* Whatever snapshots were taken, sent and recovered, and however often    *)
(* nodes restarted, a replica of MetadataStateMachine holds the last       *)
(* topology and all the addresses of the commands it has applied: replicas *)
(* that have applied as much give the same answers.                        *)
StateIsOfLog ==
    \A n \in Nodes :
        applied[n] >= base.index =>
            /\ applied[n] <= LastIndex
            /\ IsLastTopology(sm[n].shard, applied[n])
            /\ sm[n].grpcAddrs = Registered(applied[n])

(* However the reads of publishTopology interleave with elections and      *)
(* restarts, no two published topologies name different leaders for one    *)
(* term, and an address is only advertised for the leader of the topology. *)
OneLeaderPerTerm ==
    \A i \in 1 .. Len(log) :
        log[i].type = "topology" =>
            /\ log[i].topo.leader = elected[log[i].topo.term]
            /\ log[i].topo.leaderAddr \in {NoNode, log[i].topo.leader}

(* StartRaft registers the node's address before RegisterShard publishes:  *)
(* that topology lists the node under its gRPC address, even when the node *)
(* was restarted from a snapshot that does not have it.                    *)
StartAdvertisesSelf ==
    \A i \in 1 .. Len(log) :
        log[i].type = "topology" /\ log[i].by # NoNode =>
            log[i].by \in log[i].topo.grpcAddrs

(* Every change of leader or membership is published by the nodes that     *)
(* hear of it.  Unless a request failed, or a change came in the middle of *)
(* the publish of StartRaft, which runs beside the listener and may commit *)
(* after it, every node ends up answering GetClusterInfo with the leader   *)
(* and the members the shard really has.                                   *)
TopologyConverges ==
    <>[](\/ faults > 0 \/ overtaken \/ shard.leader = NoNode
         \/ \A n \in Nodes :
               /\ ClusterInfo(n).leader = shard.leader
               /\ ClusterInfo(n).members = shard.config)
=============================================================================
