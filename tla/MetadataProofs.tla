--------------------------- MODULE MetadataProofs ---------------------------
(***************************************************************************)
(* Safety of the metadata group for any number of nodes and changes: the   *)
(* replicas hold what the log says through snapshots and compaction, no    *)
(* two leaders are published for one term, and a node that starts          *)
(* advertises itself.                                                      *)
(***************************************************************************)
EXTENDS Metadata, TLAPS

(* The states of the log that are kept somewhere: what a replica has       *)
(* applied, what it last saved, and what the dropped commands amount to.   *)
Point(n) == [index |-> applied[n], shard |-> sm[n].shard, grpcAddrs |-> sm[n].grpcAddrs]

Points == {Point(n) : n \in Nodes} \cup {snapshot[n] : n \in Nodes} \cup {base}

(* Each of them is what the commands up to its index make, as far as they  *)
(* are still in the log.                                                   *)
PointsOfLog ==
    \A p \in Points :
        /\ p.index <= LastIndex
        /\ p.index >= base.index =>
              /\ IsLastTopology(p.shard, p.index)
              /\ p.grpcAddrs = Registered(p.index)

(* A later one has every address an earlier one has. *)
PointsInOrder ==
    \A p, q \in Points : p.index <= q.index => p.grpcAddrs \subseteq q.grpcAddrs

(* A registration that StartRaft waits for is in the log, or in every      *)
(* state of it that is late enough to have it.                             *)
RegistrationKept ==
    \A n \in Nodes : start[n].step = "registering" =>
        /\ start[n].index \in 1 .. LastIndex
        /\ start[n].index > base.index =>
              log[start[n].index - base.index] = RegisterNodeAddrCmd(n)
        /\ \A p \in Points : p.index >= start[n].index => n \in p.grpcAddrs

(* A topology that StartRaft is about to publish has the node's address. *)
SelfKnown ==
    \A n \in Nodes :
        /\ publish[<<n, "start">>].step = "read" => n \in sm[n].grpcAddrs
        /\ publish[<<n, "start">>].step = "propose" =>
              n \in publish[<<n, "start">>].topo.grpcAddrs

SelfOK(cmd) == cmd.type = "topology" /\ cmd.by # NoNode => cmd.by \in cmd.topo.grpcAddrs

SelfCommitted ==
    /\ \A cmd \in late : SelfOK(cmd)
    /\ \A i \in 1 .. Len(log) : SelfOK(log[i])

(* A topology names the leader that was elected in its term. *)
LeaderOK(topo) ==
    /\ topo.term <= shard.term
    /\ topo.leader = elected[topo.term]
    /\ topo.leaderAddr \in {NoNode, topo.leader}

LeadersElected ==
    /\ elected[0] = NoNode
    /\ shard.leader = elected[shard.term]
    /\ \A n \in Nodes :
          view[n].term <= shard.term /\ view[n].leader = elected[view[n].term]
    /\ \A g \in Goroutines : publish[g].step = "propose" => LeaderOK(publish[g].topo)
    /\ \A cmd \in late : cmd.type = "topology" => LeaderOK(cmd.topo)
    /\ \A i \in 1 .. Len(log) : log[i].type = "topology" => LeaderOK(log[i].topo)

LogInv == PointsOfLog /\ PointsInOrder
StartInv == RegistrationKept /\ SelfKnown /\ SelfCommitted
Inv == TypeOK /\ LogInv /\ StartInv /\ LeadersElected
-----------------------------------------------------------------------------
(* Types. *)

LEMMA TopologyTypes ==
    /\ NoTopology \in Topologies
    /\ Idle \in [step : {"idle", "read", "propose"}, topo : Topologies]
    /\ Unknown \in Views
    /\ NoNode \notin Nodes
  BY MetadataAssumption DEF NoTopology, Idle, Unknown, Topologies, Views

LEMMA LogTypes ==
    ASSUME TypeOK
    PROVE  /\ base \in Snapshots /\ base.index \in Nat
           /\ log \in Seq(Commands) /\ Len(log) \in Nat
           /\ LastIndex \in Nat /\ applied \in [Nodes -> Nat]
  <1>1. base \in Snapshots /\ log \in Seq(Commands) /\ applied \in [Nodes -> Nat]
    BY DEF TypeOK
  <1>2. base.index \in Nat /\ Len(log) \in Nat
    BY <1>1 DEF Snapshots
  <1> QED
    BY <1>1, <1>2 DEF LastIndex

(* A committed command extends the log by one place. *)
LEMMA CommitType ==
    ASSUME NEW cmd \in Commands, log \in Seq(Commands), Commit(cmd)
    PROVE  /\ log' \in Seq(Commands)
           /\ Len(log') = Len(log) + 1
           /\ \A i \in 1 .. Len(log) : log'[i] = log[i]
           /\ log'[Len(log) + 1] = cmd
           /\ base' = base
  BY DEF Commit

LEMMA CommandTypes ==
    ASSUME TypeOK
    PROVE  /\ \A n \in Nodes : RegisterNodeAddrCmd(n) \in Commands
           /\ \A g \in Goroutines : UpdateTopologyCmd(g) \in Commands
  <1>1. ASSUME NEW n \in Nodes PROVE RegisterNodeAddrCmd(n) \in Commands
    BY DEF RegisterNodeAddrCmd, Commands
  <1>2. ASSUME NEW g \in Goroutines PROVE UpdateTopologyCmd(g) \in Commands
    <2>1. publish[g].topo \in Topologies /\ g[1] \in Nodes
      BY DEF TypeOK, Goroutines
    <2> QED
      BY <2>1 DEF UpdateTopologyCmd, Commands
  <1> QED
    BY <1>1, <1>2

(* Recovering yields a state machine's state, and so does a command. *)
LEMMA RecoverType ==
    ASSUME NEW snap \in Snapshots
    PROVE  Recover(snap) \in [shard : Topologies, epoch : Nat, grpcAddrs : SUBSET Nodes]
  BY DEF Recover, Snapshots, Topologies

LEMMA ApplyType ==
    ASSUME NEW s \in [shard : Topologies, epoch : Nat, grpcAddrs : SUBSET Nodes],
           NEW cmd \in Commands
    PROVE  Apply(s, cmd) \in [shard : Topologies, epoch : Nat, grpcAddrs : SUBSET Nodes]
  <1>1. CASE cmd.type = "register"
    <2>1. cmd.node \in Nodes
      BY <1>1 DEF Commands
    <2> QED
      BY <1>1, <2>1 DEF Apply
  <1>2. CASE cmd.type = "topology"
    <2>1. cmd.topo \in Topologies /\ cmd.topo.epoch \in Nat
      BY <1>2 DEF Commands, Topologies
    <2>2. Max2(s.epoch, cmd.topo.epoch) \in Nat
      BY <2>1 DEF Max2
    <2> QED
      BY <1>2, <2>1, <2>2, Zenon DEF Apply
  <1> QED
    BY <1>1, <1>2 DEF Commands

(* At first the log has the registrations of the Unstable nodes. *)
LEMMA InitCommands ==
    ASSUME Init
    PROVE  /\ Len(log) \in Nat
           /\ \A i \in 1 .. Len(log) : log[i].type = "register"
           /\ \A n \in Unstable : \E i \in 1 .. Len(log) : log[i] = RegisterNodeAddrCmd(n)
  <1>1. Len(log) \in Nat /\ DOMAIN log = 1 .. Len(log)
    BY MetadataAssumption DEF Init
  <1>2. \A i \in 1 .. Len(log) : log[i] \in {RegisterNodeAddrCmd(n) : n \in Unstable}
    BY <1>1, Zenon DEF Init
  <1>3. \A i \in 1 .. Len(log) : log[i].type = "register"
    BY <1>2 DEF RegisterNodeAddrCmd
  <1>4. \A n \in Unstable : \E i \in 1 .. Len(log) : log[i] = RegisterNodeAddrCmd(n)
    BY <1>1 DEF Init
  <1> QED
    BY <1>1, <1>3, <1>4

LEMMA InitType == Init => TypeOK
  <1> SUFFICES ASSUME Init PROVE TypeOK
    OBVIOUS
  <1>1. log \in Seq(Commands)
    <2>1. \A n \in Unstable : RegisterNodeAddrCmd(n) \in Commands
      BY MetadataAssumption DEF RegisterNodeAddrCmd, Commands
    <2>2. log \in [1 .. Cardinality(Unstable) -> Commands]
      BY <2>1 DEF Init
    <2> QED
      BY <2>2, MetadataAssumption
  <1>2. [index |-> 0, shard |-> NoTopology, grpcAddrs |-> Nodes \ Unstable] \in Snapshots
    BY TopologyTypes DEF Snapshots
  <1>3. base \in Snapshots /\ snapshot \in [Nodes -> Snapshots]
    BY <1>2, Zenon DEF Init
  <1>4. sm \in [Nodes -> [shard : Topologies, epoch : Nat, grpcAddrs : SUBSET Nodes]]
    BY <1>2, RecoverType, Zenon DEF Init
  <1>5. applied \in [Nodes -> Nat]
    BY <1>1 DEF Init
  <1> QED
    BY <1>1, <1>3, <1>4, <1>5, TopologyTypes, Zenon DEF Init, TypeOK, Started

LEMMA ReadMembershipType ==
    ASSUME TypeOK, NEW g \in Goroutines, ReadMembership(g)
    PROVE  /\ publish' \in [Goroutines ->
                 [step : {"idle", "read", "propose"}, topo : Topologies]]
           /\ faults' \in Nat
           /\ \A h \in Goroutines \ {g} : publish'[h] = publish[h]
           /\ publish'[g].step = "propose" => publish'[g] = publish[g]
  <1>1. shard.config \in Nat
    BY DEF TypeOK, Views
  <1> DEFINE topo == [NoTopology EXCEPT !.config = shard.config]
             read == [step |-> "read", topo |-> topo]
  <1>2. topo \in Topologies
    BY <1>1, MetadataAssumption DEF NoTopology, Topologies
  <1>3. read \in [step : {"idle", "read", "propose"}, topo : Topologies] /\ read.step = "read"
    BY <1>2
  <1>4. \/ publish' = [publish EXCEPT ![g] = read] /\ faults' = faults
        \/ publish' = publish /\ faults' \in {faults, faults + 1}
    BY DEF ReadMembership
  <1>5. /\ publish \in [Goroutines ->
              [step : {"idle", "read", "propose"}, topo : Topologies]]
        /\ faults \in Nat
    BY DEF TypeOK
  <1> HIDE DEF read
  <1> QED
    BY <1>3, <1>4, <1>5

LEMMA BuildTopologyType ==
    ASSUME TypeOK, NEW g \in Goroutines
    PROVE  BuildTopology(g) \in Topologies
  <1>1. g[1] \in Nodes /\ publish[g].topo \in Topologies
    BY DEF TypeOK, Goroutines
  <1>2. /\ view[g[1]].leader \in Nodes \cup {NoNode}
        /\ view[g[1]].term \in 0 .. MaxChanges
        /\ sm[g[1]].grpcAddrs \in SUBSET Nodes
        /\ epoch[g[1]] + 1 \in Nat
    <2>1. view[g[1]] \in Views
      BY <1>1 DEF TypeOK
    <2>2. sm[g[1]].grpcAddrs \in SUBSET Nodes /\ epoch[g[1]] \in Nat
      BY <1>1 DEF TypeOK
    <2> QED
      BY <2>1, <2>2 DEF Views
  <1> DEFINE addr == IF view[g[1]].leader \in sm[g[1]].grpcAddrs
                       THEN view[g[1]].leader ELSE NoNode
  <1>3. addr \in Nodes \cup {NoNode}
    BY <1>2
  <1>4. BuildTopology(g) = [publish[g].topo EXCEPT
            !.leader = view[g[1]].leader, !.term = view[g[1]].term,
            !.grpcAddrs = sm[g[1]].grpcAddrs, !.leaderAddr = addr,
            !.epoch = epoch[g[1]] + 1]
    BY DEF BuildTopology
  <1> HIDE DEF addr
  <1> QED
    BY <1>1, <1>2, <1>3, <1>4, Zenon DEF Topologies

(* A replica's next command, and the snapshot it may make of the result. *)
LEMMA UpdateType ==
    ASSUME TypeOK, NEW n \in Nodes, Update(n)
    PROVE  /\ log[applied[n] - base.index + 1] \in Commands
           /\ sm' \in [Nodes -> [shard : Topologies, epoch : Nat, grpcAddrs : SUBSET Nodes]]
           /\ applied' \in [Nodes -> Nat]
           /\ snapshot' \in [Nodes -> Snapshots]
           /\ base' \in Snapshots
           /\ log' \in Seq(Commands)
  <1>1. log[applied[n] - base.index + 1] \in Commands
    <2>1. applied[n] >= base.index /\ applied[n] < LastIndex
      BY DEF Update
    <2> QED
      BY <2>1, LogTypes DEF LastIndex
  <1> DEFINE s == Apply(sm[n], log[applied[n] - base.index + 1])
             index == applied[n] + 1
  <1>2. s \in [shard : Topologies, epoch : Nat, grpcAddrs : SUBSET Nodes]
    BY <1>1, ApplyType, Zenon DEF TypeOK
  <1>3. [index |-> index, shard |-> s.shard, grpcAddrs |-> s.grpcAddrs] \in Snapshots
    BY <1>2 DEF Snapshots, TypeOK
  <1>4. /\ sm' = [sm EXCEPT ![n] = s]
        /\ applied' = [applied EXCEPT ![n] = index]
        /\ \/ SaveSnapshot(n, index, s)
           \/ UNCHANGED <<snapshot, logVars>>
    BY DEF Update
  <1> HIDE DEF s
  <1>5. CASE SaveSnapshot(n, index, s)
    <2> DEFINE snap == [index |-> index, shard |-> s.shard, grpcAddrs |-> s.grpcAddrs]
    <2>a. /\ snapshot' = [snapshot EXCEPT ![n] = snap]
          /\ base' \in {base, snap}
          /\ log' \in {log, SubSeq(log, index - base.index + 1, Len(log))}
      BY <1>5 DEF SaveSnapshot, logVars
    <2>b. snapshot \in [Nodes -> Snapshots] /\ base \in Snapshots /\ log \in Seq(Commands)
      BY DEF TypeOK
    <2>1. snapshot' \in [Nodes -> Snapshots] /\ base' \in Snapshots
      BY <1>3, <2>a, <2>b
    <2>2. SubSeq(log, index - base.index + 1, Len(log)) \in Seq(Commands)
      <3>1. index - base.index + 1 \in Nat \ {0}
        BY LogTypes DEF Update
      <3> QED
        BY <2>b, <3>1
    <2>3. log' \in Seq(Commands)
      BY <2>2, <2>a, <2>b, Zenon
    <2>4. sm' \in [Nodes -> [shard : Topologies, epoch : Nat, grpcAddrs : SUBSET Nodes]]
      BY <1>2, <1>4 DEF TypeOK
    <2>5. applied' \in [Nodes -> Nat]
      BY <1>4 DEF TypeOK
    <2> QED
      BY <1>1, <2>1, <2>3, <2>4, <2>5
  <1>6. CASE UNCHANGED <<snapshot, logVars>>
    BY <1>1, <1>2, <1>4, <1>6 DEF TypeOK, logVars
  <1> QED
    BY <1>4, <1>5, <1>6

LEMMA NextType == TypeOK /\ [Next]_vars => TypeOK'
  <1> SUFFICES ASSUME TypeOK, [Next]_vars PROVE TypeOK'
    OBVIOUS
  <1> USE DEF shardVars, logVars, smVars, boundVars
  <1>1. CASE UNCHANGED vars
    BY <1>1 DEF vars, TypeOK
  <1>2. ASSUME NEW n \in Nodes, Elect(n) PROVE TypeOK'
    <2>1. shard \in Views /\ restarts \in Nat /\ faults \in Nat
      BY DEF TypeOK
    <2>2. shard.term + 1 \in 0 .. MaxChanges
      BY <1>2, <2>1, MetadataAssumption DEF Elect, MayChange, Views
    <2>3. shard' \in Views
      BY <1>2, <2>1, <2>2, Zenon DEF Elect, Views
    <2>4. elected' \in [0 .. MaxChanges -> Nodes \cup {NoNode}]
      BY <1>2, Zenon DEF Elect, TypeOK
    <2> QED
      BY <1>2, <2>3, <2>4 DEF Elect, TypeOK
  <1>3. CASE ChangeMembership
    <2>1. shard' \in Views
      <3>1. shard \in Views
        BY DEF TypeOK
      <3> QED
        BY <1>3, <3>1 DEF ChangeMembership, Views
    <2> QED
      BY <1>3, <2>1 DEF ChangeMembership, TypeOK
  <1>4. ASSUME NEW n \in Nodes, LoseLeader(n) PROVE TypeOK'
    <2>1. view' \in [Nodes -> Views]
      <3>1. shard \in Views /\ view \in [Nodes -> Views]
        BY DEF TypeOK
      <3> QED
        BY <1>4, <3>1, 0 \in 0 .. MaxChanges DEF LoseLeader, Views
    <2>2. events' \in [Nodes -> Nat]
      BY <1>4 DEF LoseLeader, TypeOK
    <2> QED
      BY <1>4, <2>1, <2>2 DEF LoseLeader, TypeOK
  <1>5. ASSUME NEW n \in Nodes, LearnLeader(n) PROVE TypeOK'
    <2>1. view' \in [Nodes -> Views]
      <3>1. shard \in Views /\ view \in [Nodes -> Views]
        BY DEF TypeOK
      <3> QED
        BY <1>5, <3>1 DEF LearnLeader, Views
    <2>2. events' \in [Nodes -> Nat]
      BY <1>5 DEF LearnLeader, TypeOK
    <2> QED
      BY <1>5, <2>1, <2>2 DEF LearnLeader, TypeOK
  <1>6. ASSUME NEW n \in Nodes, LearnMembership(n) PROVE TypeOK'
    <2>1. view' \in [Nodes -> Views]
      <3>1. shard \in Views /\ view \in [Nodes -> Views]
        BY DEF TypeOK
      <3> QED
        BY <1>6, <3>1 DEF LearnMembership, Views
    <2>2. events' \in [Nodes -> Nat]
      BY <1>6 DEF LearnMembership, TypeOK
    <2> QED
      BY <1>6, <2>1, <2>2 DEF LearnMembership, TypeOK
  <1>7. ASSUME NEW n \in Nodes, ListenerCall(n) PROVE TypeOK'
    <2>1. <<n, "listener">> \in Goroutines
      BY DEF Goroutines
    <2> QED
      <3>1. events[n] \in Nat /\ events[n] > 0
        BY <1>7 DEF ListenerCall, TypeOK
      <3>2. events' \in [Nodes -> Nat]
        BY <1>7, <3>1 DEF ListenerCall, TypeOK
      <3>3. /\ publish' \in [Goroutines ->
                   [step : {"idle", "read", "propose"}, topo : Topologies]]
            /\ faults' \in Nat
        BY <1>7, <2>1, ReadMembershipType DEF ListenerCall
      <3> QED
        BY <1>7, <3>2, <3>3 DEF ListenerCall, TypeOK
  <1>8. ASSUME NEW g \in Goroutines, ReadLeaderAndAddrs(g) PROVE TypeOK'
    <2>1. g[1] \in Nodes
      BY DEF Goroutines
    <2>2. BuildTopology(g) \in Topologies
      BY BuildTopologyType
    <2>3. epoch' \in [Nodes -> Nat]
      BY <1>8, <2>1 DEF ReadLeaderAndAddrs, TypeOK
    <2>4. publish' \in [Goroutines ->
              [step : {"idle", "read", "propose"}, topo : Topologies]]
      BY <1>8, <2>2 DEF ReadLeaderAndAddrs, TypeOK
    <2> QED
      BY <1>8, <2>3, <2>4 DEF ReadLeaderAndAddrs, TypeOK
  <1>9. ASSUME NEW g \in Goroutines, Propose(g) PROVE TypeOK'
    BY <1>9, CommandTypes, CommitType, TopologyTypes DEF Propose, EndPublish, TypeOK
  <1>10. ASSUME NEW g \in Goroutines, ProposeFails(g) PROVE TypeOK'
    BY <1>10, CommandTypes, TopologyTypes DEF ProposeFails, EndPublish, TypeOK
  <1>11. ASSUME NEW cmd \in late, CommitLate(cmd) PROVE TypeOK'
    BY <1>11, CommitType DEF CommitLate, TypeOK
  <1>12. ASSUME NEW n \in Nodes, RegisterNodeAddr(n) PROVE TypeOK'
    <2>1. LastIndex + 1 \in Nat
      BY LogTypes
    <2> QED
      BY <1>12, <2>1, CommandTypes, CommitType, Zenon DEF RegisterNodeAddr, TypeOK
  <1>13. ASSUME NEW n \in Nodes, RegisterNodeAddrFails(n) PROVE TypeOK'
    BY <1>13, CommandTypes DEF RegisterNodeAddrFails, TypeOK
  <1>14. ASSUME NEW n \in Nodes, RegisterShard(n) PROVE TypeOK'
    <2>1. <<n, "start">> \in Goroutines
      BY DEF Goroutines
    <2> QED
      <3>1. /\ publish' \in [Goroutines ->
                   [step : {"idle", "read", "propose"}, topo : Topologies]]
            /\ faults' \in Nat
        BY <1>14, <2>1, ReadMembershipType DEF RegisterShard
      <3>2. start' \in [Nodes -> [step : {"register", "registering", "done"}, index : Nat]]
        BY <1>14 DEF RegisterShard, TypeOK, Started
      <3> QED
        BY <1>14, <3>1, <3>2 DEF RegisterShard, TypeOK
  <1>15. ASSUME NEW n \in Nodes, Update(n) PROVE TypeOK'
    BY <1>15, UpdateType, Zenon DEF Update, TypeOK
  <1>16. ASSUME NEW n \in Nodes, NEW from \in Nodes, ReceiveSnapshot(n, from) PROVE TypeOK'
    BY <1>16, RecoverType, Zenon DEF ReceiveSnapshot, TypeOK, Snapshots
  <1>17. ASSUME NEW n \in Nodes, Restart(n) PROVE TypeOK'
    <2>1. snapshot[n] \in Snapshots
      BY DEF TypeOK
    <2>2. sm' \in [Nodes -> [shard : Topologies, epoch : Nat, grpcAddrs : SUBSET Nodes]]
      BY <1>17, <2>1, RecoverType DEF Restart, TypeOK
    <2>3. applied' \in [Nodes -> Nat]
      BY <1>17, <2>1 DEF Restart, TypeOK, Snapshots
    <2>4. view' \in [Nodes -> Views]
      BY <1>17, TopologyTypes DEF Restart, TypeOK
    <2>5. start' \in [Nodes -> [step : {"register", "registering", "done"}, index : Nat]]
      BY <1>17 DEF Restart, TypeOK, Starting
    <2>6. publish' \in [Goroutines ->
              [step : {"idle", "read", "propose"}, topo : Topologies]]
      BY <1>17, TopologyTypes, Zenon DEF Restart, TypeOK
    <2>7. events' \in [Nodes -> Nat] /\ epoch' \in [Nodes -> Nat] /\ restarts' \in Nat
      BY <1>17 DEF Restart, TypeOK
    <2> QED
      BY <1>17, <2>2, <2>3, <2>4, <2>5, <2>6, <2>7, Zenon DEF Restart, TypeOK
  <1> QED
    BY <1>1, <1>2, <1>3, <1>4, <1>5, <1>6, <1>7, <1>8, <1>9, <1>10, <1>11, <1>12,
       <1>13, <1>14, <1>15, <1>16, <1>17 DEF Next, PublishStep

-----------------------------------------------------------------------------
(* Leaders and epochs. *)

(* What Update leaves of the log is the end of it. *)
LEMMA UpdateLog ==
    ASSUME TypeOK, NEW n \in Nodes, Update(n)
    PROVE  \E k \in 0 .. Len(log) :
              /\ Len(log') = Len(log) - k
              /\ \A i \in 1 .. Len(log') : log'[i] = log[i + k]
              /\ base'.index = base.index + k
              /\ k = 0 => base' = base
              /\ k > 0 => base.index + k = applied[n] + 1 /\ base' = Point(n)'
  <1> DEFINE s == Apply(sm[n], log[applied[n] - base.index + 1])
             index == applied[n] + 1
             snap == [index |-> index, shard |-> s.shard, grpcAddrs |-> s.grpcAddrs]
  <1>1. /\ sm' = [sm EXCEPT ![n] = s]
        /\ applied' = [applied EXCEPT ![n] = index]
        /\ \/ SaveSnapshot(n, index, s)
           \/ UNCHANGED <<snapshot, logVars>>
        /\ applied[n] >= base.index /\ applied[n] < base.index + Len(log)
    BY DEF Update, LastIndex
  <1>2. /\ applied \in [Nodes -> Nat] /\ DOMAIN sm = Nodes /\ log \in Seq(Commands)
        /\ base.index \in Nat
    BY DEF TypeOK, Snapshots
  <1>3. Point(n)' = snap
    BY <1>1, <1>2 DEF Point
  <1> HIDE DEF s
  <1>4. CASE SaveSnapshot(n, index, s)
    <2>1. base' = snap /\ log' = SubSeq(log, index - base.index + 1, Len(log))
      BY <1>1, <1>2, <1>4 DEF SaveSnapshot
    <2>2. /\ Len(log') = Len(log) - (index - base.index)
          /\ \A i \in 1 .. Len(log') : log'[i] = log[i + (index - base.index)]
      BY <1>1, <1>2, <2>1, SMTT(30)
    <2>3. index - base.index \in 0 .. Len(log) /\ snap.index = index
      BY <1>1, <1>2
    <2>4. base'.index = index /\ base' = Point(n)'
      BY <1>3, <2>1
    <2>5. base.index + (index - base.index) = index /\ index - base.index > 0
      BY <1>1, <1>2
    <2> DEFINE k == index - base.index
    <2>6. /\ k \in 0 .. Len(log) /\ k # 0 /\ base.index + k = index
          /\ Len(log') = Len(log) - k
          /\ \A i \in 1 .. Len(log') : log'[i] = log[i + k]
      BY <2>2, <2>3, <2>5
    <2> HIDE DEF k
    <2> QED
      BY <2>4, <2>6
  <1>5. CASE UNCHANGED <<snapshot, logVars>>
    BY <1>2, <1>5 DEF logVars
  <1> QED
    BY <1>1, <1>4, <1>5

LEMMA InitLeaders == Init => LeadersElected
  <1> SUFFICES ASSUME Init PROVE LeadersElected
    OBVIOUS
  <1>1. \A i \in 1 .. Len(log) : log[i].type = "register"
    BY InitCommands
  <1>2. \A g \in Goroutines : publish[g].step = "idle"
    BY DEF Init, Idle
  <1> QED
    BY <1>1, <1>2, MetadataAssumption DEF Init, LeadersElected, Unknown

(* A topology built from a node's view names the leader the node knows of. *)
LEMMA BuildLeaderOK ==
    ASSUME TypeOK, LeadersElected, NEW g \in Goroutines
    PROVE  LeaderOK(BuildTopology(g))
  <1>1. g[1] \in Nodes /\ publish[g].topo \in Topologies
    BY DEF TypeOK, Goroutines
  <1>2. /\ BuildTopology(g).leader = view[g[1]].leader
        /\ BuildTopology(g).term = view[g[1]].term
        /\ BuildTopology(g).leaderAddr \in {NoNode, view[g[1]].leader}
    BY <1>1 DEF BuildTopology, Topologies
  <1> QED
    BY <1>1, <1>2 DEF LeadersElected, LeaderOK

LEMMA CommitLeaders ==
    ASSUME TypeOK, LeadersElected, NEW cmd \in Commands, Commit(cmd),
           cmd.type = "topology" => LeaderOK(cmd.topo), UNCHANGED shardVars
    PROVE  (\A i \in 1 .. Len(log) : log[i].type = "topology" => LeaderOK(log[i].topo))'
  <1>1. /\ Len(log') = Len(log) + 1 /\ Len(log) \in Nat
        /\ \A i \in 1 .. Len(log) : log'[i] = log[i]
        /\ log'[Len(log) + 1] = cmd
    BY CommitType, LogTypes
  <1> QED
    BY <1>1 DEF LeadersElected, LeaderOK, shardVars

(* An election does not touch what was elected before. *)
LEMMA ElectKeeps ==
    ASSUME TypeOK, NEW n \in Nodes, Elect(n)
    PROVE  /\ shard'.term = shard.term + 1 /\ shard.term \in Nat
           /\ shard'.leader = elected'[shard'.term]
           /\ \A t \in 0 .. shard.term : elected'[t] = elected[t]
           /\ \A topo \in Topologies : LeaderOK(topo) => LeaderOK(topo)'
  <1>1. /\ shard \in Views /\ restarts \in Nat /\ faults \in Nat
        /\ elected \in [0 .. MaxChanges -> Nodes \cup {NoNode}]
    BY DEF TypeOK
  <1>2. shard.term \in Nat /\ shard.term + 1 \in 0 .. MaxChanges
    BY <1>1, MetadataAssumption DEF Elect, MayChange, Views
  <1>3. shard' = [shard EXCEPT !.leader = n, !.term = @ + 1]
        /\ elected' = [elected EXCEPT ![shard.term + 1] = n]
    BY DEF Elect
  <1>4. shard'.term = shard.term + 1 /\ shard'.leader = n
    BY <1>1, <1>3 DEF Views
  <1>5. elected'[shard.term + 1] = n /\ \A t \in 0 .. shard.term : elected'[t] = elected[t]
    BY <1>1, <1>2, <1>3
  <1>6. ASSUME NEW topo \in Topologies, LeaderOK(topo) PROVE LeaderOK(topo)'
    <2>1. topo.term \in 0 .. shard.term
      BY <1>2, <1>6 DEF Topologies, LeaderOK
    <2> QED
      BY <1>2, <1>4, <1>5, <1>6, <2>1 DEF LeaderOK
  <1> QED
    BY <1>2, <1>4, <1>5, <1>6

LEMMA NextLeaders == TypeOK /\ LeadersElected /\ [Next]_vars => LeadersElected'
  <1> SUFFICES ASSUME TypeOK, LeadersElected, [Next]_vars PROVE LeadersElected'
    OBVIOUS
  <1> USE DEF shardVars, logVars, smVars, boundVars
  <1>t. /\ \A n \in Nodes : view[n].term \in Nat /\ view[n].leader \in Nodes \cup {NoNode}
        /\ shard.term \in Nat
        /\ \A g \in Goroutines : publish[g].topo \in Topologies
        /\ \A cmd \in late : cmd.type = "topology" => cmd.topo \in Topologies
        /\ \A i \in 1 .. Len(log) : log[i].type = "topology" => log[i].topo \in Topologies
    <2>1. \A cmd \in Commands : cmd.type = "topology" => cmd.topo \in Topologies
      BY DEF Commands
    <2>2. \A n \in Nodes : view[n] \in Views
      BY DEF TypeOK
    <2>3. shard \in Views /\ late \subseteq Commands /\ log \in Seq(Commands)
      BY DEF TypeOK
    <2>4. \A g \in Goroutines : publish[g].topo \in Topologies
      BY DEF TypeOK
    <2> QED
      BY <2>1, <2>2, <2>3, <2>4 DEF Views
  <1>1. ASSUME UNCHANGED <<shard, elected, view, publish, late, log>> PROVE LeadersElected'
    BY <1>1 DEF LeadersElected, LeaderOK
  <1>2. ASSUME NEW n \in Nodes, Elect(n) PROVE LeadersElected'
    <2>1. UNCHANGED <<view, publish, late, log>>
      BY <1>2 DEF Elect
    <2>2. elected'[0] = NoNode
      BY <1>2, ElectKeeps DEF LeadersElected
    <2>3. \A m \in Nodes : view'[m].term <= shard'.term /\ view'[m].leader = elected'[view'[m].term]
      BY <1>2, <1>t, <2>1, ElectKeeps DEF LeadersElected
    <2>4. (\A g \in Goroutines : publish[g].step = "propose" => LeaderOK(publish[g].topo))'
      BY <1>2, <1>t, <2>1, ElectKeeps DEF LeadersElected
    <2>5. (\A cmd \in late : cmd.type = "topology" => LeaderOK(cmd.topo))'
      BY <1>2, <1>t, <2>1, ElectKeeps DEF LeadersElected
    <2>6. (\A i \in 1 .. Len(log) : log[i].type = "topology" => LeaderOK(log[i].topo))'
      BY <1>2, <1>t, <2>1, ElectKeeps DEF LeadersElected
    <2> QED
      BY <1>2, <2>2, <2>3, <2>4, <2>5, <2>6, ElectKeeps DEF LeadersElected
  <1>3. CASE ChangeMembership
    <2>1. shard \in Views
      BY DEF TypeOK
    <2>2. shard'.term = shard.term /\ shard'.leader = shard.leader
      BY <1>3, <2>1 DEF ChangeMembership, Views
    <2> QED
      BY <1>3, <2>2 DEF ChangeMembership, LeadersElected, LeaderOK
  <1>4. ASSUME NEW n \in Nodes,
               LoseLeader(n) \/ LearnLeader(n) \/ LearnMembership(n) \/ Restart(n)
        PROVE  LeadersElected'
    <2>1. UNCHANGED <<shard, elected, late, log>>
      BY <1>4 DEF LoseLeader, LearnLeader, LearnMembership, Restart
    <2>2. \A m \in Nodes :
             \/ view'[m].term = view[m].term /\ view'[m].leader = view[m].leader
             \/ view'[m].term = 0 /\ view'[m].leader = NoNode
             \/ view'[m].term = shard.term /\ view'[m].leader = shard.leader
      <3>1. view \in [Nodes -> Views]
        BY DEF TypeOK
      <3> QED
        BY <1>4, <3>1 DEF LoseLeader, LearnLeader, LearnMembership, Restart, Views, Unknown
    <2>3. \A m \in Nodes : view'[m].term <= shard'.term /\ view'[m].leader = elected'[view'[m].term]
      BY <1>t, <2>1, <2>2 DEF LeadersElected
    <2>4. \A g \in Goroutines : publish'[g] = publish[g] \/ publish'[g].step = "idle"
      <3>1. CASE Restart(n)
        BY <3>1, Zenon DEF Restart, TypeOK, Idle
      <3>2. CASE ~Restart(n)
        BY <1>4, <3>2 DEF LoseLeader, LearnLeader, LearnMembership
      <3> QED
        BY <3>1, <3>2
    <2> QED
      BY <2>1, <2>3, <2>4 DEF LeadersElected, LeaderOK
  <1>5. ASSUME NEW n \in Nodes, ListenerCall(n) \/ RegisterShard(n) PROVE LeadersElected'
    <2>1. UNCHANGED <<shard, elected, view, late, log>>
      BY <1>5 DEF ListenerCall, RegisterShard
    <2>2. \A g \in Goroutines : publish'[g] = publish[g] \/ publish'[g].step # "propose"
      <3>1. PICK g \in Goroutines : ReadMembership(g)
        BY <1>5 DEF ListenerCall, RegisterShard, Goroutines
      <3> QED
        BY <3>1, ReadMembershipType
    <2> QED
      BY <2>1, <2>2 DEF LeadersElected, LeaderOK
  <1>6. ASSUME NEW g \in Goroutines, ReadLeaderAndAddrs(g) PROVE LeadersElected'
    <2>1. UNCHANGED <<shard, elected, view, late, log>>
      BY <1>6 DEF ReadLeaderAndAddrs
    <2>2. \A h \in Goroutines : publish'[h] = publish[h] \/ publish'[h].topo = BuildTopology(g)
      BY <1>6 DEF ReadLeaderAndAddrs, TypeOK
    <2> QED
      BY <2>1, <2>2, BuildLeaderOK DEF LeadersElected, LeaderOK
  <1>7. ASSUME NEW g \in Goroutines, Propose(g) \/ ProposeFails(g) PROVE LeadersElected'
    <2>1. UNCHANGED <<shard, elected, view>> /\ UNCHANGED shardVars
      BY <1>7 DEF Propose, ProposeFails
    <2>2. \A h \in Goroutines : publish'[h] = publish[h] \/ publish'[h].step = "idle"
      BY <1>7 DEF Propose, ProposeFails, EndPublish, TypeOK, Idle
    <2>3. UpdateTopologyCmd(g) \in Commands /\ LeaderOK(UpdateTopologyCmd(g).topo)
      BY <1>7, CommandTypes DEF Propose, ProposeFails, UpdateTopologyCmd, LeadersElected
    <2>4. (\A i \in 1 .. Len(log) : log[i].type = "topology" => LeaderOK(log[i].topo))'
      <3>1. CASE Propose(g)
        BY <2>1, <2>3, <3>1, CommitLeaders DEF Propose
      <3>2. CASE ProposeFails(g)
        BY <2>1, <3>2 DEF ProposeFails, LeadersElected, LeaderOK
      <3> QED
        BY <1>7, <3>1, <3>2
    <2>5. late' \subseteq late \cup {UpdateTopologyCmd(g)}
      BY <1>7 DEF Propose, ProposeFails
    <2>6. (\A cmd \in late : cmd.type = "topology" => LeaderOK(cmd.topo))'
      BY <2>1, <2>3, <2>5 DEF LeadersElected, LeaderOK
    <2>7. (\A h \in Goroutines : publish[h].step = "propose" => LeaderOK(publish[h].topo))'
      BY <2>1, <2>2 DEF LeadersElected, LeaderOK
    <2> QED
      BY <2>1, <2>4, <2>6, <2>7 DEF LeadersElected
  <1>8. ASSUME NEW cmd \in late, CommitLate(cmd) PROVE LeadersElected'
    <2>1. UNCHANGED <<shard, elected, view, publish>> /\ UNCHANGED shardVars
      BY <1>8 DEF CommitLate
    <2>2. cmd \in Commands /\ (cmd.type = "topology" => LeaderOK(cmd.topo)) /\ Commit(cmd)
      BY <1>8 DEF CommitLate, TypeOK, LeadersElected
    <2>3. (\A i \in 1 .. Len(log) : log[i].type = "topology" => LeaderOK(log[i].topo))'
      BY <2>1, <2>2, CommitLeaders
    <2>4. late' \subseteq late
      BY <1>8 DEF CommitLate
    <2> QED
      BY <2>1, <2>3, <2>4 DEF LeadersElected, LeaderOK
  <1>9. ASSUME NEW n \in Nodes, RegisterNodeAddr(n) PROVE LeadersElected'
    <2>1. UNCHANGED <<shard, elected, view, publish, late>> /\ UNCHANGED shardVars
      BY <1>9 DEF RegisterNodeAddr
    <2>2. /\ RegisterNodeAddrCmd(n) \in Commands /\ Commit(RegisterNodeAddrCmd(n))
          /\ RegisterNodeAddrCmd(n).type # "topology"
      BY <1>9, CommandTypes DEF RegisterNodeAddr, RegisterNodeAddrCmd
    <2>3. (\A i \in 1 .. Len(log) : log[i].type = "topology" => LeaderOK(log[i].topo))'
      BY <2>1, <2>2, CommitLeaders
    <2> QED
      BY <2>1, <2>3 DEF LeadersElected, LeaderOK
  <1>10. ASSUME NEW n \in Nodes, RegisterNodeAddrFails(n) PROVE LeadersElected'
    <2>1. UNCHANGED <<shard, elected, view, publish, log>>
      BY <1>10 DEF RegisterNodeAddrFails
    <2>2. late' \subseteq late \cup {RegisterNodeAddrCmd(n)}
      BY <1>10 DEF RegisterNodeAddrFails
    <2>3. RegisterNodeAddrCmd(n).type # "topology"
      BY DEF RegisterNodeAddrCmd
    <2> QED
      BY <2>1, <2>2, <2>3 DEF LeadersElected, LeaderOK
  <1>11. ASSUME NEW n \in Nodes, Update(n) PROVE LeadersElected'
    <2>1. UNCHANGED <<shard, elected, view, publish, late>>
      BY <1>11 DEF Update
    <2>2. PICK k \in 0 .. Len(log) :
             /\ Len(log') = Len(log) - k
             /\ \A i \in 1 .. Len(log') : log'[i] = log[i + k]
      BY <1>11, UpdateLog
    <2>3. Len(log) \in Nat
      BY DEF TypeOK
    <2>4. (\A i \in 1 .. Len(log) : log[i].type = "topology" => LeaderOK(log[i].topo))'
      <3>1. ASSUME NEW i \in 1 .. Len(log'), log'[i].type = "topology"
            PROVE  LeaderOK(log[i].topo)'
        <4>1. i + k \in 1 .. Len(log) /\ log'[i] = log[i + k]
          BY <2>2, <2>3
        <4>2. LeaderOK(log[i + k].topo)
          BY <3>1, <4>1 DEF LeadersElected
        <4> QED
          BY <2>1, <4>1, <4>2 DEF LeaderOK
      <3> QED
        BY <3>1
    <2> QED
      BY <2>1, <2>4 DEF LeadersElected, LeaderOK
  <1>12. ASSUME NEW n \in Nodes, NEW from \in Nodes, ReceiveSnapshot(n, from)
         PROVE  LeadersElected'
    BY <1>1, <1>12 DEF ReceiveSnapshot
  <1>13. CASE UNCHANGED vars
    BY <1>1, <1>13 DEF vars
  <1> QED
    BY <1>2, <1>3, <1>4, <1>5, <1>6, <1>7, <1>8, <1>9, <1>10, <1>11, <1>12, <1>13
       DEF Next, PublishStep

-----------------------------------------------------------------------------
(* Replicas, snapshots and the log. *)

(* The commands up to an index leave one topology. *)
LEMMA LastTopologyUnique ==
    ASSUME TypeOK, NEW k \in Nat, k >= base.index, k <= LastIndex,
           NEW t, NEW u, IsLastTopology(t, k), IsLastTopology(u, k)
    PROVE  t = u
  <1>1. base.index \in Nat
    BY LogTypes
  <1> DEFINE last(x, i) ==
          /\ log[i].type = "topology" /\ log[i].topo = x
          /\ \A j \in (i + 1) .. (k - base.index) : log[j].type # "topology"
  <1>2. CASE t = base.shard /\ \A i \in 1 .. (k - base.index) : log[i].type # "topology"
    BY <1>2 DEF IsLastTopology
  <1>3. CASE u = base.shard /\ \A i \in 1 .. (k - base.index) : log[i].type # "topology"
    BY <1>3 DEF IsLastTopology
  <1>4. CASE /\ \E i \in 1 .. (k - base.index) : last(t, i)
             /\ \E i \in 1 .. (k - base.index) : last(u, i)
    <2>1. PICK i \in 1 .. (k - base.index) : last(t, i)
      BY <1>4
    <2>2. PICK j \in 1 .. (k - base.index) : last(u, j)
      BY <1>4
    <2>3. ~(i < j) /\ ~(j < i)
      BY <1>1, <2>1, <2>2
    <2>4. i = j
      BY <1>1, <2>3
    <2> QED
      BY <2>1, <2>2, <2>4
  <1> QED
    BY <1>2, <1>3, <1>4 DEF IsLastTopology

LEMMA RegisteredGrows ==
    ASSUME TypeOK, NEW j \in Nat, NEW k \in Nat, j <= k
    PROVE  Registered(j) \subseteq Registered(k) /\ base.grpcAddrs \subseteq Registered(k)
  <1>1. base.index \in Nat
    BY LogTypes
  <1> QED
    BY <1>1 DEF Registered

(* A command that is committed changes nothing about those before it. *)
LEMMA CommitKeepsPoints ==
    ASSUME TypeOK, NEW cmd \in Commands, Commit(cmd),
           NEW k \in Nat, k >= base.index, k <= LastIndex
    PROVE  /\ Registered(k)' = Registered(k)
           /\ \A t : IsLastTopology(t, k) => IsLastTopology(t, k)'
  <1>1. /\ base.index \in Nat /\ Len(log) \in Nat /\ base' = base
        /\ \A i \in 1 .. Len(log) : log'[i] = log[i]
    BY CommitType, LogTypes
  <1>2. \A i \in 1 .. (k - base.index) : log'[i] = log[i]
    BY <1>1 DEF LastIndex
  <1>3. Registered(k)' = Registered(k)
    BY <1>1, <1>2 DEF Registered, RegisterNodeAddrCmd
  <1>4. ASSUME NEW t, IsLastTopology(t, k) PROVE IsLastTopology(t, k)'
    <2>1. CASE t = base.shard /\ \A i \in 1 .. (k - base.index) : log[i].type # "topology"
      BY <1>1, <1>2, <2>1 DEF IsLastTopology
    <2>2. ASSUME NEW i \in 1 .. (k - base.index), log[i].type = "topology", log[i].topo = t,
                 \A j \in (i + 1) .. (k - base.index) : log[j].type # "topology"
          PROVE  IsLastTopology(t, k)'
      <3>1. \A j \in (i + 1) .. (k - base.index) : log'[j].type # "topology"
        BY <1>1, <1>2, <2>2
      <3> QED
        BY <1>1, <1>2, <2>2, <3>1 DEF IsLastTopology
    <2> QED
      BY <1>4, <2>1, <2>2 DEF IsLastTopology
  <1> QED
    BY <1>3, <1>4

(* Dropping commands that are in the new base changes nothing about the    *)
(* states after it.                                                        *)
LEMMA CompactionKeepsPoints ==
    ASSUME TypeOK, NEW c \in 0 .. Len(log), NEW b,
           base' = b, b.index = base.index + c,
           IsLastTopology(b.shard, b.index), b.grpcAddrs = Registered(b.index),
           Len(log') = Len(log) - c, \A i \in 1 .. Len(log') : log'[i] = log[i + c],
           NEW k \in Nat, k >= b.index, k <= LastIndex
    PROVE  /\ Registered(k)' = Registered(k)
           /\ \A t : IsLastTopology(t, k) => IsLastTopology(t, k)'
  <1>1. base.index \in Nat /\ Len(log) \in Nat
    BY LogTypes
  <1>2. /\ k - base'.index = (k - base.index) - c
        /\ \A i \in 1 .. (k - base'.index) :
              log'[i] = log[i + c] /\ i + c \in (c + 1) .. (k - base.index)
    <2>1. base'.index = base.index + c
      OBVIOUS
    <2>2. k - base'.index \in 0 .. Len(log') /\ k - base'.index = (k - base.index) - c
      BY <1>1, <2>1 DEF LastIndex
    <2>3. \A i \in 1 .. (k - base'.index) : i \in 1 .. Len(log')
      BY <1>1, <2>2
    <2>4. \A i \in 1 .. (k - base'.index) : i + c \in (c + 1) .. (k - base.index)
      BY <1>1, <2>2
    <2> QED
      BY <2>2, <2>3, <2>4
  <1>3. \A i \in (c + 1) .. (k - base.index) :
           i - c \in 1 .. (k - base'.index) /\ log'[i - c] = log[i]
    <2> SUFFICES ASSUME NEW i \in (c + 1) .. (k - base.index)
                 PROVE  i - c \in 1 .. (k - base'.index) /\ log'[i - c] = log[i]
      OBVIOUS
    <2>1. i - c \in 1 .. (k - base'.index) /\ (i - c) + c = i
      BY <1>1, <1>2
    <2> QED
      BY <1>2, <2>1
  <1>4. Registered(k)' = Registered(k)
    <2>1. b.index - base.index = c
      BY <1>1
    <2>2. ASSUME NEW n \in Nodes, n \in Registered(k) PROVE n \in Registered(k)'
      <3>1. CASE n \in base.grpcAddrs
        BY <3>1 DEF Registered
      <3>2. ASSUME NEW i \in 1 .. (k - base.index), log[i] = RegisterNodeAddrCmd(n)
            PROVE  n \in Registered(k)'
        <4>1. CASE i <= c
          BY <1>1, <2>1, <3>2, <4>1 DEF Registered
        <4>2. CASE i > c
          <5>1. i - c \in 1 .. (k - base'.index) /\ log'[i - c] = RegisterNodeAddrCmd(n)'
            BY <1>1, <1>3, <3>2, <4>2 DEF RegisterNodeAddrCmd
          <5> QED
            BY <5>1 DEF Registered
        <4> QED
          BY <1>1, <4>1, <4>2
      <3> QED
        BY <2>2, <3>1, <3>2 DEF Registered
    <2>3. ASSUME NEW n, n \in Registered(k)' PROVE n \in Registered(k)
      <3>1. CASE n \in b.grpcAddrs
        <4>1. b.index \in Nat
          BY <1>1
        <4> QED
          BY <3>1, <4>1, RegisteredGrows
      <3>2. ASSUME n \in Nodes, NEW i \in 1 .. (k - base'.index),
                   log'[i] = RegisterNodeAddrCmd(n)'
            PROVE  n \in Registered(k)
        <4>1. i + c \in 1 .. (k - base.index) /\ log[i + c] = RegisterNodeAddrCmd(n)
          BY <1>1, <1>2, <3>2 DEF RegisterNodeAddrCmd
        <4> QED
          BY <3>2, <4>1 DEF Registered
      <3> QED
        BY <2>3, <3>1, <3>2 DEF Registered
    <2>4. Registered(k) \subseteq Nodes
      BY LogTypes DEF Registered, Snapshots
    <2> QED
      BY <2>2, <2>3, <2>4, Zenon
  <1>5. ASSUME NEW t, IsLastTopology(t, k) PROVE IsLastTopology(t, k)'
    <2>1. ASSUME \A i \in (c + 1) .. (k - base.index) : log[i].type # "topology",
                 IsLastTopology(t, b.index)
          PROVE  IsLastTopology(t, k)'
      <3>1. t = b.shard
        <4>1. b.index \in Nat /\ b.index >= base.index /\ b.index <= LastIndex
          BY <1>1 DEF LastIndex
        <4> QED
          BY <2>1, <4>1, LastTopologyUnique
      <3>2. \A i \in 1 .. (k - base'.index) : log'[i].type # "topology"
        BY <1>2, <2>1
      <3> QED
        BY <3>1, <3>2 DEF IsLastTopology
    <2>2. CASE t = base.shard /\ \A i \in 1 .. (k - base.index) : log[i].type # "topology"
      <3>1. IsLastTopology(t, b.index)
        <4>1. \A i \in 1 .. (b.index - base.index) : i \in 1 .. (k - base.index)
          BY <1>1
        <4> QED
          BY <2>2, <4>1 DEF IsLastTopology
      <3>2. \A i \in (c + 1) .. (k - base.index) : log[i].type # "topology"
        BY <1>1, <2>2
      <3> QED
        BY <2>1, <3>1, <3>2
    <2>3. ASSUME NEW i \in 1 .. (k - base.index), log[i].type = "topology", log[i].topo = t,
                 \A j \in (i + 1) .. (k - base.index) : log[j].type # "topology"
          PROVE  IsLastTopology(t, k)'
      <3>1. CASE i <= c
        <4>1. i \in 1 .. (b.index - base.index)
          BY <1>1, <3>1
        <4>2. \A j \in (i + 1) .. (b.index - base.index) : log[j].type # "topology"
          BY <1>1, <2>3, <3>1
        <4>3. IsLastTopology(t, b.index)
          BY <2>3, <4>1, <4>2 DEF IsLastTopology
        <4>4. \A j \in (c + 1) .. (k - base.index) : log[j].type # "topology"
          BY <1>1, <2>3, <3>1
        <4> QED
          BY <2>1, <4>3, <4>4
      <3>2. CASE i > c
        <4>1. i - c \in 1 .. (k - base'.index) /\ log'[i - c] = log[i]
          BY <1>1, <1>3, <3>2
        <4>2. \A j \in ((i - c) + 1) .. (k - base'.index) : log'[j].type # "topology"
          <5>1. \A j \in ((i - c) + 1) .. (k - base'.index) :
                   /\ j \in 1 .. (k - base'.index)
                   /\ j + c \in (i + 1) .. (k - base.index)
            BY <1>1, <1>2, <3>2
          <5> QED
            BY <1>2, <2>3, <5>1
        <4> QED
          BY <2>3, <4>1, <4>2 DEF IsLastTopology
      <3> QED
        BY <1>1, <3>1, <3>2
    <2> QED
      BY <1>5, <2>2, <2>3 DEF IsLastTopology
  <1> QED
    BY <1>4, <1>5

LEMMA PointTypes ==
    ASSUME TypeOK
    PROVE  \A p \in Points : p.index \in Nat /\ p.grpcAddrs \subseteq Nodes
  <1>1. \A p \in Snapshots : p.index \in Nat /\ p.grpcAddrs \subseteq Nodes
    BY DEF Snapshots
  <1>2. base \in Snapshots /\ \A n \in Nodes : snapshot[n] \in Snapshots
    BY DEF TypeOK
  <1>3. \A n \in Nodes : Point(n).index \in Nat /\ Point(n).grpcAddrs \subseteq Nodes
    BY DEF Point, TypeOK
  <1> QED
    BY <1>1, <1>2, <1>3 DEF Points

(* The state a replica gets to with its next command is that of the log. *)
LEMMA UpdatePoint ==
    ASSUME TypeOK, LogInv, NEW n \in Nodes, Update(n), NEW q, q = Point(n)'
    PROVE  /\ q.index = applied[n] + 1 /\ q.index \in Nat
           /\ q.index > base.index /\ q.index <= LastIndex
           /\ IsLastTopology(q.shard, q.index)
           /\ q.grpcAddrs = Registered(q.index)
           /\ Points' \subseteq Points \cup {q}
  <1> DEFINE k == applied[n] - base.index
             cmd == log[k + 1]
  <1>1. /\ base.index \in Nat /\ Len(log) \in Nat /\ applied[n] \in Nat
        /\ applied \in [Nodes -> Nat] /\ DOMAIN sm = Nodes /\ DOMAIN snapshot = Nodes
        /\ sm[n] \in [shard : Topologies, epoch : Nat, grpcAddrs : SUBSET Nodes]
    BY DEF TypeOK, Snapshots
  <1>2. /\ k \in Nat /\ k + 1 \in 1 .. Len(log) /\ cmd \in Commands
        /\ applied[n] >= base.index
    <2>1. applied[n] >= base.index /\ applied[n] < LastIndex
      BY DEF Update
    <2>2. cmd \in Commands
      BY UpdateType
    <2> QED
      BY <1>1, <2>1, <2>2 DEF LastIndex
  <1>3. /\ sm' = [sm EXCEPT ![n] = Apply(sm[n], cmd)]
        /\ applied' = [applied EXCEPT ![n] = applied[n] + 1]
    BY DEF Update
  <1>4. /\ q.index = applied[n] + 1
        /\ q.shard = Apply(sm[n], cmd).shard
        /\ q.grpcAddrs = Apply(sm[n], cmd).grpcAddrs
    BY <1>1, <1>3 DEF Point
  <1>5. (q.index - base.index) = k + 1 /\ q.index \in Nat /\ q.index > base.index
        /\ q.index <= LastIndex
    BY <1>1, <1>2, <1>4 DEF LastIndex
  <1>6. IsLastTopology(sm[n].shard, applied[n]) /\ sm[n].grpcAddrs = Registered(applied[n])
    <2>1. Point(n) \in Points /\ Point(n).index >= base.index
      BY <1>2 DEF Points, Point
    <2> QED
      BY <2>1 DEF LogInv, PointsOfLog, Point
  <1> HIDE DEF cmd
  <1>7. ASSUME cmd.type = "register"
        PROVE  IsLastTopology(q.shard, q.index) /\ q.grpcAddrs = Registered(q.index)
    <2>1. q.shard = sm[n].shard /\ q.grpcAddrs = sm[n].grpcAddrs \cup {cmd.node}
      BY <1>1, <1>4, <1>7 DEF Apply
    <2>2. cmd.node \in Nodes /\ cmd = RegisterNodeAddrCmd(cmd.node)
      BY <1>2, <1>7 DEF Commands, RegisterNodeAddrCmd
    <2>3. IsLastTopology(q.shard, q.index)
      <3>1. CASE /\ q.shard = base.shard
                 /\ \A i \in 1 .. k : log[i].type # "topology"
        <4>1. \A i \in 1 .. (q.index - base.index) : log[i].type # "topology"
          BY <1>2, <1>5, <1>7, <3>1 DEF cmd
        <4> QED
          BY <3>1, <4>1 DEF IsLastTopology
      <3>2. ASSUME NEW i \in 1 .. k, log[i].type = "topology", log[i].topo = q.shard,
                   \A j \in (i + 1) .. k : log[j].type # "topology"
            PROVE  IsLastTopology(q.shard, q.index)
        <4>1. \A j \in (i + 1) .. (q.index - base.index) : log[j].type # "topology"
          BY <1>2, <1>5, <1>7, <3>2 DEF cmd
        <4>2. i \in 1 .. (q.index - base.index)
          BY <1>2, <1>5
        <4> QED
          BY <3>2, <4>1, <4>2 DEF IsLastTopology
      <3> QED
        BY <1>6, <2>1, <3>1, <3>2 DEF IsLastTopology
    <2>4. Registered(q.index) = Registered(applied[n]) \cup {cmd.node}
      <3>1. ASSUME NEW m \in Nodes PROVE
               (\E i \in 1 .. (k + 1) : log[i] = RegisterNodeAddrCmd(m))
                  <=> \/ \E i \in 1 .. k : log[i] = RegisterNodeAddrCmd(m)
                      \/ m = cmd.node
        <4>1. cmd = RegisterNodeAddrCmd(m) <=> m = cmd.node
          BY <2>2 DEF RegisterNodeAddrCmd
        <4> QED
          BY <1>2, <4>1 DEF cmd
      <3> QED
        BY <1>5, <2>2, <3>1 DEF Registered
    <2> QED
      BY <1>6, <2>1, <2>3, <2>4, <1>7
  <1>8. ASSUME cmd.type = "topology"
        PROVE  IsLastTopology(q.shard, q.index) /\ q.grpcAddrs = Registered(q.index)
    <2>1. q.shard = cmd.topo /\ q.grpcAddrs = sm[n].grpcAddrs
      BY <1>1, <1>4, <1>8, Zenon DEF Apply
    <2>2. IsLastTopology(q.shard, q.index)
      <3>1. \A j \in ((k + 1) + 1) .. (q.index - base.index) : log[j].type # "topology"
        BY <1>2, <1>5
      <3>2. k + 1 \in 1 .. (q.index - base.index)
        BY <1>2, <1>5
      <3> QED
        BY <1>8, <2>1, <3>1, <3>2 DEF IsLastTopology, cmd
    <2>3. Registered(q.index) = Registered(applied[n])
      <3>1. \A m \in Nodes : cmd # RegisterNodeAddrCmd(m)
        BY <1>8 DEF RegisterNodeAddrCmd
      <3>2. \A m \in Nodes :
               (\E i \in 1 .. (k + 1) : log[i] = RegisterNodeAddrCmd(m))
                  <=> \E i \in 1 .. k : log[i] = RegisterNodeAddrCmd(m)
        BY <1>2, <3>1 DEF cmd
      <3> QED
        BY <1>5, <3>2 DEF Registered
    <2> QED
      BY <1>6, <2>1, <2>2, <2>3
  <1>9. IsLastTopology(q.shard, q.index) /\ q.grpcAddrs = Registered(q.index)
    <2>1. cmd.type \in {"register", "topology"}
      BY <1>2 DEF Commands
    <2> QED
      BY <1>6, <1>7, <1>8, <2>1
  <1>10. Points' \subseteq Points \cup {q}
    <2>1. \A m \in Nodes : Point(m)' \in Points \cup {q}
      <3>1. \A m \in Nodes \ {n} : Point(m)' = Point(m)
        BY <1>1, <1>3 DEF Point
      <3> QED
        BY <3>1 DEF Points
    <2>2. q = [index |-> applied[n] + 1, shard |-> Apply(sm[n], cmd).shard,
               grpcAddrs |-> Apply(sm[n], cmd).grpcAddrs]
      BY <1>1, <1>3 DEF Point
    <2>3. /\ \A m \in Nodes : snapshot'[m] \in {snapshot[m], q}
          /\ base' \in {base, q}
      BY <1>1, <2>2 DEF Update, SaveSnapshot, logVars, cmd
    <2> QED
      BY <2>1, <2>3 DEF Points
  <1> QED
    BY <1>4, <1>5, <1>9, <1>10

LEMMA InitLog == Init => LogInv
  <1> SUFFICES ASSUME Init PROVE LogInv
    OBVIOUS
  <1> DEFINE snap == [index |-> 0, shard |-> NoTopology, grpcAddrs |-> Nodes \ Unstable]
             top == [index |-> Len(log), shard |-> NoTopology, grpcAddrs |-> Nodes]
  <1>1. /\ base = snap /\ \A n \in Nodes : snapshot[n] = snap
        /\ \A n \in Nodes : Point(n) = top
    BY DEF Init, Point, Recover
  <1>2. /\ Len(log) \in Nat
        /\ \A i \in 1 .. Len(log) : log[i].type = "register"
        /\ \A n \in Unstable : \E i \in 1 .. Len(log) : log[i] = RegisterNodeAddrCmd(n)
    BY InitCommands
  <1>3. Points \subseteq {snap, top}
    BY <1>1 DEF Points
  <1>4. base.index = 0 /\ base.shard = NoTopology /\ base.grpcAddrs = Nodes \ Unstable
    BY <1>1
  <1>5. /\ IsLastTopology(NoTopology, 0) /\ Registered(0) = Nodes \ Unstable
        /\ IsLastTopology(NoTopology, Len(log)) /\ Registered(Len(log)) = Nodes
    <2>1. IsLastTopology(NoTopology, 0) /\ IsLastTopology(NoTopology, Len(log))
      BY <1>2, <1>4 DEF IsLastTopology
    <2>2. Registered(0) = Nodes \ Unstable
      BY <1>4 DEF Registered
    <2>3. Registered(Len(log)) = Nodes
      BY <1>2, <1>4 DEF Registered
    <2> QED
      BY <2>1, <2>2, <2>3
  <1>6. LastIndex = Len(log)
    BY <1>2, <1>4 DEF LastIndex
  <1>7. /\ snap.index = 0 /\ snap.shard = NoTopology /\ snap.grpcAddrs = Nodes \ Unstable
        /\ top.index = Len(log) /\ top.shard = NoTopology /\ top.grpcAddrs = Nodes
    OBVIOUS
  <1> HIDE DEF snap, top
  <1>8. PointsOfLog
    <2>1. ASSUME NEW p \in Points
          PROVE  /\ p.index <= LastIndex
                 /\ IsLastTopology(p.shard, p.index) /\ p.grpcAddrs = Registered(p.index)
      <3>1. CASE p = snap
        <4>1. p.index = 0 /\ p.shard = NoTopology /\ p.grpcAddrs = Nodes \ Unstable
          BY <1>7, <3>1
        <4>2. p.index <= LastIndex
          BY <1>2, <1>6, <4>1
        <4> QED
          BY <1>5, <4>1, <4>2, Zenon
      <3>2. CASE p = top
        BY <1>2, <1>5, <1>6, <1>7, <3>2
      <3> QED
        BY <1>3, <3>1, <3>2
    <2> QED
      BY <2>1 DEF PointsOfLog
  <1>9. PointsInOrder
    <2>1. CASE Len(log) = 0
      <3>1. Unstable = {}
        BY <1>2, <2>1
      <3> QED
        BY <1>3, <1>7, <3>1 DEF PointsInOrder
    <2>2. CASE Len(log) # 0
      BY <1>2, <1>3, <1>7, <2>2 DEF PointsInOrder
    <2> QED
      BY <2>1, <2>2
  <1> QED
    BY <1>8, <1>9 DEF LogInv

(* The log grows at its end at most, and no new state of it is kept. *)
LEMMA KeepsLog ==
    ASSUME TypeOK, LogInv, Points' \subseteq Points, base' = base,
           log' = log \/ \E cmd \in Commands : Commit(cmd)
    PROVE  LogInv'
  <1>1. PointsInOrder'
    BY DEF LogInv, PointsInOrder
  <1>2. ASSUME log' = log PROVE PointsOfLog'
    <2>1. /\ LastIndex' = LastIndex
          /\ \A t, k : IsLastTopology(t, k)' <=> IsLastTopology(t, k)
          /\ \A k : Registered(k)' = Registered(k)
      BY <1>2 DEF LastIndex, IsLastTopology, Registered
    <2> QED
      BY <2>1 DEF LogInv, PointsOfLog
  <1>3. ASSUME NEW cmd \in Commands, Commit(cmd) PROVE PointsOfLog'
    <2>1. LastIndex' = LastIndex + 1 /\ LastIndex \in Nat /\ base.index \in Nat
      <3>1. Len(log') = Len(log) + 1 /\ base' = base
        BY <1>3, CommitType, LogTypes
      <3> QED
        BY <3>1, LogTypes DEF LastIndex
    <2> SUFFICES ASSUME NEW p \in Points
                 PROVE  /\ p.index <= LastIndex'
                        /\ p.index >= base.index =>
                              IsLastTopology(p.shard, p.index)'
                                 /\ p.grpcAddrs = Registered(p.index)'
      BY DEF PointsOfLog
    <2>2. p.index \in Nat /\ p.index <= LastIndex
      BY PointTypes DEF LogInv, PointsOfLog
    <2>3. ASSUME p.index >= base.index
          PROVE  IsLastTopology(p.shard, p.index)' /\ p.grpcAddrs = Registered(p.index)'
      <3>1. IsLastTopology(p.shard, p.index) /\ p.grpcAddrs = Registered(p.index)
        BY <2>3 DEF LogInv, PointsOfLog
      <3> QED
        BY <1>3, <2>2, <2>3, <3>1, CommitKeepsPoints
    <2> QED
      BY <2>1, <2>2, <2>3
  <1> QED
    BY <1>1, <1>2, <1>3 DEF LogInv

LEMMA UpdateLogInv ==
    ASSUME TypeOK, LogInv, NEW n \in Nodes, Update(n)
    PROVE  LogInv'
  <1>1. PICK q : q = Point(n)'
    OBVIOUS
  <1>2. PICK c \in 0 .. Len(log) :
           /\ Len(log') = Len(log) - c
           /\ \A i \in 1 .. Len(log') : log'[i] = log[i + c]
           /\ base'.index = base.index + c
           /\ c = 0 => base' = base
           /\ c > 0 => base.index + c = applied[n] + 1 /\ base' = Point(n)'
    BY UpdateLog
  <1>3. /\ q.index = applied[n] + 1 /\ q.index \in Nat
        /\ q.index > base.index /\ q.index <= LastIndex
        /\ IsLastTopology(q.shard, q.index)
        /\ q.grpcAddrs = Registered(q.index)
        /\ Points' \subseteq Points \cup {q}
    BY <1>1, UpdatePoint
  <1>4. /\ base.index \in Nat /\ Len(log) \in Nat /\ base \in Points
        /\ \A p \in Points : p.index \in Nat
    <2>1. base.index \in Nat /\ Len(log) \in Nat
      BY LogTypes
    <2>2. base \in Points
      BY DEF Points
    <2> QED
      BY <2>1, <2>2, PointTypes
  <1>5. \A p \in Points \cup {q} :
           /\ p.index \in Nat /\ p.index <= LastIndex
           /\ p.index >= base.index =>
                 IsLastTopology(p.shard, p.index) /\ p.grpcAddrs = Registered(p.index)
    BY <1>3, <1>4 DEF LogInv, PointsOfLog
  <1>6. LastIndex' = LastIndex
    BY <1>2, <1>4 DEF LastIndex
  <1>7. PICK b \in Points \cup {q} : base' = b
    BY <1>3, Zenon DEF Points
  <1>8. /\ b.index = base.index + c /\ b.index >= base.index
        /\ IsLastTopology(b.shard, b.index) /\ b.grpcAddrs = Registered(b.index)
    <2>1. b.index = base.index + c /\ b.index >= base.index
      BY <1>2, <1>4, <1>7
    <2> QED
      BY <1>5, <2>1
  <1>9. PointsOfLog'
    <2> SUFFICES ASSUME NEW p \in Points \cup {q}
                 PROVE  /\ p.index <= LastIndex'
                        /\ p.index >= b.index =>
                              IsLastTopology(p.shard, p.index)'
                                 /\ p.grpcAddrs = Registered(p.index)'
      BY <1>3, <1>7 DEF PointsOfLog
    <2>1. p.index \in Nat /\ p.index <= LastIndex
      BY <1>5
    <2>2. ASSUME p.index >= b.index
          PROVE  IsLastTopology(p.shard, p.index)' /\ p.grpcAddrs = Registered(p.index)'
      <3>1. p.index >= base.index
        BY <1>4, <1>5, <1>8, <2>1, <2>2
      <3>2. IsLastTopology(p.shard, p.index) /\ p.grpcAddrs = Registered(p.index)
        BY <1>5, <3>1
      <3>3. /\ Registered(p.index)' = Registered(p.index)
            /\ \A t : IsLastTopology(t, p.index) => IsLastTopology(t, p.index)'
        BY <1>2, <1>7, <1>8, <2>1, <2>2, CompactionKeepsPoints, Zenon
      <3> QED
        BY <3>2, <3>3
    <2> QED
      BY <1>6, <2>1, <2>2
  <1>10. PointsInOrder'
    <2>1. \A p \in Points : p.index >= base.index /\ p.index <= q.index
             => p.grpcAddrs \subseteq q.grpcAddrs
      BY <1>3, <1>5, RegisteredGrows
    <2>2. \A p \in Points : p.index >= q.index => q.grpcAddrs \subseteq p.grpcAddrs
      <3> SUFFICES ASSUME NEW p \in Points, p.index >= q.index
                   PROVE  q.grpcAddrs \subseteq p.grpcAddrs
        OBVIOUS
      <3>1. p.index \in Nat /\ p.index >= base.index
        BY <1>3, <1>4
      <3> QED
        BY <1>3, <1>5, <3>1, RegisteredGrows
    <2>3. \A p \in Points : p.index < base.index => p.grpcAddrs \subseteq q.grpcAddrs
      <3> SUFFICES ASSUME NEW p \in Points, p.index < base.index
                   PROVE  p.grpcAddrs \subseteq q.grpcAddrs
        OBVIOUS
      <3>1. p.grpcAddrs \subseteq base.grpcAddrs
        BY <1>4 DEF LogInv, PointsInOrder
      <3>2. base.grpcAddrs \subseteq q.grpcAddrs
        BY <1>3, RegisteredGrows
      <3> QED
        BY <3>1, <3>2
    <2>4. \A p \in Points : p.index <= q.index => p.grpcAddrs \subseteq q.grpcAddrs
      BY <1>3, <1>4, <2>1, <2>3
    <2>5. \A p, r \in Points \cup {q} : p.index <= r.index => p.grpcAddrs \subseteq r.grpcAddrs
      BY <1>3, <1>4, <2>2, <2>4 DEF LogInv, PointsInOrder
    <2> QED
      BY <1>3, <2>5 DEF PointsInOrder
  <1> QED
    BY <1>9, <1>10 DEF LogInv

(* A replica that recovers holds a state that was saved. *)
LEMMA RecoverPoints ==
    ASSUME TypeOK, NEW n \in Nodes, NEW from \in Nodes,
           snapshot' \in {snapshot, [snapshot EXCEPT ![n] = snapshot[from]]},
           sm' = [sm EXCEPT ![n] = Recover(snapshot[from])],
           applied' = [applied EXCEPT ![n] = snapshot[from].index],
           base' = base
    PROVE  Points' \subseteq Points /\ Point(n)' = snapshot[from]
  <1>1. /\ DOMAIN sm = Nodes /\ DOMAIN applied = Nodes /\ DOMAIN snapshot = Nodes
        /\ snapshot[from] \in Snapshots
    BY DEF TypeOK
  <1>2. Point(n)' = snapshot[from]
    BY <1>1 DEF Point, Recover, Snapshots
  <1>3. \A m \in Nodes \ {n} : Point(m)' = Point(m)
    BY <1>1 DEF Point
  <1>4. \A m \in Nodes : snapshot'[m] \in {snapshot[m], snapshot[from]}
    BY <1>1
  <1> QED
    BY <1>2, <1>3, <1>4 DEF Points

LEMMA SamePoints ==
    ASSUME UNCHANGED smVars, base' = base
    PROVE  Points' = Points
  BY DEF smVars, Points, Point

LEMMA NextLog == TypeOK /\ LogInv /\ [Next]_vars => LogInv'
  <1> SUFFICES ASSUME TypeOK, LogInv, [Next]_vars PROVE LogInv'
    OBVIOUS
  <1>1. CASE UNCHANGED <<smVars, logVars>>
    <2>1. Points' = Points
      BY <1>1, SamePoints DEF logVars
    <2> QED
      BY <1>1, <2>1, KeepsLog DEF logVars
  <1>2. ASSUME NEW cmd \in Commands, Commit(cmd), UNCHANGED smVars PROVE LogInv'
    <2>1. base' = base
      BY <1>2 DEF Commit
    <2> QED
      BY <1>2, <2>1, SamePoints, KeepsLog
  <1>3. ASSUME NEW n \in Nodes, Update(n) PROVE LogInv'
    BY <1>3, UpdateLogInv
  <1>4. ASSUME NEW n \in Nodes, NEW from \in Nodes, ReceiveSnapshot(n, from) PROVE LogInv'
    BY <1>4, RecoverPoints, KeepsLog, Zenon DEF ReceiveSnapshot, logVars
  <1>5. ASSUME NEW n \in Nodes, Restart(n) PROVE LogInv'
    BY <1>5, RecoverPoints, KeepsLog, Zenon DEF Restart, logVars
  <1>6. ASSUME NEW g \in Goroutines, PublishStep(g) PROVE LogInv'
    BY <1>6, <1>1, <1>2, CommandTypes
       DEF PublishStep, ReadLeaderAndAddrs, Propose, ProposeFails
  <1>7. ASSUME NEW cmd \in late, CommitLate(cmd) PROVE LogInv'
    <2>1. cmd \in Commands
      BY DEF TypeOK
    <2> QED
      BY <1>7, <1>2, <2>1 DEF CommitLate
  <1>8. ASSUME NEW n \in Nodes, RegisterNodeAddr(n) PROVE LogInv'
    BY <1>8, <1>2, CommandTypes DEF RegisterNodeAddr
  <1>9. ASSUME NEW n \in Nodes,
               \/ Elect(n) \/ LoseLeader(n) \/ LearnLeader(n) \/ LearnMembership(n)
               \/ ListenerCall(n) \/ RegisterNodeAddrFails(n) \/ RegisterShard(n)
        PROVE  LogInv'
    BY <1>9, <1>1 DEF Elect, LoseLeader, LearnLeader, LearnMembership,
          ListenerCall, RegisterNodeAddrFails, RegisterShard
  <1>10. CASE ChangeMembership
    BY <1>10, <1>1 DEF ChangeMembership
  <1>11. CASE UNCHANGED vars
    BY <1>11, <1>1 DEF vars
  <1> QED
    BY <1>3, <1>4, <1>5, <1>6, <1>7, <1>8, <1>9, <1>10, <1>11 DEF Next

-----------------------------------------------------------------------------
(* A node that starts advertises itself. *)

LEMMA InitStart == Init => StartInv
  <1> SUFFICES ASSUME Init PROVE StartInv
    OBVIOUS
  <1>1. \A n \in Nodes : start[n].step = "done"
    BY DEF Init, Started
  <1>2. \A n \in Nodes : publish[<<n, "start">>].step = "idle"
    BY DEF Init, Goroutines, Idle
  <1>3. \A i \in 1 .. Len(log) : log[i].type = "register"
    BY InitCommands
  <1>4. RegistrationKept
    BY <1>1 DEF RegistrationKept
  <1>5. SelfKnown
    BY <1>2 DEF SelfKnown
  <1>6. SelfCommitted
    BY <1>3 DEF SelfCommitted, SelfOK, Init
  <1> QED
    BY <1>4, <1>5, <1>6 DEF StartInv

LEMMA CommandsSelfOK ==
    ASSUME TypeOK, SelfKnown
    PROVE  /\ \A n \in Nodes : SelfOK(RegisterNodeAddrCmd(n))
           /\ \A g \in Goroutines : publish[g].step = "propose" => SelfOK(UpdateTopologyCmd(g))
  <1>1. \A n \in Nodes : SelfOK(RegisterNodeAddrCmd(n))
    BY DEF SelfOK, RegisterNodeAddrCmd
  <1>2. ASSUME NEW g \in Goroutines, publish[g].step = "propose"
        PROVE  SelfOK(UpdateTopologyCmd(g))
    <2>1. CASE g[2] = "start"
      <3>1. g = <<g[1], "start">> /\ g[1] \in Nodes
        BY <2>1 DEF Goroutines
      <3>2. g[1] \in publish[g].topo.grpcAddrs
        BY <1>2, <3>1 DEF SelfKnown
      <3> QED
        BY <2>1, <3>2 DEF SelfOK, UpdateTopologyCmd
    <2>2. CASE g[2] # "start"
      BY <2>2 DEF SelfOK, UpdateTopologyCmd
    <2> QED
      BY <2>1, <2>2
  <1> QED
    BY <1>1, <1>2

LEMMA NextCommitted ==
    ASSUME TypeOK, SelfKnown, SelfCommitted, [Next]_vars
    PROVE  SelfCommitted'
  <1>1. CASE UNCHANGED log /\ late' \subseteq late
    BY <1>1 DEF SelfCommitted, SelfOK
  <1>2. ASSUME NEW cmd \in Commands, SelfOK(cmd), Commit(cmd), late' \subseteq late
        PROVE  SelfCommitted'
    <2>1. /\ Len(log') = Len(log) + 1 /\ Len(log) \in Nat
          /\ \A i \in 1 .. Len(log) : log'[i] = log[i]
          /\ log'[Len(log) + 1] = cmd
      BY <1>2, CommitType, LogTypes
    <2> QED
      BY <1>2, <2>1 DEF SelfCommitted, SelfOK
  <1>3. ASSUME NEW cmd, SelfOK(cmd), UNCHANGED log, late' \subseteq late \cup {cmd}
        PROVE  SelfCommitted'
    BY <1>3 DEF SelfCommitted, SelfOK
  <1>4. ASSUME NEW n \in Nodes, Update(n) PROVE SelfCommitted'
    <2>1. PICK c \in 0 .. Len(log) :
             /\ Len(log') = Len(log) - c
             /\ \A i \in 1 .. Len(log') : log'[i] = log[i + c]
      BY <1>4, UpdateLog
    <2>2. late' = late /\ Len(log) \in Nat
      BY <1>4 DEF Update, TypeOK
    <2>3. \A i \in 1 .. Len(log') : i + c \in 1 .. Len(log)
      BY <2>1, <2>2
    <2> QED
      BY <2>1, <2>2, <2>3 DEF SelfCommitted, SelfOK
  <1>5. ASSUME NEW g \in Goroutines, Propose(g) PROVE SelfCommitted'
    BY <1>5, <1>2, CommandTypes, CommandsSelfOK DEF Propose
  <1>6. ASSUME NEW g \in Goroutines, ProposeFails(g) PROVE SelfCommitted'
    BY <1>6, <1>3, CommandsSelfOK DEF ProposeFails, logVars
  <1>7. ASSUME NEW cmd \in late, CommitLate(cmd) PROVE SelfCommitted'
    <2>1. cmd \in Commands /\ SelfOK(cmd)
      BY DEF TypeOK, SelfCommitted
    <2> QED
      BY <1>7, <1>2, <2>1 DEF CommitLate
  <1>8. ASSUME NEW n \in Nodes, RegisterNodeAddr(n) PROVE SelfCommitted'
    BY <1>8, <1>2, CommandTypes, CommandsSelfOK DEF RegisterNodeAddr
  <1>9. ASSUME NEW n \in Nodes, RegisterNodeAddrFails(n) PROVE SelfCommitted'
    BY <1>9, <1>3, CommandsSelfOK DEF RegisterNodeAddrFails, logVars
  <1>10. ASSUME NEW n \in Nodes,
                \/ Elect(n) \/ LoseLeader(n) \/ LearnLeader(n) \/ LearnMembership(n)
                \/ ListenerCall(n) \/ RegisterShard(n) \/ Restart(n)
                \/ \E from \in Nodes : ReceiveSnapshot(n, from)
         PROVE  SelfCommitted'
    BY <1>10, <1>1 DEF Elect, LoseLeader, LearnLeader, LearnMembership, ListenerCall,
          RegisterShard, Restart, ReceiveSnapshot, logVars
  <1>11. CASE ChangeMembership \/ UNCHANGED vars \/ \E g \in Goroutines : ReadLeaderAndAddrs(g)
    BY <1>11, <1>1 DEF ChangeMembership, vars, ReadLeaderAndAddrs, logVars
  <1> QED
    BY <1>4, <1>5, <1>6, <1>7, <1>8, <1>9, <1>10, <1>11 DEF Next, PublishStep

LEMMA KeepsRegistration ==
    ASSUME TypeOK, RegistrationKept, Points' \subseteq Points, base' = base,
           log' = log \/ \E cmd \in Commands : Commit(cmd),
           NEW n \in Nodes, start'[n].step = "registering" => start'[n] = start[n],
           start'[n].step = "registering"
    PROVE  /\ start'[n].index \in 1 .. LastIndex'
           /\ start'[n].index > base'.index =>
                 log'[start'[n].index - base'.index] = RegisterNodeAddrCmd(n)
           /\ \A p \in Points' : p.index >= start'[n].index => n \in p.grpcAddrs
  <1>1. /\ start[n].index \in 1 .. LastIndex
        /\ start[n].index > base.index =>
              log[start[n].index - base.index] = RegisterNodeAddrCmd(n)
        /\ \A p \in Points : p.index >= start[n].index => n \in p.grpcAddrs
    BY DEF RegistrationKept
  <1>2. base.index \in Nat /\ Len(log) \in Nat
    BY LogTypes
  <1>3. Len(log') \in Nat /\ Len(log') >= Len(log) /\ \A i \in 1 .. Len(log) : log'[i] = log[i]
    BY <1>2, CommitType, LogTypes
  <1>4. LastIndex' >= LastIndex /\ LastIndex \in Nat /\ LastIndex' \in Nat
    BY <1>2, <1>3 DEF LastIndex
  <1>5. start[n].index > base.index => start[n].index - base.index \in 1 .. Len(log)
    BY <1>1, <1>2 DEF LastIndex
  <1> QED
    BY <1>1, <1>3, <1>4, <1>5

LEMMA UpdateRegistration ==
    ASSUME TypeOK, LogInv, RegistrationKept, NEW n \in Nodes, Update(n)
    PROVE  RegistrationKept'
  <1>1. PICK q : q = Point(n)'
    OBVIOUS
  <1>2. PICK c \in 0 .. Len(log) :
           /\ Len(log') = Len(log) - c
           /\ \A i \in 1 .. Len(log') : log'[i] = log[i + c]
           /\ base'.index = base.index + c
    BY UpdateLog
  <1>3. /\ q.index \in Nat /\ q.index > base.index /\ q.index <= LastIndex
        /\ q.grpcAddrs = Registered(q.index)
        /\ Points' \subseteq Points \cup {q}
    BY <1>1, UpdatePoint
  <1>4. base.index \in Nat /\ Len(log) \in Nat /\ start' = start
    BY LogTypes DEF Update
  <1>5. LastIndex' = LastIndex
    BY <1>2, <1>4 DEF LastIndex
  <1> SUFFICES ASSUME NEW m \in Nodes, start[m].step = "registering"
               PROVE  /\ start[m].index \in 1 .. LastIndex'
                      /\ start[m].index > base'.index =>
                            log'[start[m].index - base'.index] = RegisterNodeAddrCmd(m)
                      /\ \A p \in Points' : p.index >= start[m].index => m \in p.grpcAddrs
    BY <1>4 DEF RegistrationKept
  <1> DEFINE k == start[m].index
  <1>6. /\ k \in 1 .. LastIndex
        /\ k > base.index => log[k - base.index] = RegisterNodeAddrCmd(m)
        /\ \A p \in Points : p.index >= k => m \in p.grpcAddrs
    BY DEF RegistrationKept
  <1> HIDE DEF k
  <1>7. ASSUME k > base'.index PROVE log'[k - base'.index] = RegisterNodeAddrCmd(m)
    <2>1. k > base.index /\ k - base'.index \in 1 .. Len(log')
          /\ (k - base'.index) + c = k - base.index
      BY <1>2, <1>4, <1>6, <1>7 DEF LastIndex
    <2> QED
      BY <1>2, <1>6, <2>1
  <1>8. ASSUME q.index >= k PROVE m \in q.grpcAddrs
    <2>1. CASE k > base.index
      <3>1. k - base.index \in 1 .. (q.index - base.index)
        BY <1>3, <1>4, <1>6, <1>8, <2>1 DEF LastIndex
      <3> QED
        BY <1>3, <1>6, <2>1, <3>1 DEF Registered
    <2>2. CASE ~(k > base.index)
      <3>1. base \in Points /\ base.index >= k
        BY <1>4, <1>6, <2>2 DEF Points, LastIndex
      <3> QED
        BY <1>3, <1>6, <3>1 DEF Registered
    <2> QED
      BY <2>1, <2>2
  <1> QED
    BY <1>3, <1>5, <1>6, <1>7, <1>8 DEF k

LEMMA NextRegistration ==
    ASSUME TypeOK, LogInv, RegistrationKept, [Next]_vars
    PROVE  RegistrationKept'
  <1> DEFINE Kept(n) == start'[n].step = "registering" => start'[n] = start[n]
  <1>1. ASSUME Points' \subseteq Points, base' = base,
               log' = log \/ \E cmd \in Commands : Commit(cmd),
               \A n \in Nodes : Kept(n)
        PROVE  RegistrationKept'
    BY <1>1, KeepsRegistration DEF RegistrationKept
  <1>2. ASSUME UNCHANGED <<smVars, base>>, log' = log \/ \E cmd \in Commands : Commit(cmd),
               \A n \in Nodes : Kept(n)
        PROVE  RegistrationKept'
    BY <1>1, <1>2, SamePoints
  <1>3. ASSUME NEW n \in Nodes, Update(n) PROVE RegistrationKept'
    BY <1>3, UpdateRegistration
  <1>4. ASSUME NEW n \in Nodes, NEW from \in Nodes, ReceiveSnapshot(n, from)
        PROVE  RegistrationKept'
    BY <1>1, <1>4, RecoverPoints, Zenon DEF ReceiveSnapshot, logVars
  <1>5. ASSUME NEW n \in Nodes, Restart(n) PROVE RegistrationKept'
    <2>1. \A m \in Nodes : Kept(m)
      BY <1>5 DEF Restart, Starting, TypeOK
    <2> HIDE DEF Kept
    <2> QED
      BY <1>1, <1>5, <2>1, RecoverPoints, Zenon DEF Restart, logVars
  <1>6. ASSUME NEW n \in Nodes, RegisterNodeAddr(n) PROVE RegistrationKept'
    <2>1. /\ Commit(RegisterNodeAddrCmd(n)) /\ UNCHANGED smVars
          /\ RegisterNodeAddrCmd(n) \in Commands
          /\ start' = [start EXCEPT ![n] = [step |-> "registering", index |-> LastIndex + 1]]
      BY <1>6, CommandTypes DEF RegisterNodeAddr
    <2>2. base' = base /\ Points' = Points
      BY <2>1, SamePoints DEF Commit
    <2>3. /\ Len(log') = Len(log) + 1 /\ Len(log) \in Nat /\ base.index \in Nat
          /\ log'[Len(log) + 1] = RegisterNodeAddrCmd(n)
      BY <2>1, CommitType, LogTypes
    <2>4. /\ \A m \in Nodes \ {n} : start'[m] = start[m]
          /\ start'[n].index = LastIndex + 1
      BY <2>1 DEF TypeOK
    <2>5. /\ start'[n].index \in 1 .. LastIndex'
          /\ log'[start'[n].index - base'.index] = RegisterNodeAddrCmd(n)
      <3>1. LastIndex \in Nat /\ LastIndex' = LastIndex + 1
            /\ (LastIndex + 1) - base.index = Len(log) + 1
        BY <2>2, <2>3 DEF LastIndex
      <3> QED
        BY <2>2, <2>3, <2>4, <3>1
    <2>6. \A p \in Points' : ~(p.index >= start'[n].index)
      <3>1. \A p \in Points : p.index \in Nat /\ p.index <= LastIndex
        BY PointTypes DEF LogInv, PointsOfLog
      <3>2. LastIndex \in Nat
        BY <2>3 DEF LastIndex
      <3> QED
        BY <2>2, <2>4, <3>1, <3>2
    <2>7. \A m \in Nodes \ {n} : start'[m].step = "registering" =>
             /\ start'[m].index \in 1 .. LastIndex'
             /\ start'[m].index > base'.index =>
                   log'[start'[m].index - base'.index] = RegisterNodeAddrCmd(m)
             /\ \A p \in Points' : p.index >= start'[m].index => m \in p.grpcAddrs
      BY <2>1, <2>2, <2>4, KeepsRegistration
    <2> QED
      BY <2>5, <2>6, <2>7 DEF RegistrationKept
  <1>7. ASSUME NEW g \in Goroutines, PublishStep(g) PROVE RegistrationKept'
    BY <1>7, <1>2, CommandTypes
       DEF PublishStep, ReadLeaderAndAddrs, Propose, ProposeFails, Commit, logVars
  <1>8. ASSUME NEW cmd \in late, CommitLate(cmd) PROVE RegistrationKept'
    <2>1. cmd \in Commands
      BY DEF TypeOK
    <2> QED
      BY <1>8, <1>2, <2>1 DEF CommitLate, Commit
  <1>9. ASSUME NEW n \in Nodes, RegisterShard(n) PROVE RegistrationKept'
    <2>1. \A m \in Nodes : Kept(m)
      BY <1>9 DEF RegisterShard, Started, TypeOK
    <2> HIDE DEF Kept
    <2> QED
      BY <1>2, <1>9, <2>1 DEF RegisterShard, logVars
  <1>10. ASSUME NEW n \in Nodes,
                \/ Elect(n) \/ LoseLeader(n) \/ LearnLeader(n) \/ LearnMembership(n)
                \/ ListenerCall(n) \/ RegisterNodeAddrFails(n)
         PROVE  RegistrationKept'
    BY <1>10, <1>2 DEF Elect, LoseLeader, LearnLeader, LearnMembership, ListenerCall,
          RegisterNodeAddrFails, logVars
  <1>11. CASE ChangeMembership \/ UNCHANGED vars
    BY <1>11, <1>2 DEF ChangeMembership, vars, logVars
  <1> QED
    BY <1>3, <1>4, <1>5, <1>6, <1>7, <1>8, <1>9, <1>10, <1>11 DEF Next

LEMMA UpdateKeepsAddrs ==
    ASSUME TypeOK, NEW n \in Nodes, Update(n)
    PROVE  \A m \in Nodes : sm[m].grpcAddrs \subseteq sm'[m].grpcAddrs
  <1> DEFINE cmd == log[applied[n] - base.index + 1]
  <1>1. cmd \in Commands
    BY UpdateType
  <1>2. /\ DOMAIN sm = Nodes
        /\ sm[n] \in [shard : Topologies, epoch : Nat, grpcAddrs : SUBSET Nodes]
    BY DEF TypeOK
  <1>3. sm' = [sm EXCEPT ![n] = Apply(sm[n], cmd)]
    BY DEF Update
  <1> HIDE DEF cmd
  <1>4. sm[n].grpcAddrs \subseteq Apply(sm[n], cmd).grpcAddrs
    <2>1. cmd.type \in {"register", "topology"}
      BY <1>1 DEF Commands
    <2> QED
      BY <1>2, <2>1 DEF Apply
  <1> QED
    BY <1>2, <1>3, <1>4

LEMMA NextSelf ==
    ASSUME TypeOK, LogInv, RegistrationKept, SelfKnown, [Next]_vars
    PROVE  SelfKnown'
  <1> DEFINE start_(n) == <<n, "start">>
             Self(n) == /\ publish[start_(n)].step = "read" => n \in sm[n].grpcAddrs
                        /\ publish[start_(n)].step = "propose" =>
                              n \in publish[start_(n)].topo.grpcAddrs
  <1>t. /\ DOMAIN publish = Goroutines /\ DOMAIN sm = Nodes
        /\ \A n \in Nodes : start_(n) \in Goroutines /\ <<n, "listener">> \in Goroutines
        /\ \A n, m \in Nodes : start_(n) # <<m, "listener">>
        /\ \A n, m \in Nodes : n # m => start_(n) # start_(m)
        /\ \A g \in Goroutines : g[1] \in Nodes
        /\ \A g \in Goroutines, n \in Nodes : g = start_(n) => g[1] = n
    BY DEF TypeOK, Goroutines
  <1>u. \A n \in Nodes : Self(n)
    BY DEF SelfKnown
  <1> HIDE DEF start_
  <1> SUFFICES ASSUME NEW m \in Nodes PROVE Self(m)'
    BY DEF SelfKnown, start_
  <1>1. ASSUME publish'[start_(m)] = publish[start_(m)],
               sm[m].grpcAddrs \subseteq sm'[m].grpcAddrs
        PROVE  Self(m)'
    BY <1>1, <1>u
  <1>2. ASSUME publish'[start_(m)].step = "idle" PROVE Self(m)'
    BY <1>2
  <1>3. ASSUME NEW n \in Nodes, Update(n) PROVE Self(m)'
    BY <1>1, <1>3, UpdateKeepsAddrs, Zenon DEF Update
  <1>4. ASSUME NEW n \in Nodes, NEW from \in Nodes, ReceiveSnapshot(n, from) PROVE Self(m)'
    <2>1. Point(n).grpcAddrs \subseteq snapshot[from].grpcAddrs
      <3>1. Point(n) \in Points /\ snapshot[from] \in Points
        BY DEF Points
      <3>2. Point(n).index \in Nat /\ snapshot[from].index \in Nat
        BY <3>1, PointTypes
      <3>3. Point(n).index <= snapshot[from].index
        BY <1>4, <3>2 DEF ReceiveSnapshot, Point
      <3> QED
        BY <3>1, <3>3 DEF LogInv, PointsInOrder
    <2>2. sm[n].grpcAddrs \subseteq sm'[n].grpcAddrs /\ publish' = publish
      BY <1>4, <1>t, <2>1 DEF ReceiveSnapshot, Point, Recover
    <2>3. m # n => sm'[m] = sm[m]
      BY <1>4, <1>t DEF ReceiveSnapshot
    <2> HIDE DEF Self
    <2> QED
      BY <1>1, <2>2, <2>3
  <1>5. ASSUME NEW n \in Nodes, Restart(n) PROVE Self(m)'
    <2>1. publish' = [publish EXCEPT ![<<n, "listener">>] = Idle, ![<<n, "start">>] = Idle]
      BY <1>5 DEF Restart
    <2>2. CASE m = n
      <3>1. publish'[start_(m)] = Idle
        BY <1>t, <2>1, <2>2 DEF start_
      <3> QED
        BY <1>2, <3>1 DEF Idle
    <2>3. CASE m # n
      <3>1. publish'[start_(m)] = publish[start_(m)] /\ sm'[m] = sm[m]
        BY <1>5, <1>t, <2>1, <2>3, Zenon DEF start_, Restart
      <3> HIDE DEF Self
      <3> QED
        BY <1>1, <3>1
    <2> QED
      BY <2>2, <2>3
  <1>6. ASSUME NEW n \in Nodes, RegisterShard(n) PROVE Self(m)'
    <2>1. /\ sm' = sm /\ ReadMembership(start_(n))
          /\ start[n].step = "registering" /\ applied[n] >= start[n].index
      BY <1>6 DEF RegisterShard, smVars, start_
    <2>2. n \in sm[n].grpcAddrs
      <3>1. Point(n) \in Points /\ Point(n).index >= start[n].index
        BY <2>1 DEF Points, Point
      <3> QED
        BY <2>1, <3>1 DEF RegistrationKept, Point
    <2>3. CASE m = n
      <3>1. publish'[start_(n)].step = "propose" => publish'[start_(n)] = publish[start_(n)]
        BY <1>t, <2>1, ReadMembershipType, Zenon
      <3> QED
        BY <1>u, <2>1, <2>2, <2>3, <3>1
    <2>4. CASE m # n
      <3>1. publish'[start_(m)] = publish[start_(m)]
        <4>1. start_(m) \in Goroutines \ {start_(n)} /\ start_(n) \in Goroutines
          BY <1>t, <2>4, Zenon
        <4>2. \A h \in Goroutines \ {start_(n)} : publish'[h] = publish[h]
          BY <2>1, <4>1, ReadMembershipType, Zenon
        <4> QED
          BY <4>1, <4>2
      <3> HIDE DEF Self
      <3> QED
        BY <1>1, <2>1, <3>1
    <2> QED
      BY <2>3, <2>4
  <1>7. ASSUME NEW g \in Goroutines, ReadLeaderAndAddrs(g) PROVE Self(m)'
    <2>1. /\ publish' = [publish EXCEPT ![g] = [step |-> "propose", topo |-> BuildTopology(g)]]
          /\ publish[g].step = "read" /\ sm' = sm
      BY <1>7 DEF ReadLeaderAndAddrs, smVars
    <2>2. CASE g = start_(m)
      <3>1. g[1] = m /\ m \in sm[m].grpcAddrs
        BY <1>t, <1>u, <2>1, <2>2
      <3>2. publish'[g].step = "propose" /\ publish'[g].topo = BuildTopology(g)
        BY <1>t, <2>1
      <3>3. BuildTopology(g).grpcAddrs = sm[m].grpcAddrs
        <4>1. publish[g].topo \in Topologies
          BY DEF TypeOK
        <4> QED
          BY <3>1, <4>1 DEF BuildTopology, Topologies
      <3> QED
        BY <2>2, <3>1, <3>2, <3>3
    <2>3. CASE g # start_(m)
      <3>1. publish'[start_(m)] = publish[start_(m)]
        BY <1>t, <2>1, <2>3
      <3> HIDE DEF Self
      <3> QED
        BY <1>1, <2>1, <3>1
    <2> QED
      BY <2>2, <2>3
  <1>8. ASSUME NEW g \in Goroutines, Propose(g) \/ ProposeFails(g) PROVE Self(m)'
    <2>1. publish' = [publish EXCEPT ![g] = Idle] /\ sm' = sm
      BY <1>8 DEF Propose, ProposeFails, EndPublish, smVars
    <2>2. CASE g = start_(m)
      BY <1>2, <1>t, <2>1, <2>2 DEF Idle
    <2>3. CASE g # start_(m)
      <3>1. publish'[start_(m)] = publish[start_(m)]
        BY <1>t, <2>1, <2>3
      <3> HIDE DEF Self
      <3> QED
        BY <1>1, <2>1, <3>1
    <2> QED
      BY <2>2, <2>3
  <1>9. ASSUME NEW n \in Nodes, ListenerCall(n) PROVE Self(m)'
    <2>1. sm' = sm /\ ReadMembership(<<n, "listener">>)
      BY <1>9 DEF ListenerCall, smVars
    <2>2. publish'[start_(m)] = publish[start_(m)]
      <3>1. start_(m) \in Goroutines \ {<<n, "listener">>} /\ <<n, "listener">> \in Goroutines
        BY <1>t, Zenon
      <3>2. \A h \in Goroutines \ {<<n, "listener">>} : publish'[h] = publish[h]
        BY <2>1, <3>1, ReadMembershipType, Zenon
      <3> QED
        BY <3>1, <3>2
    <2> HIDE DEF Self
    <2> QED
      BY <1>1, <2>1, <2>2
  <1>10. CASE UNCHANGED <<publish, sm>>
    <2> HIDE DEF Self
    <2> QED
      BY <1>1, <1>10
  <1>11. \/ UNCHANGED <<publish, sm>>
         \/ \E n \in Nodes : Update(n) \/ Restart(n) \/ RegisterShard(n) \/ ListenerCall(n)
         \/ \E n, from \in Nodes : ReceiveSnapshot(n, from)
         \/ \E g \in Goroutines : ReadLeaderAndAddrs(g) \/ Propose(g) \/ ProposeFails(g)
    BY Zenon DEF Next, vars, smVars, PublishStep, Elect, ChangeMembership, LoseLeader,
           LearnLeader, LearnMembership, CommitLate, RegisterNodeAddr, RegisterNodeAddrFails
  <1> HIDE DEF Self
  <1> QED
    BY <1>3, <1>4, <1>5, <1>6, <1>7, <1>8, <1>9, <1>10, <1>11
-----------------------------------------------------------------------------
(* Inv is an inductive invariant of the metadata group: what               *)
(* MetadataStateMachine, publishTopology and StartRaft do keeps it.        *)
THEOREM InvCorrect == Spec => []Inv
  <1>1. Init => Inv
    BY InitType, InitLog, InitStart, InitLeaders DEF Inv
  <1>2. Inv /\ [Next]_vars => Inv'
    <2> SUFFICES ASSUME Inv, [Next]_vars PROVE Inv'
      OBVIOUS
    <2>1. /\ TypeOK /\ LogInv /\ LeadersElected
          /\ RegistrationKept /\ SelfKnown /\ SelfCommitted
      BY DEF Inv, StartInv
    <2>2. TypeOK' /\ LogInv' /\ LeadersElected'
      BY <2>1, NextType, NextLog, NextLeaders
    <2>3. RegistrationKept' /\ SelfKnown' /\ SelfCommitted'
      BY <2>1, NextRegistration, NextSelf, NextCommitted
    <2> QED
      BY <2>2, <2>3 DEF Inv, StartInv
  <1> QED
    BY <1>1, <1>2, PTL DEF Spec

(* Whatever snapshots were taken, sent and recovered, every replica of     *)
(* MetadataStateMachine holds the last topology and all the addresses of   *)
(* the commands it has applied.                                            *)
THEOREM ReplicasFollowLog == Spec => []StateIsOfLog
  <1>1. Inv => StateIsOfLog
    <2> SUFFICES ASSUME Inv, NEW n \in Nodes, applied[n] >= base.index
                 PROVE  /\ applied[n] <= LastIndex
                        /\ IsLastTopology(sm[n].shard, applied[n])
                        /\ sm[n].grpcAddrs = Registered(applied[n])
      BY DEF StateIsOfLog
    <2>1. Point(n) \in Points
      BY DEF Points
    <2> QED
      BY <2>1 DEF Inv, LogInv, PointsOfLog, Point
  <1> QED
    BY <1>1, InvCorrect, PTL

(* No two topologies that publishTopology gets committed name different    *)
(* leaders for one term.                                                   *)
THEOREM LeadersAgree == Spec => []OneLeaderPerTerm
  <1>1. Inv => OneLeaderPerTerm
    BY DEF Inv, LeadersElected, LeaderOK, OneLeaderPerTerm
  <1> QED
    BY <1>1, InvCorrect, PTL

(* The topology that StartRaft publishes through RegisterShard lists the   *)
(* node under the address it has registered before.                        *)
THEOREM StartedIsAdvertised == Spec => []StartAdvertisesSelf
  <1>1. Inv => StartAdvertisesSelf
    BY DEF Inv, StartInv, SelfCommitted, SelfOK, StartAdvertisesSelf
  <1> QED
    BY <1>1, InvCorrect, PTL
=============================================================================
