----------------------------- MODULE Membership -----------------------------
(***************************************************************************)
(* How nodes enter and leave a FutureQ cluster: the join flow of the start *)
(* command (cmd/futureq/start.go), which asks one seed after another; the  *)
(* handlers JoinCluster, LeaveCluster, JoinMetadata and LeaveMetadata      *)
(* (handlers/cluster.go), which change the membership of the metadata      *)
(* group and of the event shard one request at a time; and StartRaft,      *)
(* which the new node calls once a seed has said yes.                      *)
(*                                                                         *)
(* Dragonboat is taken by what it does: a membership change needs a        *)
(* majority of running voters; a node that was removed is never added      *)
(* again, a voter is not added again, the last voter is not removed; a     *)
(* request that times out may have been applied, or be applied later.  A   *)
(* repeated AddNonVoting is either rejected or has no effect.              *)
(*                                                                         *)
(* The handlers take any node ID.  A client that only watches the metadata *)
(* group is a joiner that is not started.                                  *)
(***************************************************************************)
EXTENDS Integers, FiniteSets

CONSTANTS
    Founders,      \* Raft.InitialMembers
    Joiners,       \* nodes started with --join
    Seeds,         \* number of seed addresses of a joiner
    MaxStarts,     \* bound: process starts of a joiner
    MaxRequests,   \* bound: LeaveCluster, LeaveMetadata, JoinMetadata requests
    MaxFaults      \* bound: crashes and requests that time out

Groups == {"meta", "event"}
Nodes == Founders \cup Joiners

ASSUME MembershipAssumption ==
    /\ IsFiniteSet(Founders) /\ IsFiniteSet(Joiners)
    /\ Founders \cap Joiners = {}
    /\ Seeds \in Nat \ {0} /\ MaxStarts \in Nat
    /\ MaxRequests \in Nat /\ MaxFaults \in Nat

VARIABLES
    voters, nonVotings, removed,  \* group -> members in that role
    running,   \* nodes whose replicas run
    raftData,  \* nodes with a Raft log on disk (hasRaftData)
    join,      \* joiner -> where its join flow, or the seed serving it, is
    seed,      \* joiner -> the seed it is asking
    starts,    \* joiner -> starts of its process
    leave,     \* node -> where LeaveCluster for it is
    late,      \* changes whose callers gave up, not yet applied
    watched,   \* history: nodes that JoinMetadata was carried out for
    dropped,   \* history: nodes that LeaveMetadata was carried out for
    leaves, faults

groupVars == <<voters, nonVotings, removed>>
nodeVars == <<running, raftData, join, seed, starts>>
metaVars == <<watched, dropped>>
vars == <<groupVars, nodeVars, leave, late, metaVars, leaves, faults>>

Change(g, type, n) == [group |-> g, type |-> type, node |-> n]

Init ==
    /\ voters = [g \in Groups |-> Founders]
    /\ nonVotings = [g \in Groups |-> {}]
    /\ removed = [g \in Groups |-> {}]
    /\ running = Founders
    /\ raftData = Founders
    /\ join = [n \in Joiners |-> "down"]
    /\ seed = [n \in Joiners |-> 1]
    /\ starts = [n \in Joiners |-> 0]
    /\ leave = [n \in Nodes |-> "no"]
    /\ late = {}
    /\ watched = {} /\ dropped = {}
    /\ leaves = 0 /\ faults = 0
-----------------------------------------------------------------------------
(* Membership changes in Dragonboat. *)
HasQuorum(g) == 2 * Cardinality(voters[g] \cap running) > Cardinality(voters[g])

Accepts(c) ==
    CASE c.type = "nonVoting" -> c.node \notin removed[c.group] \cup voters[c.group]
      [] c.type = "voter" -> c.node \notin removed[c.group] \cup voters[c.group]
      [] c.type = "remove" -> voters[c.group] # {c.node}

MayReject(c) ==
    ~ Accepts(c) \/ (c.type = "nonVoting" /\ c.node \in nonVotings[c.group])

Apply(c) ==
    /\ HasQuorum(c.group) /\ Accepts(c)
    /\ voters' = [voters EXCEPT ![c.group] =
          IF c.type = "voter" THEN @ \cup {c.node} ELSE @ \ {c.node}]
    /\ nonVotings' = [nonVotings EXCEPT ![c.group] =
          IF c.type = "nonVoting" THEN @ \cup {c.node} ELSE @ \ {c.node}]
    /\ removed' = [removed EXCEPT ![c.group] =
          IF c.type = "remove" THEN @ \cup {c.node} ELSE @]

Reject(c) ==
    /\ HasQuorum(c.group) /\ MayReject(c)
    /\ UNCHANGED groupVars

(* The caller gets an error; the change is lost, or comes later. *)
TimeOut(c) ==
    /\ faults < MaxFaults
    /\ faults' = faults + 1
    /\ late' \in {late, late \cup {c}}
    /\ UNCHANGED groupVars

ApplyLate(c) ==
    /\ c \in late
    /\ late' = late \ {c}
    /\ Apply(c) \/ Reject(c)
    /\ UNCHANGED <<nodeVars, leave, metaVars, leaves, faults>>
-----------------------------------------------------------------------------
(* A faulty variant: the event shard is the first to promote the node. *)
JoinChangeEventFirst(n) ==
    CASE join[n] = "addMeta" -> Change("meta", "nonVoting", n)
      [] join[n] = "addEvent" -> Change("event", "nonVoting", n)
      [] join[n] = "promoteMeta" -> Change("event", "voter", n)
      [] join[n] = "promoteEvent" -> Change("meta", "voter", n)

(* JoinCluster: the change each step asks for, and the step after it. *)
JoinChange(n) ==
    CASE join[n] = "addMeta" -> Change("meta", "nonVoting", n)
      [] join[n] = "addEvent" -> Change("event", "nonVoting", n)
      [] join[n] = "promoteMeta" -> Change("meta", "voter", n)
      [] join[n] = "promoteEvent" -> Change("event", "voter", n)

(* A faulty variant: the handler says yes after the first promotion. *)
AfterJoinChangeEarly(n) ==
    CASE join[n] = "addMeta" -> "addEvent"
      [] join[n] = "addEvent" -> "waitEvent"
      [] join[n] = "promoteMeta" -> "joined"
      [] join[n] = "promoteEvent" -> "joined"

AfterJoinChange(n) ==
    CASE join[n] = "addMeta" -> "addEvent"
      [] join[n] = "addEvent" -> "waitEvent"
      [] join[n] = "promoteMeta" -> "promoteEvent"
      [] join[n] = "promoteEvent" -> "joined"

Changing(n) == join[n] \in {"addMeta", "addEvent", "promoteMeta", "promoteEvent"}

Waiting(n) == join[n] \in {"waitEvent", "waitMeta"}

(* joinCluster goes on to the next seed; after the last one it is fatal. *)
NextSeed(n) ==
    IF seed[n] < Seeds
    THEN /\ join' = [join EXCEPT ![n] = "addMeta"]
         /\ seed' = [seed EXCEPT ![n] = @ + 1]
    ELSE /\ join' = [join EXCEPT ![n] = "down"]
         /\ UNCHANGED seed

JoinChangeDone(n) ==
    /\ Changing(n)
    /\ Apply(JoinChange(n))
    /\ join' = [join EXCEPT ![n] = AfterJoinChange(n)]
    /\ UNCHANGED <<running, raftData, seed, starts, leave, late, metaVars,
                   leaves, faults>>

JoinChangeRejected(n) ==
    /\ Changing(n)
    /\ Reject(JoinChange(n))
    /\ NextSeed(n)
    /\ UNCHANGED <<running, raftData, starts, leave, late, metaVars, leaves,
                   faults>>

JoinChangeTimesOut(n) ==
    /\ Changing(n)
    /\ TimeOut(JoinChange(n))
    /\ NextSeed(n)
    /\ UNCHANGED <<running, raftData, starts, leave, metaVars, leaves>>

WaitGroup(n) == IF join[n] = "waitEvent" THEN "event" ELSE "meta"

(* A faulty variant: the node is looked for among the voters. *)
CaughtUpAsVoter(g, n) == n \in voters[g]

(* waitForCatchUp: the node is listed as non-voting.  Nothing asks how far *)
(* it is.                                                                  *)
CaughtUp(g, n) == n \in nonVotings[g]

WaitForCatchUp(n) ==
    /\ Waiting(n)
    /\ HasQuorum(WaitGroup(n)) /\ CaughtUp(WaitGroup(n), n)
    /\ join' = [join EXCEPT ![n] = IF @ = "waitEvent" THEN "waitMeta" ELSE "promoteMeta"]
    /\ UNCHANGED <<groupVars, running, raftData, seed, starts, leave, late, metaVars,
                   leaves, faults>>

WaitForCatchUpTimesOut(n) ==
    /\ Waiting(n)
    /\ faults < MaxFaults
    /\ faults' = faults + 1
    /\ NextSeed(n)
    /\ UNCHANGED <<groupVars, running, raftData, starts, leave, late, metaVars, leaves>>
-----------------------------------------------------------------------------
(* The process of a joiner. *)

(* startRun: a node that finds Raft data does not join again. *)
Start(n) ==
    /\ join[n] = "down"
    /\ starts[n] < MaxStarts
    /\ starts' = [starts EXCEPT ![n] = @ + 1]
    /\ IF n \in raftData
       THEN /\ running' = running \cup {n}
            /\ join' = [join EXCEPT ![n] = "running"]
            /\ UNCHANGED seed
       ELSE /\ join' = [join EXCEPT ![n] = "addMeta"]
            /\ seed' = [seed EXCEPT ![n] = 1]
            /\ UNCHANGED running
    /\ UNCHANGED <<groupVars, raftData, leave, late, metaVars, leaves, faults>>

(* StartRaft with join = true. *)
StartRaft(n) ==
    /\ join[n] = "joined"
    /\ join' = [join EXCEPT ![n] = "running"]
    /\ running' = running \cup {n}
    /\ raftData' = raftData \cup {n}
    /\ UNCHANGED <<groupVars, seed, starts, leave, late, metaVars,
                   leaves, faults>>

(* A process dies; with a joiner, what the seed is doing for it. *)
Crash(n) ==
    /\ faults < MaxFaults
    /\ \/ n \in running
       \/ n \in Joiners /\ join[n] # "down"
    /\ faults' = faults + 1
    /\ running' = running \ {n}
    /\ join' = IF n \in Joiners THEN [join EXCEPT ![n] = "down"] ELSE join
    /\ UNCHANGED <<groupVars, raftData, seed, starts, leave, late, metaVars, leaves>>

RestartFounder(n) ==
    /\ n \in Founders \ running
    /\ running' = running \cup {n}
    /\ UNCHANGED <<groupVars, raftData, join, seed, starts, leave, late, metaVars,
                   leaves, faults>>
-----------------------------------------------------------------------------
MayRequest == leaves + Cardinality(watched) < MaxRequests

(* LeaveCluster: the event shard first, then the metadata group. *)
LeaveCluster(n) ==
    /\ leave[n] = "no"
    /\ MayRequest
    /\ leaves' = leaves + 1
    /\ leave' = [leave EXCEPT ![n] = "event"]
    /\ UNCHANGED <<groupVars, nodeVars, late, metaVars, faults>>

(* A faulty variant: the metadata group is forgotten. *)
LeaveDoneEventOnly(n) ==
    /\ leave[n] \in Groups
    /\ Apply(Change(leave[n], "remove", n))
    /\ leave' = [leave EXCEPT ![n] = "left"]
    /\ UNCHANGED <<nodeVars, late, metaVars, leaves, faults>>

LeaveDone(n) ==
    /\ leave[n] \in Groups
    /\ Apply(Change(leave[n], "remove", n))
    /\ leave' = [leave EXCEPT ![n] = IF @ = "event" THEN "meta" ELSE "left"]
    /\ UNCHANGED <<nodeVars, late, metaVars, leaves, faults>>

LeaveFails(n) ==
    /\ leave[n] \in Groups
    /\ LET c == Change(leave[n], "remove", n)
       IN  \/ Reject(c) /\ UNCHANGED <<late, faults>>
           \/ TimeOut(c)
    /\ leave' = [leave EXCEPT ![n] = "no"]
    /\ UNCHANGED <<nodeVars, metaVars, leaves>>

(* A request that is one change: carried out, or timed out.  One that is   *)
(* rejected changes nothing.                                               *)
Single(c) ==
    \/ Apply(c) /\ UNCHANGED <<late, faults>>
    \/ TimeOut(c)

(* JoinMetadata: any node becomes a non-voting member. *)
JoinMetadata(n) ==
    /\ MayRequest
    /\ n \notin watched
    /\ Single(Change("meta", "nonVoting", n))
    /\ watched' = watched \cup {n}
    /\ UNCHANGED <<nodeVars, leave, dropped, leaves>>

(* LeaveMetadata: any node is removed, be it a voter. *)
LeaveMetadata(n) ==
    /\ MayRequest
    /\ leaves' = leaves + 1
    /\ Single(Change("meta", "remove", n))
    /\ dropped' = dropped \cup {n}
    /\ UNCHANGED <<nodeVars, leave, watched>>
-----------------------------------------------------------------------------
Next ==
    \/ \E c \in late : ApplyLate(c)
    \/ \E n \in Joiners :
          \/ Start(n)
          \/ JoinChangeDone(n)
          \/ JoinChangeRejected(n)
          \/ JoinChangeTimesOut(n)
          \/ WaitForCatchUp(n)
          \/ WaitForCatchUpTimesOut(n)
          \/ StartRaft(n)
    \/ \E n \in Founders : RestartFounder(n)
    \/ \E n \in Nodes :
          \/ Crash(n)
          \/ LeaveCluster(n)
          \/ LeaveDone(n)
          \/ LeaveFails(n)
          \/ JoinMetadata(n)
          \/ LeaveMetadata(n)

Spec == Init /\ [][Next]_vars

(* Requests that can be answered are, and a node that may start does.      *)
(* Nothing has to time out.                                                *)
Fairness ==
    \A n \in Joiners :
        /\ WF_vars(JoinChangeDone(n) \/ JoinChangeRejected(n))
        /\ WF_vars(WaitForCatchUp(n))
        /\ WF_vars(StartRaft(n))

FairSpec == Spec /\ Fairness
-----------------------------------------------------------------------------
JoinSteps == {"down", "addMeta", "addEvent", "waitEvent", "waitMeta",
              "promoteMeta", "promoteEvent", "joined", "running"}

(* The variables have the types of what they stand for. *)
TypeOK ==
    /\ voters \in [Groups -> SUBSET Nodes]
    /\ nonVotings \in [Groups -> SUBSET Nodes]
    /\ removed \in [Groups -> SUBSET Nodes]
    /\ running \subseteq Nodes
    /\ raftData \subseteq Nodes
    /\ join \in [Joiners -> JoinSteps]
    /\ seed \in [Joiners -> 1 .. Seeds]
    /\ starts \in [Joiners -> Nat]
    /\ leave \in [Nodes -> Groups \cup {"no", "left"}]
    /\ late \subseteq [group : Groups, type : {"nonVoting", "voter", "remove"}, node : Nodes]
    /\ watched \subseteq Nodes /\ dropped \subseteq Nodes
    /\ leaves \in Nat /\ faults \in Nat

(* JoinCluster promotes a node in the metadata group before the event      *)
(* shard, and LeaveCluster removes it from the event shard before the      *)
(* metadata group.  Whatever fails in between, is retried, or is applied   *)
(* late, a voter of the event shard is a voter of the metadata group, and  *)
(* can publish the topology and its own address there, unless somebody has *)
(* taken it out with LeaveMetadata ("from the metadata group only").       *)
EventVotersAreInMetadata == voters["event"] \ dropped \subseteq voters["meta"]

(* A joiner that was told yes is a voter of both groups from then on,      *)
(* through crashes and retries, until somebody removes it.                 *)
JoinedIsVoter ==
    \A n \in Joiners : join[n] = "joined" \/ n \in raftData =>
        \A g \in Groups : n \in voters[g] \cup removed[g]

(* A node whose LeaveCluster succeeded is in neither group, and stays out  *)
(* of both, even when a JoinCluster for it was under way or one of its     *)
(* changes was delayed: its Raft data can be deleted, as the leave command *)
(* says.                                                                   *)
LeftStaysOut ==
    \A n \in Nodes : leave[n] = "left" =>
        \A g \in Groups : n \notin voters[g] \cup nonVotings[g]

(* Joins of several nodes at once, each of which adds voters that do not   *)
(* run yet, do not block each other: unless a node crashes or is removed   *)
(* or a request times out, every joiner that was started ends up running.  *)
(* One that JoinMetadata made a non-voting member may be refused.          *)
JoinersStart ==
    \A n \in Joiners :
        starts[n] > 0 ~>
           (join[n] = "running" \/ faults > 0 \/ leaves > 0 \/ n \in watched)
=============================================================================
