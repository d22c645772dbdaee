-------------------------- MODULE MembershipProofs --------------------------
(***************************************************************************)
(* That the order in which the cluster handlers change the two groups      *)
(* keeps them consistent, for any founders, joiners, seeds and bounds:     *)
(* proofs of the safety properties of module Membership.                   *)
(***************************************************************************)
EXTENDS Membership, TLAPS

Requests == [group : Groups, type : {"nonVoting", "voter", "remove"}, node : Nodes]

Member(g, n) == n \in voters[g] \cup removed[g]

(* What holds of a change while it is under way: a node is promoted in the *)
(* event shard after it was in the metadata group, and it is removed from  *)
(* the metadata group after it was from the event shard, or because        *)
(* LeaveMetadata was asked to (D).                                         *)
Justified(c, D) ==
    /\ c.group = "event" /\ c.type = "voter" => Member("meta", c.node)
    /\ c.group = "meta" /\ c.type = "remove" => c.node \in removed["event"] \cup D

GroupsOK ==
    /\ \A g \in Groups : (voters[g] \cup nonVotings[g]) \cap removed[g] = {}
    /\ removed["meta"] \subseteq removed["event"] \cup dropped
    /\ EventVotersAreInMetadata

ChangesJustified ==
    /\ \A c \in late : Justified(c, dropped)
    /\ \A n \in Joiners : join[n] = "promoteEvent" => Member("meta", n)
    /\ \A n \in Nodes : leave[n] = "meta" => n \in removed["event"]

LeftIsRemoved ==
    \A n \in Nodes : leave[n] = "left" => \A g \in Groups : n \in removed[g]

Inv == GroupsOK /\ ChangesJustified /\ JoinedIsVoter /\ LeftIsRemoved
-----------------------------------------------------------------------------
LEMMA JoinChangeIs ==
  ASSUME TypeOK, NEW n \in Joiners, Changing(n)
  PROVE  /\ JoinChange(n) \in Requests
         /\ JoinChange(n).node = n /\ JoinChange(n).type # "remove"
         /\ JoinChange(n).group = "event" /\ JoinChange(n).type = "voter"
               <=> join[n] = "promoteEvent"
         /\ JoinChange(n).group = "meta" /\ JoinChange(n).type = "voter"
               <=> join[n] = "promoteMeta"
  BY DEF Changing, JoinChange, Change, Requests, Groups, Nodes

LEMMA RemoveIs ==
  ASSUME NEW n \in Nodes, NEW g \in Groups
  PROVE  /\ Change(g, "remove", n) \in Requests
         /\ Change(g, "remove", n).node = n /\ Change(g, "remove", n).type = "remove"
         /\ Change(g, "remove", n).group = g
  BY DEF Change, Requests

(* The single change of JoinMetadata and LeaveMetadata. *)
LEMMA SingleIs ==
  ASSUME NEW c, Single(c)
  PROVE  UNCHANGED groupVars \/ Apply(c)
  BY DEF Single, TimeOut

(* What LeaveMetadata was asked for is remembered. *)
LEMMA DroppedGrows ==
  ASSUME TypeOK, [Next]_vars
  PROVE  /\ dropped \subseteq dropped' /\ dropped' \subseteq Nodes
         /\ watched' \subseteq Nodes
  <1>1. dropped \subseteq Nodes /\ watched \subseteq Nodes
    BY DEF TypeOK
  <1>2. ASSUME NEW n \in Nodes, JoinMetadata(n)
        PROVE  dropped' = dropped /\ watched' = watched \cup {n}
    BY <1>2 DEF JoinMetadata
  <1>3. ASSUME NEW n \in Nodes, LeaveMetadata(n)
        PROVE  dropped' = dropped \cup {n} /\ watched' = watched
    BY <1>3 DEF LeaveMetadata
  <1>4. ASSUME NEW n \in Joiners,
               \/ Start(n) \/ JoinChangeDone(n) \/ JoinChangeRejected(n)
               \/ JoinChangeTimesOut(n) \/ WaitForCatchUp(n)
               \/ WaitForCatchUpTimesOut(n) \/ StartRaft(n)
        PROVE  dropped' = dropped /\ watched' = watched
    BY <1>4 DEF Start, JoinChangeDone, JoinChangeRejected, JoinChangeTimesOut,
                WaitForCatchUp, WaitForCatchUpTimesOut, StartRaft, metaVars
  <1>5. ASSUME NEW n \in Nodes,
               \/ Crash(n) \/ RestartFounder(n) \/ LeaveCluster(n)
               \/ LeaveDone(n) \/ LeaveFails(n)
        PROVE  dropped' = dropped /\ watched' = watched
    BY <1>5 DEF Crash, RestartFounder, LeaveCluster, LeaveDone, LeaveFails, metaVars
  <1>6. ASSUME NEW c \in late, ApplyLate(c)
        PROVE  dropped' = dropped /\ watched' = watched
    BY <1>6 DEF ApplyLate, metaVars
  <1>7. CASE UNCHANGED vars
    BY <1>7, <1>1 DEF vars, metaVars
  <1>8. CASE Next
    <2>1. \/ dropped' = dropped /\ watched' = watched
          \/ \E n \in Nodes : dropped' = dropped /\ watched' = watched \cup {n}
          \/ \E n \in Nodes : dropped' = dropped \cup {n} /\ watched' = watched
      BY <1>2, <1>3, <1>4, <1>5, <1>6, <1>8, Zenon DEF Next, Nodes
    <2> QED
      BY <1>1, <2>1
  <1> QED
    BY <1>7, <1>8

(* Applying a change keeps the types, and changes one group. *)
LEMMA ApplyType ==
  ASSUME TypeOK, NEW c \in Requests, Apply(c)
  PROVE  /\ voters' \in [Groups -> SUBSET Nodes]
         /\ nonVotings' \in [Groups -> SUBSET Nodes]
         /\ removed' \in [Groups -> SUBSET Nodes]
  BY DEF Apply, TypeOK, Requests

(* Who was a member or was removed remains so; who was removed stays so.   *)
LEMMA ApplyGrows ==
  ASSUME TypeOK, NEW c \in Requests, Apply(c)
  PROVE  \A g \in Groups : /\ removed[g] \subseteq removed'[g]
                           /\ \A n : Member(g, n) => Member(g, n)'
  <1> SUFFICES ASSUME NEW g \in Groups
               PROVE  /\ removed[g] \subseteq removed'[g]
                      /\ voters[g] \cup removed[g] \subseteq voters'[g] \cup removed'[g]
    BY DEF Member
  <1>1. c.type \in {"nonVoting", "voter", "remove"} /\ c.group \in Groups
    BY DEF Requests
  <1>2. CASE g = c.group /\ c.type = "nonVoting"
    BY <1>1, <1>2 DEF Apply, Accepts, TypeOK
  <1>3. CASE g = c.group /\ c.type = "voter"
    BY <1>1, <1>3 DEF Apply, TypeOK
  <1>4. CASE g = c.group /\ c.type = "remove"
    BY <1>1, <1>4 DEF Apply, TypeOK
  <1>5. CASE g # c.group
    BY <1>1, <1>5 DEF Apply, TypeOK
  <1> QED
    BY <1>1, <1>2, <1>3, <1>4, <1>5

(* A justified change keeps the two groups consistent. *)
LEMMA ApplyKeeps ==
  ASSUME TypeOK, GroupsOK, NEW c \in Requests, Justified(c, dropped'), Apply(c),
         dropped \subseteq dropped'
  PROVE  GroupsOK'
  <1>0. c.type \in {"nonVoting", "voter", "remove"} /\ c.group \in Groups /\ c.node \in Nodes
    BY DEF Requests
  <1>1. CASE c.type = "nonVoting"
    <2>1. /\ c.node \notin removed[c.group] \cup voters[c.group]
          /\ voters'[c.group] = voters[c.group] /\ removed'[c.group] = removed[c.group]
          /\ nonVotings'[c.group] = nonVotings[c.group] \cup {c.node}
          /\ \A g \in Groups \ {c.group} : /\ voters'[g] = voters[g]
                /\ nonVotings'[g] = nonVotings[g] /\ removed'[g] = removed[g]
      BY <1>0, <1>1 DEF Apply, Accepts, TypeOK
    <2> QED
      BY <1>0, <2>1 DEF GroupsOK, Justified, EventVotersAreInMetadata, Groups
  <1>2. CASE c.type = "voter"
    <2>1. /\ c.node \notin removed[c.group] \cup voters[c.group]
          /\ voters'[c.group] = voters[c.group] \cup {c.node}
          /\ removed'[c.group] = removed[c.group]
          /\ nonVotings'[c.group] = nonVotings[c.group] \ {c.node}
          /\ \A g \in Groups \ {c.group} : /\ voters'[g] = voters[g]
                /\ nonVotings'[g] = nonVotings[g] /\ removed'[g] = removed[g]
      BY <1>0, <1>2 DEF Apply, Accepts, TypeOK
    <2>2. c.group = "event" => c.node \in voters["meta"] \cup dropped
      BY <1>2, <2>1 DEF GroupsOK, Justified, Member
    <2> QED
      BY <1>0, <2>1, <2>2 DEF GroupsOK, Justified, EventVotersAreInMetadata, Groups
  <1>3. CASE c.type = "remove"
    <2>1. /\ voters'[c.group] = voters[c.group] \ {c.node}
          /\ removed'[c.group] = removed[c.group] \cup {c.node}
          /\ nonVotings'[c.group] = nonVotings[c.group] \ {c.node}
          /\ \A g \in Groups \ {c.group} : /\ voters'[g] = voters[g]
                /\ nonVotings'[g] = nonVotings[g] /\ removed'[g] = removed[g]
      BY <1>0, <1>3 DEF Apply, TypeOK
    <2>2. c.group = "meta" => c.node \notin voters["event"] \/ c.node \in dropped'
      BY <1>3 DEF GroupsOK, Justified, Groups
    <2> QED
      BY <1>0, <1>3, <2>1, <2>2 DEF GroupsOK, Justified, EventVotersAreInMetadata, Groups
  <1> QED
    BY <1>0, <1>1, <1>2, <1>3

(* Every step leaves the groups alone or applies a justified change. *)
LEMMA StepApplies ==
  ASSUME TypeOK, Inv, [Next]_vars
  PROVE  UNCHANGED groupVars \/ \E c \in Requests : Justified(c, dropped') /\ Apply(c)
  <1> DEFINE Goal == UNCHANGED groupVars
                       \/ \E c \in Requests : Justified(c, dropped') /\ Apply(c)
  <1>0. dropped \subseteq dropped'
    BY DroppedGrows
  <1>1. ASSUME NEW c \in late, ApplyLate(c) PROVE Goal
    <2>1. c \in Requests /\ Justified(c, dropped')
      BY <1>0, <1>1 DEF Inv, ChangesJustified, Justified, TypeOK, Requests
    <2> QED
      BY <1>1, <2>1 DEF ApplyLate, Reject
  <1>2. ASSUME NEW n \in Joiners, JoinChangeDone(n) PROVE Goal
    <2>1. Changing(n) /\ Apply(JoinChange(n))
      BY <1>2 DEF JoinChangeDone
    <2>2. Justified(JoinChange(n), dropped')
      BY <2>1, JoinChangeIs DEF Justified, Inv, ChangesJustified
    <2> QED
      BY <2>1, <2>2, JoinChangeIs
  <1>3. ASSUME NEW n \in Nodes, LeaveDone(n) PROVE Goal
    <2>1. leave[n] \in Groups /\ Apply(Change(leave[n], "remove", n))
      BY <1>3 DEF LeaveDone
    <2>2. Justified(Change(leave[n], "remove", n), dropped')
      BY <2>1, RemoveIs DEF Justified, Inv, ChangesJustified
    <2> QED
      BY <2>1, <2>2, RemoveIs
  <1>4. ASSUME NEW n \in Nodes, JoinMetadata(n) PROVE Goal
    <2>1. /\ Change("meta", "nonVoting", n) \in Requests
          /\ Justified(Change("meta", "nonVoting", n), dropped')
      BY DEF Change, Requests, Justified, Groups
    <2> QED
      BY <1>4, <2>1, SingleIs DEF JoinMetadata
  <1>5. ASSUME NEW n \in Nodes, LeaveMetadata(n) PROVE Goal
    <2>1. n \in dropped'
      BY <1>5 DEF LeaveMetadata
    <2>2. /\ Change("meta", "remove", n) \in Requests
          /\ Justified(Change("meta", "remove", n), dropped')
      BY <2>1 DEF Change, Requests, Justified, Groups
    <2> QED
      BY <1>5, <2>2, SingleIs DEF LeaveMetadata
  <1>6. ASSUME NEW n \in Joiners,
               \/ Start(n) \/ JoinChangeRejected(n) \/ JoinChangeTimesOut(n)
               \/ WaitForCatchUp(n) \/ WaitForCatchUpTimesOut(n) \/ StartRaft(n)
        PROVE  Goal
    BY <1>6 DEF Start, JoinChangeRejected, JoinChangeTimesOut, WaitForCatchUp,
                WaitForCatchUpTimesOut, StartRaft, Reject, TimeOut
  <1>7. ASSUME NEW n \in Nodes,
               Crash(n) \/ RestartFounder(n) \/ LeaveCluster(n) \/ LeaveFails(n)
        PROVE  Goal
    BY <1>7 DEF Crash, RestartFounder, LeaveCluster, LeaveFails, Reject, TimeOut
  <1>8. CASE UNCHANGED vars
    BY <1>8 DEF vars
  <1>9. CASE Next
    <2> HIDE DEF Goal
    <2>1. Goal
      BY <1>1, <1>2, <1>3, <1>4, <1>5, <1>6, <1>7, <1>9, Zenon DEF Next, Nodes
    <2> QED
      BY <2>1 DEF Goal
  <1> QED
    BY <1>8, <1>9

LEMMA GroupsStep ==
  ASSUME TypeOK, Inv, [Next]_vars
  PROVE  /\ voters' \in [Groups -> SUBSET Nodes]
         /\ nonVotings' \in [Groups -> SUBSET Nodes]
         /\ removed' \in [Groups -> SUBSET Nodes]
         /\ GroupsOK'
         /\ \A g \in Groups : /\ removed[g] \subseteq removed'[g]
                              /\ \A n : Member(g, n) => Member(g, n)'
  <1>1. CASE UNCHANGED groupVars
    BY <1>1, DroppedGrows DEF groupVars, TypeOK, Inv, GroupsOK, EventVotersAreInMetadata, Member
  <1>2. ASSUME NEW c \in Requests, Justified(c, dropped'), Apply(c)
        PROVE  /\ voters' \in [Groups -> SUBSET Nodes]
               /\ nonVotings' \in [Groups -> SUBSET Nodes]
               /\ removed' \in [Groups -> SUBSET Nodes]
               /\ GroupsOK'
               /\ \A g \in Groups : /\ removed[g] \subseteq removed'[g]
                                    /\ \A n : Member(g, n) => Member(g, n)'
    <2>1. GroupsOK'
      BY <1>2, ApplyKeeps, DroppedGrows DEF Inv
    <2> QED
      BY <1>2, <2>1, ApplyType, ApplyGrows
  <1> QED
    BY <1>1, <1>2, StepApplies
-----------------------------------------------------------------------------
LEMMA InitOK == Init => TypeOK /\ Inv
  BY MembershipAssumption
  DEF Init, TypeOK, Inv, GroupsOK, ChangesJustified, JoinedIsVoter, LeftIsRemoved,
      EventVotersAreInMetadata, Groups, Nodes, JoinSteps

LEMMA NextSeedType ==
  ASSUME TypeOK, NEW n \in Joiners, NextSeed(n)
  PROVE  /\ join' \in [Joiners -> JoinSteps] /\ seed' \in [Joiners -> 1 .. Seeds]
         /\ join'[n] \in {"addMeta", "down"} /\ \A m \in Joiners \ {n} : join'[m] = join[m]
  <1>1. CASE seed[n] < Seeds
    <2>1. seed[n] + 1 \in 1 .. Seeds
      BY <1>1, MembershipAssumption DEF TypeOK
    <2> QED
      BY <1>1, <2>1 DEF NextSeed, TypeOK, JoinSteps
  <1>2. CASE ~(seed[n] < Seeds)
    BY <1>2 DEF NextSeed, TypeOK, JoinSteps
  <1> QED
    BY <1>1, <1>2

LEMMA TimeOutType ==
  ASSUME TypeOK, NEW c \in Requests, TimeOut(c)
  PROVE  late' \subseteq Requests /\ faults' \in Nat
  BY DEF TimeOut, TypeOK, Requests

LEMMA NextType ==
  ASSUME TypeOK, Inv, [Next]_vars
  PROVE  TypeOK'
  <1> DEFINE Rest == /\ running \subseteq Nodes
                     /\ raftData \subseteq Nodes
                     /\ join \in [Joiners -> JoinSteps]
                     /\ seed \in [Joiners -> 1 .. Seeds]
                     /\ starts \in [Joiners -> Nat]
                     /\ leave \in [Nodes -> Groups \cup {"no", "left"}]
                     /\ late \subseteq Requests
                     /\ leaves \in Nat /\ faults \in Nat
  <1>0. watched' \subseteq Nodes /\ dropped' \subseteq Nodes
    BY DroppedGrows
  <1>r. Rest
    BY DEF TypeOK, Requests
  <1>1. ASSUME NEW c \in late, ApplyLate(c) PROVE Rest'
    BY <1>r, <1>1 DEF ApplyLate, nodeVars
  <1>2. ASSUME NEW n \in Joiners, Start(n) PROVE Rest'
    <2>1. n \in Nodes /\ 1 \in 1 .. Seeds
      BY MembershipAssumption DEF Nodes
    <2>2. join' \in [Joiners -> JoinSteps] /\ seed' \in [Joiners -> 1 .. Seeds]
      BY <1>r, <1>2, <2>1 DEF Start, JoinSteps
    <2>3. running' \subseteq Nodes /\ starts' \in [Joiners -> Nat]
      BY <1>r, <1>2, <2>1 DEF Start
    <2> QED
      BY <1>r, <1>2, <2>2, <2>3 DEF Start
  <1>3. ASSUME NEW n \in Joiners, JoinChangeDone(n) PROVE Rest'
    <2>1. AfterJoinChange(n) \in JoinSteps
      BY <1>3 DEF JoinChangeDone, Changing, AfterJoinChange, JoinSteps
    <2> QED
      BY <1>r, <1>3, <2>1 DEF JoinChangeDone
  <1>4. ASSUME NEW n \in Joiners, JoinChangeRejected(n) PROVE Rest'
    BY <1>r, <1>4, NextSeedType DEF JoinChangeRejected
  <1>5. ASSUME NEW n \in Joiners, JoinChangeTimesOut(n) PROVE Rest'
    <2>1. JoinChange(n) \in Requests
      BY <1>5, JoinChangeIs DEF JoinChangeTimesOut
    <2> QED
      BY <1>r, <1>5, <2>1, NextSeedType, TimeOutType DEF JoinChangeTimesOut
  <1>6. ASSUME NEW n \in Joiners, WaitForCatchUp(n) \/ StartRaft(n) PROVE Rest'
    BY <1>r, <1>6 DEF WaitForCatchUp, StartRaft, JoinSteps, Nodes
  <1>7. ASSUME NEW n \in Joiners, WaitForCatchUpTimesOut(n) PROVE Rest'
    BY <1>r, <1>7, NextSeedType DEF WaitForCatchUpTimesOut
  <1>8. ASSUME NEW n \in Nodes, Crash(n) PROVE Rest'
    BY <1>r, <1>8 DEF Crash, JoinSteps
  <1>9. ASSUME NEW n \in Founders, RestartFounder(n) PROVE Rest'
    BY <1>r, <1>9 DEF RestartFounder, Nodes
  <1>10. ASSUME NEW n \in Nodes, LeaveCluster(n) \/ LeaveDone(n) PROVE Rest'
    BY <1>r, <1>10 DEF LeaveCluster, LeaveDone, nodeVars, Groups
  <1>11. ASSUME NEW n \in Nodes, LeaveFails(n) PROVE Rest'
    <2>1. late' \subseteq Requests /\ faults' \in Nat
      BY <1>r, <1>11, RemoveIs, TimeOutType DEF LeaveFails
    <2> QED
      BY <1>r, <1>11, <2>1 DEF LeaveFails, nodeVars
  <1>12. ASSUME NEW n \in Nodes, JoinMetadata(n) \/ LeaveMetadata(n) PROVE Rest'
    <2>1. PICK c \in Requests : Single(c)
      BY <1>12 DEF JoinMetadata, LeaveMetadata, Change, Requests, Groups
    <2>2. late' \subseteq Requests /\ faults' \in Nat
      BY <1>r, <2>1, TimeOutType DEF Single
    <2> QED
      BY <1>r, <1>12, <2>2 DEF JoinMetadata, LeaveMetadata, nodeVars
  <1>13. CASE UNCHANGED vars
    <2>1. Rest'
      BY <1>r, <1>13 DEF vars, nodeVars
    <2> QED
      BY <1>0, <2>1, GroupsStep DEF TypeOK, Requests
  <1>14. CASE Next
    <2>1. Rest'
      <3> HIDE DEF Rest
      <3> QED
        BY <1>14, <1>1, <1>2, <1>3, <1>4, <1>5, <1>6, <1>7, <1>8, <1>9, <1>10, <1>11,
           <1>12, Zenon DEF Next
    <2> QED
      BY <1>0, <2>1, GroupsStep DEF TypeOK, Requests
  <1> QED
    BY <1>13, <1>14

LEMMA ApplyDoes ==
  ASSUME TypeOK, NEW c \in Requests, Apply(c)
  PROVE  /\ c.type = "voter" => c.node \in voters'[c.group]
         /\ c.type = "remove" => c.node \in removed'[c.group]
  BY DEF Apply, TypeOK, Requests

(* What a step puts among the late changes was being asked for. *)
LEMMA LateJustified ==
  ASSUME TypeOK, Inv, [Next]_vars
  PROVE  \A c \in late' : Justified(c, dropped)'
  <1> DEFINE Goal == \A c \in late' : c \in late \/ Justified(c, dropped')
  <1>1. Goal
    <2>1. ASSUME NEW n \in Joiners, JoinChangeTimesOut(n) PROVE Goal
      <3>1. Justified(JoinChange(n), dropped')
        BY <2>1, JoinChangeIs DEF JoinChangeTimesOut, Justified, Inv, ChangesJustified
      <3> QED
        BY <2>1, <3>1 DEF JoinChangeTimesOut, TimeOut
    <2>2. ASSUME NEW n \in Nodes, LeaveFails(n) PROVE Goal
      <3>1. leave[n] \in Groups
        BY <2>2 DEF LeaveFails
      <3>2. Justified(Change(leave[n], "remove", n), dropped')
        BY <3>1, RemoveIs DEF Justified, Inv, ChangesJustified
      <3> QED
        BY <2>2, <3>2 DEF LeaveFails, TimeOut
    <2>3. ASSUME NEW n \in Nodes, JoinMetadata(n) \/ LeaveMetadata(n) PROVE Goal
      <3>1. PICK c : Single(c) /\ Justified(c, dropped')
        <4>1. CASE JoinMetadata(n)
          BY <4>1 DEF JoinMetadata, Change, Justified
        <4>2. CASE LeaveMetadata(n)
          <5>1. n \in dropped'
            BY <4>2 DEF LeaveMetadata
          <5> QED
            BY <4>2, <5>1 DEF LeaveMetadata, Change, Justified
        <4> QED
          BY <2>3, <4>1, <4>2
      <3> QED
        BY <3>1 DEF Single, TimeOut
    <2>4. ASSUME NEW n \in Joiners,
                 \/ Start(n) \/ JoinChangeDone(n) \/ JoinChangeRejected(n)
                 \/ WaitForCatchUp(n) \/ WaitForCatchUpTimesOut(n) \/ StartRaft(n)
          PROVE  late' = late
      BY <2>4 DEF Start, JoinChangeDone, JoinChangeRejected, WaitForCatchUp,
                  WaitForCatchUpTimesOut, StartRaft
    <2>5. ASSUME NEW n \in Nodes,
                 Crash(n) \/ RestartFounder(n) \/ LeaveCluster(n) \/ LeaveDone(n)
          PROVE  late' = late
      BY <2>5 DEF Crash, RestartFounder, LeaveCluster, LeaveDone
    <2>6. ASSUME NEW c \in late, ApplyLate(c) PROVE late' \subseteq late
      BY <2>6 DEF ApplyLate
    <2>7. CASE UNCHANGED vars
      BY <2>7 DEF vars
    <2> QED
      BY <2>1, <2>2, <2>3, <2>4, <2>5, <2>6, <2>7, Zenon DEF Next, Nodes
  <1>2. \A c \in late' : Justified(c, dropped')
    BY <1>1, DroppedGrows DEF Inv, ChangesJustified, Justified
  <1>3. /\ removed["event"] \subseteq removed'["event"]
        /\ \A n : Member("meta", n) => Member("meta", n)'
    BY GroupsStep DEF Groups
  <1> QED
    BY <1>2, <1>3 DEF Justified

(* What a step makes of a join and of a leave. *)
LEMMA JoinStep ==
  ASSUME TypeOK, Inv, [Next]_vars, NEW n \in Joiners
  PROVE  /\ join'[n] = "promoteEvent" => join[n] = "promoteEvent" \/ Member("meta", n)'
         /\ join'[n] = "joined" =>
               join[n] = "joined" \/ (join[n] = "promoteEvent" /\ Member("event", n)')
         /\ n \in raftData' => n \in raftData \/ join[n] = "joined"
  <1> DEFINE Goal ==
         /\ join'[n] = "promoteEvent" => join[n] = "promoteEvent" \/ Member("meta", n)'
         /\ join'[n] = "joined" =>
               join[n] = "joined" \/ (join[n] = "promoteEvent" /\ Member("event", n)')
         /\ n \in raftData' => n \in raftData \/ join[n] = "joined"
  <1>1. ASSUME NEW m \in Joiners, JoinChangeDone(m) PROVE Goal
    <2>1. join' = [join EXCEPT ![m] = AfterJoinChange(m)] /\ raftData' = raftData
          /\ Changing(m) /\ Apply(JoinChange(m))
      BY <1>1 DEF JoinChangeDone
    <2>2. CASE m # n
      BY <2>1, <2>2 DEF TypeOK
    <2>3. CASE m = n
      <3>1. /\ join[n] = "promoteMeta" => n \in voters'["meta"]
            /\ join[n] = "promoteEvent" => n \in voters'["event"]
        BY <2>1, <2>3, JoinChangeIs, ApplyDoes
      <3>2. join'[n] = AfterJoinChange(n)
        BY <2>1, <2>3 DEF TypeOK
      <3> QED
        BY <2>1, <2>3, <3>1, <3>2 DEF AfterJoinChange, Changing, Member
    <2> QED
      BY <2>2, <2>3
  <1>2. ASSUME NEW m \in Joiners,
               \/ JoinChangeRejected(m) \/ JoinChangeTimesOut(m) \/ WaitForCatchUpTimesOut(m)
        PROVE  Goal
    <2>1. NextSeed(m) /\ raftData' = raftData
      BY <1>2 DEF JoinChangeRejected, JoinChangeTimesOut, WaitForCatchUpTimesOut
    <2> QED
      BY <2>1, NextSeedType
  <1>3. ASSUME NEW m \in Joiners, Start(m) \/ WaitForCatchUp(m) \/ StartRaft(m) PROVE Goal
    BY <1>3 DEF Start, WaitForCatchUp, StartRaft, TypeOK
  <1>4. ASSUME NEW m \in Nodes, Crash(m) PROVE Goal
    BY <1>4 DEF Crash, TypeOK
  <1>5. ASSUME NEW m \in Nodes,
               \/ RestartFounder(m) \/ LeaveCluster(m) \/ LeaveDone(m) \/ LeaveFails(m)
               \/ JoinMetadata(m) \/ LeaveMetadata(m)
        PROVE  Goal
    BY <1>5 DEF RestartFounder, LeaveCluster, LeaveDone, LeaveFails, JoinMetadata,
                LeaveMetadata, nodeVars
  <1>6. ASSUME NEW c \in late, ApplyLate(c) PROVE Goal
    BY <1>6 DEF ApplyLate, nodeVars
  <1>7. CASE UNCHANGED vars
    BY <1>7 DEF vars, nodeVars
  <1> QED
    <2>1. CASE Next
      <3>1. Goal
        <4> HIDE DEF Goal
        <4> QED
          BY <2>1, <1>1, <1>2, <1>3, <1>4, <1>5, <1>6, Zenon DEF Next, Nodes
      <3> QED
        BY <3>1
    <2> QED
      BY <2>1, <1>7

LEMMA LeaveSteps ==
  ASSUME TypeOK, Inv, [Next]_vars, NEW n \in Nodes
  PROVE  /\ leave'[n] = "meta" => leave[n] = "meta" \/ n \in removed'["event"]
         /\ leave'[n] = "left" =>
               leave[n] = "left" \/ (leave[n] = "meta" /\ n \in removed'["meta"])
  <1> DEFINE Goal ==
         /\ leave'[n] = "meta" => leave[n] = "meta" \/ n \in removed'["event"]
         /\ leave'[n] = "left" =>
               leave[n] = "left" \/ (leave[n] = "meta" /\ n \in removed'["meta"])
  <1>1. ASSUME NEW m \in Nodes, LeaveCluster(m) \/ LeaveFails(m) PROVE Goal
    BY <1>1 DEF LeaveCluster, LeaveFails, TypeOK
  <1>2. ASSUME NEW m \in Nodes, LeaveDone(m) PROVE Goal
    <2>1. /\ leave[m] \in Groups /\ Apply(Change(leave[m], "remove", m))
          /\ leave' = [leave EXCEPT ![m] = IF @ = "event" THEN "meta" ELSE "left"]
      BY <1>2 DEF LeaveDone
    <2>2. m \in removed'[leave[m]]
      BY <2>1, RemoveIs, ApplyDoes
    <2> QED
      BY <2>1, <2>2 DEF TypeOK, Groups
  <1>3. CASE leave' = leave
    BY <1>3
  <1>4. Goal
    <2> HIDE DEF Goal
    <2>1. ASSUME NEW m \in Nodes,
                 \/ Start(m) \/ JoinChangeDone(m) \/ JoinChangeRejected(m)
                 \/ JoinChangeTimesOut(m) \/ WaitForCatchUp(m)
                 \/ WaitForCatchUpTimesOut(m) \/ StartRaft(m) \/ Crash(m)
                 \/ RestartFounder(m) \/ JoinMetadata(m) \/ LeaveMetadata(m)
          PROVE  leave' = leave
      BY <2>1 DEF Start, JoinChangeDone, JoinChangeRejected, JoinChangeTimesOut,
                  WaitForCatchUp, WaitForCatchUpTimesOut, StartRaft, Crash,
                  RestartFounder, JoinMetadata, LeaveMetadata
    <2>2. ASSUME NEW c \in late, ApplyLate(c) PROVE leave' = leave
      BY <2>2 DEF ApplyLate
    <2>3. CASE UNCHANGED vars
      BY <1>3, <2>3 DEF vars, Goal
    <2>4. leave' = leave => Goal
      BY <1>3 DEF Goal
    <2> QED
      BY <1>1, <1>2, <2>1, <2>2, <2>3, <2>4, Zenon DEF Next, Nodes
  <1> QED
    BY <1>4

LEMMA NextInv ==
  ASSUME TypeOK, Inv, [Next]_vars
  PROVE  Inv'
  <1>0. /\ removed["event"] \subseteq removed'["event"]
        /\ removed["meta"] \subseteq removed'["meta"]
        /\ \A g \in Groups, n \in Nodes : Member(g, n) => Member(g, n)'
    BY GroupsStep DEF Groups
  <1>1. ChangesJustified'
    <2>1. \A n \in Joiners : join'[n] = "promoteEvent" => Member("meta", n)'
      BY <1>0, JoinStep DEF Inv, ChangesJustified, Groups, Nodes
    <2>2. \A n \in Nodes : leave'[n] = "meta" => n \in removed'["event"]
      BY <1>0, LeaveSteps DEF Inv, ChangesJustified
    <2> QED
      BY <2>1, <2>2, LateJustified DEF ChangesJustified
  <1>2. JoinedIsVoter'
    <2> SUFFICES ASSUME NEW n \in Joiners, join'[n] = "joined" \/ n \in raftData',
                        NEW g \in Groups
                 PROVE  Member(g, n)'
      BY DEF JoinedIsVoter, Member
    <2>1. n \in Nodes
      BY DEF Nodes
    <2>2. CASE join[n] = "joined" \/ n \in raftData
      BY <1>0, <2>1, <2>2 DEF Inv, JoinedIsVoter, Member
    <2>3. CASE join[n] = "promoteEvent" /\ Member("event", n)'
      BY <1>0, <2>1, <2>3 DEF Inv, ChangesJustified, Groups
    <2> QED
      BY <2>2, <2>3, JoinStep
  <1>3. LeftIsRemoved'
    BY <1>0, LeaveSteps DEF Inv, LeftIsRemoved, ChangesJustified, Groups
  <1> QED
    BY <1>1, <1>2, <1>3, GroupsStep DEF Inv

(* The types of Membership hold in every reachable state. *)
THEOREM TypeCorrect == Spec => []TypeOK
  <1>1. TypeOK /\ Inv /\ [Next]_vars => TypeOK' /\ Inv'
    BY NextType, NextInv
  <1> QED
    BY <1>1, InitOK, PTL DEF Spec

(* The inductive invariant: the groups are consistent, and every change    *)
(* under way or delayed is one that keeps them so.                         *)
THEOREM InvCorrect == Spec => []Inv
  <1>1. TypeOK /\ Inv /\ [Next]_vars => TypeOK' /\ Inv'
    BY NextType, NextInv
  <1> QED
    BY <1>1, InitOK, PTL DEF Spec

(* JoinCluster and LeaveCluster, whatever step of them fails, is repeated  *)
(* or takes effect late, never leave a voter of the event shard outside    *)
(* the metadata group; only LeaveMetadata, asked for that node, does.      *)
THEOREM VotersPublish == Spec => []EventVotersAreInMetadata
  <1>1. Inv => EventVotersAreInMetadata
    BY DEF Inv, GroupsOK
  <1> QED
    BY <1>1, InvCorrect, PTL

(* JoinCluster says yes only to a node that is, from then on, a voter of   *)
(* both groups or one that somebody removed.                               *)
THEOREM JoinedVotes == Spec => []JoinedIsVoter
  <1>1. Inv => JoinedIsVoter
    BY DEF Inv
  <1> QED
    BY <1>1, InvCorrect, PTL

(* A node that LeaveCluster reported gone is in neither group ever after.  *)
THEOREM LeftIsOut == Spec => []LeftStaysOut
  <1>1. Inv => LeftStaysOut
    <2> SUFFICES ASSUME Inv, NEW n \in Nodes, leave[n] = "left", NEW g \in Groups
                 PROVE  n \notin voters[g] \cup nonVotings[g]
      BY DEF LeftStaysOut
    <2>1. n \in removed[g]
      BY DEF Inv, LeftIsRemoved
    <2> QED
      BY <2>1 DEF Inv, GroupsOK
  <1> QED
    BY <1>1, InvCorrect, PTL
=============================================================================
