---------------------------- MODULE ClusterProofs ----------------------------
(***************************************************************************)
(* Proofs about module Cluster, for any number of nodes, messages and      *)
(* consumers, any failovers, restarts and proposals given up.              *)
(***************************************************************************)
EXTENDS Cluster, SequenceTheorems, TLAPS

Settled == acked \cup expired

Accepted == kept \cup removed

(* A message that some node is to delete, or a proposal that may still     *)
(* commit deletes, was acknowledged or is expired.                         *)
DeletionJustified ==
    /\ \A n \in Nodes : pending[n] \cup flushing[n] \subseteq Settled
    /\ \A p \in proposals : p.op = "delete" => p.keys \subseteq Settled

(* A batch is proposed once and commits once. *)
StoredOnce ==
    /\ \A p \in proposals : p.op = "store" =>
          /\ p.keys \in Batches /\ ~p.waited
          /\ pub[p.keys] # "new"
          /\ p.keys \cap Accepted = {}
    /\ \A p, q \in proposals :
          p.op = "store" /\ q.op = "store" /\ p.keys = q.keys => p = q
    /\ \A b \in Batches : pub[b] = "new" => b \cap Accepted = {}

(* What a node holds, or is to store, comes from committed entries. *)
CommittedOnly ==
    /\ \A n \in Nodes : db[n] \cup scan[n] \cup held[n] \subseteq Accepted
    /\ \A n \in Nodes : \A i \in DOMAIN todo[n] :
          todo[n][i].op = "store" => todo[n][i].keys \subseteq Accepted

Inv ==
    /\ DeletionJustified
    /\ StoredOnce
    /\ CommittedOnly
    /\ AckedPublishIsCommitted
-----------------------------------------------------------------------------
(* The entries of n after nobody waits for them. *)
LEMMA StopWaitingEntries ==
  ASSUME TypeOK, NEW n \in Nodes, StopWaiting(n)
  PROVE  /\ todo' \in [Nodes -> Seq(Entry)]
         /\ \A k \in Nodes : DOMAIN todo'[k] = DOMAIN todo[k]
         /\ \A k \in Nodes : \A i \in DOMAIN todo[k] :
               todo'[k][i].op = todo[k][i].op /\ todo'[k][i].keys = todo[k][i].keys
  <1> DEFINE s == [i \in DOMAIN todo[n] |-> [todo[n][i] EXCEPT !.waited = FALSE]]
  <1>1. todo \in [Nodes -> Seq(Entry)] /\ todo' = [todo EXCEPT ![n] = s]
    BY DEF TypeOK, StopWaiting
  <1>2. DOMAIN todo[n] = 1 .. Len(todo[n]) /\ Len(todo[n]) \in Nat
        /\ \A i \in DOMAIN todo[n] : todo[n][i] \in Entry
    BY <1>1
  <1>3. \A i \in DOMAIN todo[n] :
           s[i] \in Entry /\ s[i].op = todo[n][i].op /\ s[i].keys = todo[n][i].keys
    BY <1>2 DEF Entry
  <1>4. s \in Seq(Entry) /\ DOMAIN s = DOMAIN todo[n]
    <2>1. s \in [1 .. Len(todo[n]) -> Entry]
      BY <1>2, <1>3
    <2> QED
      BY <1>2, <2>1, SeqDef
  <1>5. \A k \in Nodes : todo'[k] = IF k = n THEN s ELSE todo[k]
    BY <1>1
  <1> HIDE DEF s
  <1> QED
    BY <1>1, <1>3, <1>4, <1>5

(* The proposals after nobody waits for those of n. *)
LEMMA StopWaitingProposals ==
  ASSUME proposals \subseteq Proposal, NEW n \in Nodes, StopWaiting(n)
  PROVE  /\ proposals' \subseteq Proposal
         /\ \A q \in proposals' : \E p \in proposals :
               /\ q.op = p.op /\ q.keys = p.keys /\ q.node = p.node
               /\ q.waited => p.waited
  BY DEF StopWaiting, Proposal

(* A new proposal is a proposal. *)
LEMMA ProposeType ==
  ASSUME proposals \subseteq Proposal, NEW n \in Nodes, NEW op \in {"store", "delete"},
         NEW keys \in SUBSET Messages, NEW waited \in BOOLEAN,
         Propose(n, op, keys, waited)
  PROVE  proposals' \subseteq Proposal
  <1>1. [node |-> n, op |-> op, keys |-> keys, waited |-> waited] \in Proposal
    BY DEF Proposal
  <1> QED
    BY <1>1 DEF Propose

(* The cluster starts in a well-typed state. *)
LEMMA InitType == Init => TypeOK
  BY ClusterAssumption DEF Init, TypeOK

(* Every step keeps the state well typed. *)
LEMMA NextType == TypeOK /\ [Next]_vars => TypeOK'
  <1> SUFFICES ASSUME TypeOK, [Next]_vars PROVE TypeOK'
    OBVIOUS
  <1>a. MaxFaults \in Nat /\ Batches \subseteq SUBSET Messages
    BY ClusterAssumption
  <1> USE DEF TypeOK
  <1>f. faults \in 0 .. MaxFaults /\ (Fault => faults' \in 0 .. MaxFaults)
    BY <1>a DEF Fault
  <1>1. ASSUME NEW n \in Nodes, Elect(n) PROVE TypeOK'
    BY <1>1, <1>f DEF Elect, logVars, deliveryVars, deleterVars, historyVars
  <1>2. ASSUME NEW n \in Nodes, LearnLeader(n) PROVE TypeOK'
    BY <1>2 DEF LearnLeader, logVars, deliveryVars, deleterVars, historyVars
  <1>3. ASSUME NEW p \in proposals, Commit(p) PROVE TypeOK'
    <2>1. p \in Proposal
      OBVIOUS
    <2>2. \A n \in Nodes :
            [op |-> p.op, keys |-> p.keys, waited |-> p.waited /\ n = p.node] \in Entry
      BY <2>1 DEF Proposal, Entry
    <2>3. todo' \in [Nodes -> Seq(Entry)]
      BY <1>3, <2>2 DEF Commit
    <2>4. kept' \subseteq Messages /\ removed' \subseteq Messages
      BY <1>3, <2>1 DEF Commit, Proposal
    <2> QED
      BY <1>3, <2>3, <2>4 DEF Commit, deliveryVars, deleterVars, historyVars
  <1>4. ASSUME NEW n \in Nodes, Apply(n) PROVE TypeOK'
    <2>1. Head(todo[n]) \in Entry /\ Tail(todo[n]) \in Seq(Entry)
      BY <1>4 DEF Apply
    <2>2. todo' \in [Nodes -> Seq(Entry)]
      BY <1>4, <2>1 DEF Apply
    <2>3. Head(todo[n]).keys \in SUBSET Messages
      BY <2>1 DEF Entry
    <2>4. db' \in [Nodes -> SUBSET Messages] /\ inFlight' \in [Nodes -> SUBSET Messages]
      <3>1. /\ db \in [Nodes -> SUBSET Messages] /\ inFlight \in [Nodes -> SUBSET Messages]
            /\ Head(todo[n]).keys \in SUBSET Messages
        BY <2>3
      <3> HIDE DEF TypeOK
      <3>2. CASE Head(todo[n]).op = "store"
        BY <1>4, <3>1, <3>2 DEF Apply
      <3>3. CASE Head(todo[n]).op # "store"
        BY <1>4, <3>1, <3>3 DEF Apply
      <3> QED
        BY <3>2, <3>3
    <2>5. /\ pub' \in [Batches -> {"new", "ok", "open"} \cup Nodes]
          /\ flush' \in [Nodes -> {"idle", "proposed", "applied"}]
      BY <1>4 DEF Apply
    <2> QED
      BY <1>4, <2>2, <2>4, <2>5 DEF Apply, historyVars
  <1>5. ASSUME NEW n \in Nodes, NEW b \in Batches, NEW level \in AckLevels,
               Publish(n, b, level)
        PROVE  TypeOK'
    <2>1. proposals' \subseteq Proposal
      BY <1>5, <1>a, ProposeType DEF Publish
    <2> QED
      BY <1>5, <2>1 DEF Publish, deliveryVars, deleterVars, historyVars
  <1>6. ASSUME NEW b \in Batches, PublishError(b) PROVE TypeOK'
    BY <1>6, <1>f DEF PublishError, logVars, deliveryVars, deleterVars, historyVars
  <1>7. ASSUME NEW n \in Nodes, Subscribe(n) \/ Disconnect(n) PROVE TypeOK'
    BY <1>7, ZenonT(30) DEF Subscribe, Disconnect, logVars, deleterVars, historyVars
  <1>8. ASSUME NEW n \in Nodes, NEW m \in Messages, Ack(n, m) \/ Nack(n, m) PROVE TypeOK'
    <2>1. CASE Ack(n, m)
      BY <2>1 DEF Ack, logVars, historyVars
    <2>2. CASE Nack(n, m)
      BY <2>2 DEF Nack, logVars, deleterVars, historyVars
    <2> QED
      BY <1>8, <2>1, <2>2
  <1>9. ASSUME NEW n \in Nodes, StartPass(n) PROVE TypeOK'
    BY <1>9 DEF StartPass, logVars, deleterVars, historyVars
  <1>10. ASSUME NEW n \in Nodes, NEW m \in Messages, Visit(n, m) PROVE TypeOK'
    <2>1. scan' \in [Nodes -> SUBSET Messages]
      BY <1>10 DEF Visit
    <2>2. UNCHANGED pending \/ pending' = [pending EXCEPT ![n] = @ \cup {m}]
      BY <1>10 DEF Visit
    <2>3. \/ UNCHANGED <<held, inFlight>>
          \/ /\ held' = [held EXCEPT ![n] = @ \cup {m}]
             /\ inFlight' = [inFlight EXCEPT ![n] = @ \cup {m}]
      BY <1>10 DEF Visit
    <2>4. pending' \in [Nodes -> SUBSET Messages]
      <3>1. CASE UNCHANGED pending
        BY <3>1
      <3>2. CASE pending' = [pending EXCEPT ![n] = @ \cup {m}]
        BY <3>2
      <3> QED
        BY <2>2, <3>1, <3>2
    <2>5. held' \in [Nodes -> SUBSET Messages] /\ inFlight' \in [Nodes -> SUBSET Messages]
      <3>1. CASE UNCHANGED <<held, inFlight>>
        BY <3>1
      <3>2. CASE /\ held' = [held EXCEPT ![n] = @ \cup {m}]
                 /\ inFlight' = [inFlight EXCEPT ![n] = @ \cup {m}]
        BY <3>2
      <3> QED
        BY <2>3, <3>1, <3>2
    <2> QED
      BY <1>10, <2>1, <2>4, <2>5 DEF Visit, logVars, historyVars
  <1>11. ASSUME NEW n \in Nodes, NEW m \in Messages, InFlightTimeout(n, m) PROVE TypeOK'
    BY <1>11 DEF InFlightTimeout, logVars, deleterVars, historyVars
  <1>12. ASSUME NEW m \in Messages, Expire(m) PROVE TypeOK'
    BY <1>12 DEF Expire, logVars, deliveryVars, deleterVars
  <1>13. ASSUME NEW n \in Nodes, Sweep(n) PROVE TypeOK'
    BY <1>13 DEF Sweep, logVars, deliveryVars, historyVars
  <1>14. ASSUME NEW n \in Nodes, Flush(n) PROVE TypeOK'
    <2>1. proposals' \subseteq Proposal
      BY <1>14, ProposeType DEF Flush
    <2> QED
      BY <1>14, <2>1 DEF Flush, deliveryVars, historyVars
  <1>15. ASSUME NEW n \in Nodes, FlushOK(n) PROVE TypeOK'
    BY <1>15 DEF FlushOK, logVars, historyVars
  <1>16. ASSUME NEW n \in Nodes, FlushError(n) PROVE TypeOK'
    <2>1. StopWaiting(n) /\ faults' \in 0 .. MaxFaults
      BY <1>16, <1>f DEF FlushError
    <2>2. proposals' \subseteq Proposal /\ todo' \in [Nodes -> Seq(Entry)]
      BY <2>1, StopWaitingProposals, StopWaitingEntries
    <2> QED
      BY <1>16, <2>1, <2>2 DEF FlushError, deliveryVars, historyVars
  <1>17. ASSUME NEW n \in Nodes, Restart(n) PROVE TypeOK'
    <2>1. StopWaiting(n) /\ faults' \in 0 .. MaxFaults
      BY <1>17, <1>f DEF Restart
    <2>2. proposals' \subseteq Proposal /\ todo' \in [Nodes -> Seq(Entry)]
      BY <2>1, StopWaitingProposals, StopWaitingEntries
    <2> QED
      BY <1>17, <2>1, <2>2 DEF Restart, historyVars
  <1>18. CASE UNCHANGED vars
    BY <1>18 DEF vars, logVars, deliveryVars, deleterVars, historyVars
  <1> HIDE DEF TypeOK
  <1> QED
    BY <1>1, <1>2, <1>3, <1>4, <1>5, <1>6, <1>7, <1>8, <1>9, <1>10, <1>11, <1>12,
       <1>13, <1>14, <1>15, <1>16, <1>17, <1>18, ZenonT(60)
    DEF Next, NodeStep

(* Every reachable state of the cluster is well typed. *)
THEOREM TypeCorrect == Spec => []TypeOK
  BY InitType, NextType, PTL DEF Spec
-----------------------------------------------------------------------------
(* Nothing committed is undone and nothing settled is unsettled. *)
LEMMA Growth ==
  ASSUME TypeOK, [Next]_vars
  PROVE  Accepted \subseteq Accepted' /\ Settled \subseteq Settled'
  <1>1. ASSUME NEW p \in proposals, Commit(p)
        PROVE  Accepted \subseteq Accepted' /\ Settled \subseteq Settled'
    BY <1>1 DEF Commit, historyVars, Accepted, Settled
  <1>2. ASSUME NEW n \in Nodes, NodeStep(n)
        PROVE  /\ UNCHANGED <<kept, removed, expired>>
               /\ UNCHANGED acked \/ \E m \in Messages : acked' = acked \cup {m}
    BY <1>2, ZenonT(60)
    DEF NodeStep, Elect, LearnLeader, Apply, Publish, Subscribe, Disconnect, Ack, Nack,
        StartPass, Visit, InFlightTimeout, Sweep, Flush, FlushOK, FlushError, Restart,
        logVars, historyVars
  <1>3. ASSUME NEW n \in Nodes, NodeStep(n)
        PROVE  Accepted \subseteq Accepted' /\ Settled \subseteq Settled'
    BY <1>2, <1>3 DEF Accepted, Settled
  <1>4. CASE UNCHANGED vars
    BY <1>4 DEF vars, logVars, historyVars, Accepted, Settled
  <1>5. ASSUME NEW b \in Batches, PublishError(b)
        PROVE  Accepted \subseteq Accepted' /\ Settled \subseteq Settled'
    BY <1>5 DEF PublishError, logVars, historyVars, Accepted, Settled
  <1>6. ASSUME NEW m \in Messages, Expire(m)
        PROVE  Accepted \subseteq Accepted' /\ Settled \subseteq Settled'
    BY <1>6 DEF Expire, logVars, Accepted, Settled
  <1> QED
    BY <1>1, <1>3, <1>4, <1>5, <1>6 DEF Next

(* The cluster starts with nothing marked, proposed or stored. *)
LEMMA InitInv == Init => Inv
  <1> SUFFICES ASSUME Init PROVE Inv
    OBVIOUS
  <1>1. \A n \in Nodes : todo[n] = <<>> /\ DOMAIN todo[n] = {}
    BY DEF Init
  <1> QED
    BY <1>1 DEF Init, Inv, DeletionJustified, StoredOnce, CommittedOnly,
                AckedPublishIsCommitted, Accepted, Settled

(* Only acknowledged or expired messages are marked, drained, enqueued     *)
(* again or proposed for deletion, and a proposal keeps its keys.          *)
LEMMA NextDeletionJustified ==
  ASSUME TypeOK, DeletionJustified, [Next]_vars
  PROVE  DeletionJustified'
  <1>g. Settled \subseteq Settled'
    BY Growth
  <1>t. pending \in [Nodes -> SUBSET Messages] /\ flushing \in [Nodes -> SUBSET Messages]
    BY DEF TypeOK
  <1> USE DEF DeletionJustified
  <1>0. CASE UNCHANGED <<pending, flushing, proposals>>
    BY <1>0, <1>g
  <1>1. ASSUME NEW p \in proposals, Commit(p) PROVE DeletionJustified'
    BY <1>1, <1>g DEF Commit, deleterVars
  <1>2. ASSUME NEW n \in Nodes, NEW b \in Batches, NEW level \in AckLevels,
               Publish(n, b, level)
        PROVE  DeletionJustified'
    <2>1. \A p \in proposals' : p \in proposals \/ p.op = "store"
      BY <1>2 DEF Publish, Propose
    <2> QED
      BY <1>2, <1>g, <2>1 DEF Publish, deleterVars
  <1>3. ASSUME NEW n \in Nodes, NEW ms \in SUBSET Settled',
               pending' = [pending EXCEPT ![n] = @ \cup ms],
               UNCHANGED <<flushing, proposals>>
        PROVE  DeletionJustified'
    BY <1>3, <1>g, <1>t
  <1>4. ASSUME NEW n \in Nodes, NEW m \in Messages, Ack(n, m) PROVE DeletionJustified'
    <2>1. {m} \in SUBSET Settled'
      BY <1>4 DEF Ack, Settled
    <2> QED
      BY <1>3, <1>4, <2>1 DEF Ack, logVars
  <1>5. ASSUME NEW n \in Nodes, NEW m \in Messages, Visit(n, m) PROVE DeletionJustified'
    <2>1. CASE UNCHANGED pending
      BY <1>0, <1>5, <2>1 DEF Visit, logVars
    <2>2. CASE ~UNCHANGED pending
      <3>1. m \in expired /\ pending' = [pending EXCEPT ![n] = @ \cup {m}]
        BY <1>5, <2>2 DEF Visit
      <3>2. {m} \in SUBSET Settled'
        BY <1>g, <3>1 DEF Settled
      <3> QED
        BY <1>3, <1>5, <3>1, <3>2 DEF Visit, logVars
    <2> QED
      BY <2>1, <2>2
  <1>6. ASSUME NEW n \in Nodes, Sweep(n) PROVE DeletionJustified'
    <2>1. db[n] \cap expired \in SUBSET Settled'
      BY <1>g DEF Settled
    <2> QED
      BY <1>3, <1>6, <2>1 DEF Sweep, logVars
  <1>7. ASSUME NEW n \in Nodes, Flush(n) PROVE DeletionJustified'
    <2>1. \A p \in proposals' : p \in proposals \/ p.keys = pending[n]
      BY <1>7 DEF Flush, Propose
    <2>2. \A k \in Nodes : pending'[k] \cup flushing'[k] \subseteq pending[k] \cup flushing[k]
      BY <1>7, <1>t DEF Flush
    <2> QED
      BY <1>g, <2>1, <2>2
  <1>8. ASSUME NEW n \in Nodes, FlushOK(n) PROVE DeletionJustified'
    BY <1>8, <1>g, <1>t DEF FlushOK, logVars
  <1>9. ASSUME NEW n \in Nodes, FlushError(n) \/ Restart(n) PROVE DeletionJustified'
    <2>1. StopWaiting(n) /\ proposals \subseteq Proposal
      BY <1>9 DEF FlushError, Restart, TypeOK
    <2>2. \A q \in proposals' : \E p \in proposals : q.op = p.op /\ q.keys = p.keys
      BY <2>1, StopWaitingProposals
    <2>3. \A k \in Nodes : pending'[k] \cup flushing'[k] \subseteq pending[k] \cup flushing[k]
      <3>1. CASE FlushError(n)
        BY <1>t, <3>1 DEF FlushError
      <3>2. CASE Restart(n)
        BY <1>t, <3>2 DEF Restart
      <3> QED
        BY <1>9, <3>1, <3>2
    <2> QED
      BY <1>g, <2>2, <2>3
  <1> HIDE DEF DeletionJustified
  <1>10. ASSUME NEW n \in Nodes, NodeStep(n) PROVE DeletionJustified'
    BY <1>0, <1>2, <1>4, <1>5, <1>6, <1>7, <1>8, <1>9, <1>10, ZenonT(60)
    DEF NodeStep, Elect, LearnLeader, Apply, Subscribe, Disconnect, Nack, StartPass,
        InFlightTimeout, logVars, deleterVars
  <1> QED
    BY <1>0, <1>1, <1>10 DEF Next, PublishError, Expire, vars, logVars, deleterVars

(* A batch is proposed only while it is new, so that one proposal of it    *)
(* exists at most, and commits outside of what is accepted.                *)
LEMMA NextStoredOnce ==
  ASSUME TypeOK, StoredOnce, [Next]_vars
  PROVE  StoredOnce'
  <1>t. /\ proposals \subseteq Proposal
        /\ pub \in [Batches -> {"new", "ok", "open"} \cup Nodes]
        /\ {"new", "ok", "open"} \cap Nodes = {}
        /\ \A a, b \in Batches : a # b => a \cap b = {}
    BY ClusterAssumption DEF TypeOK
  <1> USE DEF StoredOnce
  <1>0. ASSUME UNCHANGED <<proposals, kept, removed>>,
               \A b \in Batches : pub'[b] = "new" <=> pub[b] = "new"
        PROVE  StoredOnce'
    BY <1>0 DEF Accepted
  <1>1. ASSUME NEW p \in proposals, Commit(p) PROVE StoredOnce'
    <2>1. /\ proposals' = proposals \ {p} /\ pub' = pub
          /\ Accepted' \subseteq Accepted \cup (IF p.op = "store" THEN p.keys ELSE {})
      BY <1>1 DEF Commit, Accepted
    <2>2. CASE p.op = "store"
      <3>1. \A b \in Batches : b # p.keys => b \cap Accepted' \subseteq b \cap Accepted
        BY <1>t, <2>1, <2>2
      <3>2. pub[p.keys] # "new"
        BY <2>2
      <3>3. \A q \in proposals' : q.op = "store" => q.keys # p.keys
        BY <2>1, <2>2
      <3> QED
        BY <2>1, <3>1, <3>2, <3>3
    <2>3. CASE p.op # "store"
      BY <2>1, <2>3
    <2> QED
      BY <2>2, <2>3
  <1>2. ASSUME NEW n \in Nodes, NEW b \in Batches, NEW level \in AckLevels,
               Publish(n, b, level)
        PROVE  StoredOnce'
    <2> DEFINE r == [node |-> n, op |-> "store", keys |-> b, waited |-> FALSE]
    <2>1. /\ proposals' = proposals \cup {r} /\ Accepted' = Accepted
          /\ pub[b] = "new" /\ b \cap Accepted = {}
      BY <1>2 DEF Publish, Propose, Accepted
    <2>2. pub'[b] # "new" /\ \A a \in Batches : a # b => pub'[a] = pub[a]
      BY <1>2, <1>t DEF Publish
    <2>3. \A q \in proposals : q.op = "store" => q.keys # b
      BY <2>1
    <2>4. r.op = "store" /\ r.keys = b /\ r.waited = FALSE
      OBVIOUS
    <2> HIDE DEF r
    <2>5. \A p \in proposals' : p.op = "store" =>
             p.keys \in Batches /\ ~p.waited /\ pub'[p.keys] # "new" /\ p.keys \cap Accepted = {}
      BY <2>1, <2>2, <2>4
    <2>6. \A p, q \in proposals' :
             p.op = "store" /\ q.op = "store" /\ p.keys = q.keys => p = q
      BY <2>1, <2>3, <2>4
    <2>7. \A a \in Batches : pub'[a] = "new" => a \cap Accepted = {}
      BY <2>1, <2>2
    <2> QED
      BY <2>1, <2>5, <2>6, <2>7
  <1>3. ASSUME NEW n \in Nodes, Flush(n) PROVE StoredOnce'
    <2>1. \A p \in proposals' : p \in proposals \/ p.op # "store"
      BY <1>3 DEF Flush, Propose
    <2> QED
      BY <1>3, <2>1 DEF Flush, Accepted
  <1>4. ASSUME NEW n \in Nodes, FlushError(n) \/ Restart(n) PROVE StoredOnce'
    <2>1. /\ StopWaiting(n) /\ Accepted' = Accepted
          /\ \A b \in Batches : pub'[b] = "new" <=> pub[b] = "new"
      BY <1>4, <1>t DEF FlushError, Restart, Accepted
    <2>2. \A p \in proposals : p.op = "store" => ~p.waited /\ p \in Proposal
      BY <1>t
    <2>3. \A p \in proposals' : p.op = "store" => p \in proposals
      <3> SUFFICES ASSUME NEW p \in proposals,
                          NEW q, q = IF p.node = n THEN [p EXCEPT !.waited = FALSE] ELSE p,
                          q.op = "store"
                   PROVE  q = p
        BY <2>1 DEF StopWaiting
      <3>1. p \in Proposal
        BY <1>t
      <3>2. p.op = "store" /\ p.waited = FALSE
        BY <2>2, <3>1 DEF Proposal
      <3> QED
        BY <3>1, <3>2 DEF Proposal
    <2> QED
      BY <2>1, <2>3
  <1>5. ASSUME NEW n \in Nodes, Apply(n) PROVE StoredOnce'
    <2>1. \/ pub' = pub
          \/ /\ pub[Head(todo[n]).keys] = n
             /\ pub' = [pub EXCEPT ![Head(todo[n]).keys] = "ok"]
      BY <1>5 DEF Apply
    <2>2. \A b \in Batches : pub'[b] = "new" <=> pub[b] = "new"
      BY <1>t, <2>1
    <2> QED
      BY <1>0, <1>5, <2>2 DEF Apply
  <1>6. ASSUME NEW b \in Batches, PublishError(b) PROVE StoredOnce'
    <2>1. \A a \in Batches : pub'[a] = "new" <=> pub[a] = "new"
      BY <1>6, <1>t DEF PublishError
    <2> QED
      BY <1>0, <1>6, <2>1 DEF PublishError, logVars
  <1>7. CASE UNCHANGED <<proposals, kept, removed, pub>>
    BY <1>0, <1>7
  <1> HIDE DEF StoredOnce
  <1>8. ASSUME NEW n \in Nodes, NodeStep(n) PROVE StoredOnce'
    BY <1>2, <1>3, <1>4, <1>5, <1>7, <1>8, ZenonT(60)
    DEF NodeStep, Elect, LearnLeader, Subscribe, Disconnect, Ack, Nack, StartPass, Visit,
        InFlightTimeout, Sweep, FlushOK, logVars
  <1> QED
    BY <1>1, <1>6, <1>7, <1>8 DEF Next, Expire, vars, logVars

(* Stores, snapshots and consumers have committed messages only, and a     *)
(* batch is answered with success when its entry was applied.              *)
LEMMA NextCommittedOnly ==
  ASSUME TypeOK, CommittedOnly, AckedPublishIsCommitted, [Next]_vars
  PROVE  CommittedOnly' /\ AckedPublishIsCommitted'
  <1> DEFINE Goal == CommittedOnly /\ AckedPublishIsCommitted
  <1>g. Accepted \subseteq Accepted'
    BY Growth
  <1>t. /\ todo \in [Nodes -> Seq(Entry)]
        /\ db \in [Nodes -> SUBSET Messages] /\ scan \in [Nodes -> SUBSET Messages]
        /\ held \in [Nodes -> SUBSET Messages]
        /\ pub \in [Batches -> {"new", "ok", "open"} \cup Nodes]
        /\ {"new", "ok", "open"} \cap Nodes = {}
    BY ClusterAssumption DEF TypeOK
  <1>a. \A b \in Batches : pub[b] = "ok" => b \subseteq Accepted
    BY DEF AckedPublishIsCommitted, Accepted
  <1>b. ASSUME \A b \in Batches : pub'[b] = "ok" => b \subseteq Accepted'
        PROVE  AckedPublishIsCommitted'
    BY <1>b DEF AckedPublishIsCommitted, Accepted
  <1> USE DEF CommittedOnly
  <1>0. ASSUME UNCHANGED todo,
               \A n \in Nodes : db'[n] \cup scan'[n] \cup held'[n] \subseteq
                                  db[n] \cup scan[n] \cup held[n],
               \A b \in Batches : pub'[b] = "ok" => pub[b] = "ok"
        PROVE  Goal'
    BY <1>0, <1>a, <1>b, <1>g
  <1>1. ASSUME NEW p \in proposals, Commit(p) PROVE Goal'
    <2>1. \A n \in Nodes : \E e :
             todo'[n] = Append(todo[n], e) /\ e \in Entry /\ e.op = p.op /\ e.keys = p.keys
      <3>1. p \in Proposal
        BY DEF TypeOK
      <3> SUFFICES ASSUME NEW n \in Nodes
                   PROVE  \E e : todo'[n] = Append(todo[n], e) /\ e \in Entry
                                 /\ e.op = p.op /\ e.keys = p.keys
        OBVIOUS
      <3>2. [op |-> p.op, keys |-> p.keys, waited |-> p.waited /\ n = p.node] \in Entry
        BY <3>1 DEF Proposal, Entry
      <3> QED
        BY <1>1, <3>2 DEF Commit
    <2>2. p.op = "store" => p.keys \subseteq Accepted'
      BY <1>1 DEF Commit, Accepted
    <2>3. \A n \in Nodes : \A i \in DOMAIN todo'[n] :
             todo'[n][i].op = "store" => todo'[n][i].keys \subseteq Accepted'
      <3> SUFFICES ASSUME NEW n \in Nodes, NEW i \in DOMAIN todo'[n],
                          todo'[n][i].op = "store"
                   PROVE  todo'[n][i].keys \subseteq Accepted'
        OBVIOUS
      <3>1. PICK e : todo'[n] = Append(todo[n], e) /\ e \in Entry
                     /\ e.op = p.op /\ e.keys = p.keys
        BY <2>1
      <3>2. \/ i \in DOMAIN todo[n] /\ todo'[n][i] = todo[n][i]
            \/ todo'[n][i] = e
        BY <1>t, <3>1
      <3> QED
        BY <1>g, <2>2, <3>1, <3>2
    <2>4. pub' = pub /\ db' = db /\ scan' = scan /\ held' = held
      BY <1>1 DEF Commit, deliveryVars
    <2> QED
      BY <1>a, <1>b, <1>g, <2>3, <2>4
  <1>2. ASSUME NEW n \in Nodes, Apply(n) PROVE Goal'
    <2> DEFINE e == Head(todo[n])
    <2>1. 1 \in DOMAIN todo[n] /\ e = todo[n][1]
      BY <1>2, <1>t DEF Apply
    <2>2. e.op = "store" => e.keys \subseteq Accepted
      BY <2>1
    <2>3. todo' = [todo EXCEPT ![n] = Tail(todo[n])] /\ scan' = scan /\ held' = held
      BY <1>2 DEF Apply
    <2>4. \A i \in DOMAIN Tail(todo[n]) :
             i + 1 \in DOMAIN todo[n] /\ Tail(todo[n])[i] = todo[n][i + 1]
      BY <1>2, <1>t DEF Apply
    <2>5. \A k \in Nodes : \A i \in DOMAIN todo'[k] :
             todo'[k][i].op = "store" => todo'[k][i].keys \subseteq Accepted
      <3>1. ASSUME NEW i \in DOMAIN todo'[n], todo'[n][i].op = "store"
            PROVE  todo'[n][i].keys \subseteq Accepted
        BY <1>t, <2>3, <2>4, <3>1
      <3> QED
        BY <1>t, <2>3, <3>1
    <2>6. \A k \in Nodes : db'[k] \subseteq Accepted
      <3>1. CASE e.op = "store"
        <4>1. db' = [db EXCEPT ![n] = @ \cup e.keys]
          BY <1>2, <3>1 DEF Apply
        <4> HIDE DEF e
        <4> QED
          BY <1>t, <2>2, <3>1, <4>1
      <3>2. CASE e.op # "store"
        <4>1. db' = [db EXCEPT ![n] = @ \ e.keys]
          BY <1>2, <3>2 DEF Apply
        <4> HIDE DEF e
        <4> QED
          BY <1>t, <4>1
      <3> QED
        BY <3>1, <3>2
    <2>7. \A b \in Batches : pub'[b] = "ok" => b \subseteq Accepted
      <3>1. \/ pub' = pub
            \/ e.op = "store" /\ pub' = [pub EXCEPT ![e.keys] = "ok"]
        BY <1>2 DEF Apply
      <3> HIDE DEF e
      <3> QED
        BY <1>a, <1>t, <2>2, <3>1
    <2> QED
      BY <1>b, <1>g, <2>3, <2>5, <2>6, <2>7
  <1>3. ASSUME NEW n \in Nodes, NEW b \in Batches, NEW level \in AckLevels,
               Publish(n, b, level)
        PROVE  Goal'
    <2>1. \A a \in Batches : pub'[a] = "ok" => pub[a] = "ok"
      BY <1>3, <1>t DEF Publish
    <2> QED
      BY <1>0, <1>3, <2>1 DEF Publish, deliveryVars
  <1>4. ASSUME NEW b \in Batches, PublishError(b) PROVE Goal'
    <2>1. \A a \in Batches : pub'[a] = "ok" => pub[a] = "ok"
      BY <1>4, <1>t DEF PublishError
    <2> QED
      BY <1>0, <1>4, <2>1 DEF PublishError, logVars, deliveryVars
  <1>5. ASSUME NEW n \in Nodes, Disconnect(n) PROVE Goal'
    BY <1>0, <1>5, <1>t DEF Disconnect, logVars
  <1>6. ASSUME NEW n \in Nodes, NEW m \in Messages, Ack(n, m) \/ Nack(n, m) PROVE Goal'
    <2>1. /\ held' = [held EXCEPT ![n] = @ \ {m}]
          /\ UNCHANGED <<todo, db, scan, pub>>
      BY <1>6 DEF Ack, Nack, logVars
    <2> QED
      BY <1>0, <1>t, <2>1
  <1>7. ASSUME NEW n \in Nodes, StartPass(n) PROVE Goal'
    BY <1>0, <1>7, <1>t DEF StartPass, logVars
  <1>8. ASSUME NEW n \in Nodes, NEW m \in Messages, Visit(n, m) PROVE Goal'
    <2>1. /\ m \in scan[n] /\ scan' = [scan EXCEPT ![n] = @ \ {m}]
          /\ held' = held \/ held' = [held EXCEPT ![n] = @ \cup {m}]
          /\ UNCHANGED <<todo, db, pub>>
      BY <1>8 DEF Visit, logVars
    <2>2. \A k \in Nodes : scan'[k] \cup held'[k] \subseteq scan[k] \cup held[k]
      BY <1>t, <2>1
    <2> QED
      BY <1>0, <2>1, <2>2
  <1>9. ASSUME NEW n \in Nodes, FlushError(n) PROVE Goal'
    <2>1. StopWaiting(n) /\ UNCHANGED <<db, scan, held, pub>>
      BY <1>9 DEF FlushError, deliveryVars
    <2> QED
      BY <1>a, <1>b, <1>g, <2>1, StopWaitingEntries
  <1>10. ASSUME NEW n \in Nodes, Restart(n) PROVE Goal'
    <2>1. StopWaiting(n) /\ UNCHANGED db
      BY <1>10 DEF Restart
    <2>2. \A k \in Nodes : scan'[k] \subseteq scan[k] /\ held'[k] \subseteq held[k]
      BY <1>10, <1>t DEF Restart
    <2>3. \A b \in Batches : pub'[b] = "ok" => pub[b] = "ok"
      BY <1>10, <1>t DEF Restart
    <2> QED
      BY <1>a, <1>b, <1>g, <2>1, <2>2, <2>3, StopWaitingEntries, ZenonT(30)
  <1>11. ASSUME UNCHANGED <<todo, db, scan, held, pub>> PROVE Goal'
    BY <1>0, <1>11
  <1> HIDE DEF Goal
  <1>12. ASSUME NEW n \in Nodes, NodeStep(n) PROVE Goal'
    BY <1>2, <1>3, <1>5, <1>6, <1>7, <1>8, <1>9, <1>10, <1>11, <1>12, ZenonT(60)
    DEF NodeStep, Elect, LearnLeader, Subscribe, InFlightTimeout, Sweep, Flush, FlushOK,
        logVars, deliveryVars
  <1> QED
    BY <1>1, <1>4, <1>11, <1>12 DEF Next, Expire, vars, logVars, deliveryVars, Goal

(* The invariant from which the theorems below follow. *)
THEOREM InvCorrect == Spec => [](TypeOK /\ Inv)
  <1>1. TypeOK /\ Inv /\ [Next]_vars => (TypeOK /\ Inv)'
    BY NextType, NextDeletionJustified, NextStoredOnce, NextCommittedOnly DEF Inv
  <1> QED
    BY <1>1, InitType, InitInv, PTL DEF Spec
-----------------------------------------------------------------------------
(* A batch answered with success at the default level is in the replicated *)
(* log (processRaftBatch, SyncPropose), for any failovers and timeouts.    *)
THEOREM PublishCommitted == Spec => []AckedPublishIsCommitted
  <1>1. TypeOK /\ Inv => AckedPublishIsCommitted
    BY DEF Inv
  <1> QED
    BY <1>1, InvCorrect, PTL

(* Consumers, those of a replaced leader included, are handed committed    *)
(* messages only (dispatchAll, dispatchTopic).                             *)
THEOREM DeliveryCommitted == Spec => []DeliveredIsCommitted
  <1>1. TypeOK /\ Inv => DeliveredIsCommitted
    BY DEF Inv, CommittedOnly, DeliveredIsCommitted, Accepted
  <1> QED
    BY <1>1, InvCorrect, PTL

(* The cluster implements the at-least-once queue: every step stores a     *)
(* batch once, settles a message, removes settled ones, or changes nothing *)
(* a client could tell (Update, receiver, sweep, flush).                   *)
THEOREM ClusterIsQueue == Spec => ImplementsQueue
  <1>1. Init => Queue!QueueInit
    BY DEF Init, Queue!QueueInit
  <1>2. ASSUME TypeOK, Inv, [Next]_vars PROVE [Queue!QueueNext]_(Queue!queueVars)
    <2>1. CASE UNCHANGED <<kept, removed, acked, expired>>
      BY <2>1 DEF Queue!queueVars
    <2>2. ASSUME NEW p \in proposals, Commit(p) PROVE Queue!QueueNext
      <3>1. p \in Proposal /\ kept \subseteq Messages /\ UNCHANGED <<acked, expired>>
        BY <1>2, <2>2 DEF TypeOK, Commit, historyVars
      <3>2. CASE p.op = "store"
        <4>1. p.keys \cap (kept \cup removed) = {}
          BY <1>2, <3>2 DEF Inv, StoredOnce, Accepted
        <4>2. kept' = kept \cup p.keys /\ removed' = removed
          BY <2>2, <3>2 DEF Commit
        <4>3. Queue!Accept(p.keys)
          BY <3>1, <4>1, <4>2 DEF Queue!Accept
        <4> QED
          BY <3>1, <4>3 DEF Queue!QueueNext, Proposal
      <3>3. CASE p.op # "store"
        <4> DEFINE ms == kept \cap p.keys
        <4>1. p.op = "delete"
          BY <3>1, <3>3 DEF Proposal
        <4>2. ms \subseteq kept \cap (acked \cup expired)
          BY <1>2, <4>1 DEF Inv, DeletionJustified, Settled
        <4>3. kept' = kept \ ms /\ removed' = removed \cup ms
          BY <2>2, <3>3 DEF Commit
        <4>4. Queue!Remove(ms)
          BY <3>1, <4>2, <4>3 DEF Queue!Remove
        <4> QED
          BY <3>1, <4>4 DEF Queue!QueueNext
      <3> QED
        BY <3>2, <3>3
    <2>3. ASSUME NEW n \in Nodes, NEW m \in Messages, Ack(n, m) PROVE Queue!QueueNext
      <3>1. Queue!Settle({m})
        BY <2>3 DEF Ack, logVars, Queue!Settle
      <3> QED
        BY <3>1 DEF Queue!QueueNext
    <2>4. ASSUME NEW m \in Messages, Expire(m) PROVE Queue!QueueNext
      <3>1. Queue!Settle({m})
        BY <2>4 DEF Expire, logVars, Queue!Settle
      <3> QED
        BY <3>1 DEF Queue!QueueNext
    <2>5. ASSUME NEW n \in Nodes, NodeStep(n) PROVE [Queue!QueueNext]_(Queue!queueVars)
      BY <2>1, <2>3, <2>5, ZenonT(60)
      DEF NodeStep, Elect, LearnLeader, Apply, Publish, Subscribe, Disconnect, Nack,
          StartPass, Visit, InFlightTimeout, Sweep, Flush, FlushOK, FlushError, Restart,
          logVars, historyVars
    <2> QED
      BY <1>2, <2>1, <2>2, <2>4, <2>5 DEF Next, PublishError, vars, logVars, historyVars
  <1> QED
    BY <1>1, <1>2, InvCorrect, PTL DEF Spec, ImplementsQueue, Queue!QueueSpec
=============================================================================
