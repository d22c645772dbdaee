----------------------------- MODULE AtLeastOnce -----------------------------
(***************************************************************************)
(* What FutureQ promises its producers and consumers, with storage,        *)
(* threads, nodes and proposals left out: a batch is accepted as a whole   *)
(* and once; a message that was accepted is kept until it is settled,      *)
(* which is to say acknowledged or expired, and once removed it does not   *)
(* come back.  The delivery path of a standalone node (Broker) and the     *)
(* cluster across failovers (Cluster) are shown to implement it.           *)
(***************************************************************************)
CONSTANT Messages

VARIABLES
    kept,     \* accepted and not removed
    removed,  \* accepted and removed
    settled   \* acknowledged or expired

queueVars == <<kept, removed, settled>>

QueueInit ==
    /\ kept = {}
    /\ removed = {}
    /\ settled = {}

(* A batch is accepted; a message may have expired by then. *)
Accept(batch) ==
    /\ batch \cap (kept \cup removed) = {}
    /\ kept' = kept \cup batch
    /\ \E late \in SUBSET batch : settled' = settled \cup late
    /\ UNCHANGED removed

Settle(ms) ==
    /\ settled' = settled \cup ms
    /\ UNCHANGED <<kept, removed>>

(* A process that stops may forget acknowledgements of what it keeps. *)
Forget(ms) ==
    /\ ms \subseteq kept
    /\ settled' = settled \ ms
    /\ UNCHANGED <<kept, removed>>

Remove(ms) ==
    /\ ms \subseteq kept \cap settled
    /\ kept' = kept \ ms
    /\ removed' = removed \cup ms
    /\ UNCHANGED settled

QueueNext ==
    \E ms \in SUBSET Messages :
        \/ Accept(ms)
        \/ Settle(ms)
        \/ Forget(ms)
        \/ Remove(ms)

QueueSpec == QueueInit /\ [][QueueNext]_queueVars
=============================================================================
