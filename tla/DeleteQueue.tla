----------------------------- MODULE DeleteQueue -----------------------------
(***************************************************************************)
(* What the deleter (internal/dispatcher/deleter.go) does to the store,    *)
(* with its queues seen as sets: neither the deletion of a batch of keys   *)
(* nor the OnDelete callback depends on the order of the keys, and a key   *)
(* marked twice is deleted once.  Module Deleter has the queues as the     *)
(* slices they are and is shown to implement this specification.           *)
(***************************************************************************)
CONSTANT IDs  \* the storage keys

VARIABLES
    stored,    \* keys present in storage
    pending,   \* Deleter.pending
    flushing,  \* keysToFlush of the running flush, those not yet notified
    delPhase   \* where the flush is: "idle", "deleting" or "notifying"

delVars == <<stored, pending, flushing, delPhase>>

DeleteTypeOK ==
    /\ stored \subseteq IDs
    /\ pending \subseteq IDs
    /\ flushing \subseteq IDs
    /\ delPhase \in {"idle", "deleting", "notifying"}

DeleteInit ==
    /\ stored = {}
    /\ pending = {}
    /\ flushing = {}
    /\ delPhase = "idle"

(* MarkDeleted: called by the consumer handlers, the dispatcher and the    *)
(* janitor.                                                                *)
MarkDeleted(k) == pending' = pending \cup {k}

(* flush, first critical section: take everything that is pending. *)
FlushDrain ==
    /\ delPhase = "idle"
    /\ pending # {}
    /\ flushing' = pending
    /\ pending' = {}
    /\ delPhase' = "deleting"
    /\ UNCHANGED stored

(* flush: the backend removed the batch. *)
DeleteKeysOK ==
    /\ delPhase = "deleting"
    /\ stored' = stored \ flushing
    /\ delPhase' = "notifying"
    /\ UNCHANGED <<pending, flushing>>

(* A faulty variant: the batch that failed is dropped. *)
DeleteKeysDropping ==
    /\ delPhase = "deleting"
    /\ flushing' = {}
    /\ delPhase' = "idle"
    /\ UNCHANGED <<stored, pending>>

(* flush: the backend failed and the batch is re-enqueued for the next     *)
(* flush.  A proposal that timed out may have removed it nevertheless.     *)
DeleteKeysError ==
    /\ delPhase = "deleting"
    /\ stored' \in {stored, stored \ flushing}
    /\ pending' = flushing \cup pending
    /\ flushing' = {}
    /\ delPhase' = "idle"

(* flush: OnDelete(k); k stays in the batch if it was marked twice. *)
NotifyDelete(k, rest) ==
    /\ delPhase = "notifying"
    /\ k \in flushing
    /\ rest \in {flushing, flushing \ {k}}
    /\ flushing' = rest
    /\ delPhase' = IF rest = {} THEN "idle" ELSE "notifying"
    /\ UNCHANGED <<stored, pending>>
-----------------------------------------------------------------------------
(* The queue on its own, with keys stored and marked by an environment.    *)
PutKey(k) ==
    /\ stored' = stored \cup {k}
    /\ UNCHANGED <<pending, flushing, delPhase>>

Mark(k) == MarkDeleted(k) /\ UNCHANGED <<stored, flushing, delPhase>>

DeleteNext ==
    \/ \E k \in IDs : PutKey(k) \/ Mark(k)
    \/ FlushDrain
    \/ DeleteKeysOK
    \/ DeleteKeysError
    \/ \E k \in IDs, rest \in SUBSET IDs : NotifyDelete(k, rest)

DeleteSpec == DeleteInit /\ [][DeleteNext]_delVars
=============================================================================
