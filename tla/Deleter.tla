------------------------------- MODULE Deleter -------------------------------
(***************************************************************************)
(* internal/dispatcher/deleter.go with its queues as the slices they are:  *)
(* MarkDeleted, called by many goroutines, the Run loop with its final     *)
(* flush, and flush with the failing and the succeeding backend.  The      *)
(* mutex makes each append to, drain of and re-enqueue into pending one    *)
(* step; the backend call and the OnDelete loop run outside of it.         *)
(*                                                                         *)
(* Implements DeleteQueue, which module Broker is built on.                *)
(***************************************************************************)
EXTENDS Integers, Sequences, Functions

CONSTANTS
    IDs,       \* storage keys
    MaxMarks,  \* bound: calls of MarkDeleted
    MaxErrors  \* bound: failures of the backend, the final flush apart

ASSUME DeleterAssumption == MaxMarks \in Nat /\ MaxErrors \in Nat

VARIABLES
    stored,       \* keys present in storage
    pending,      \* Deleter.pending
    keysToFlush,  \* flush: keysToFlush, empty outside of it
    next,         \* flush: position of the OnDelete loop
    pc,           \* flush: "idle", "deleting" or "notifying"
    loop,         \* Run: "running", "final" (its last flush) or "stopped"
    cancelled,    \* the context of Run
    marks,        \* history: the keys marked, in order
    notified,     \* history: the keys passed to OnDelete, in order
    errors

deleterVars == <<stored, pending, keysToFlush, next, pc, loop, cancelled, marks,
                 notified, errors>>

DeleterInit ==
    /\ stored = {}
    /\ pending = <<>>
    /\ keysToFlush = <<>>
    /\ next = 1
    /\ pc = "idle"
    /\ loop = "running"
    /\ cancelled = FALSE
    /\ marks = <<>>
    /\ notified = <<>>
    /\ errors = 0

(* Run after a flush: the final one is followed by the return. *)
AfterFlush == loop' = IF loop = "final" THEN "stopped" ELSE loop
-----------------------------------------------------------------------------
(* Environment: messages are published, the process is told to stop. *)
PutKey(k) ==
    /\ k \notin stored
    /\ stored' = stored \cup {k}
    /\ UNCHANGED <<pending, keysToFlush, next, pc, loop, cancelled, marks,
                   notified, errors>>

Cancel ==
    /\ ~cancelled
    /\ cancelled' = TRUE
    /\ UNCHANGED <<stored, pending, keysToFlush, next, pc, loop, marks,
                   notified, errors>>
-----------------------------------------------------------------------------
MarkDeleted(k) ==
    /\ Len(marks) < MaxMarks
    /\ pending' = Append(pending, k)
    /\ marks' = Append(marks, k)
    /\ UNCHANGED <<stored, keysToFlush, next, pc, loop, cancelled, notified,
                   errors>>

(* A faulty variant: an empty queue is flushed too. *)
DrainAlways ==
    /\ keysToFlush' = pending
    /\ pending' = <<>>
    /\ pc' = "deleting"

(* flush, first critical section; an empty queue is left alone. *)
Drain ==
    /\ pending # <<>>
    /\ keysToFlush' = pending
    /\ pending' = <<>>
    /\ pc' = "deleting"

TickFlush ==
    /\ loop = "running" /\ pc = "idle"
    /\ Drain
    /\ UNCHANGED <<stored, next, loop, cancelled, marks, notified, errors>>

(* A faulty variant: Run returns as soon as its context is cancelled. *)
StopWithoutFlush ==
    /\ loop = "running" /\ pc = "idle"
    /\ cancelled
    /\ loop' = "stopped"
    /\ UNCHANGED <<stored, pending, keysToFlush, next, pc, cancelled, marks,
                   notified, errors>>

FinalFlush ==
    /\ loop = "running" /\ pc = "idle"
    /\ cancelled
    /\ IF pending = <<>>
         THEN /\ loop' = "stopped"
              /\ UNCHANGED <<pending, keysToFlush, pc>>
         ELSE /\ loop' = "final"
              /\ Drain
    /\ UNCHANGED <<stored, next, cancelled, marks, notified, errors>>

(* A faulty variant: the first key is left out of the batch. *)
DeleteKeysPartial ==
    /\ pc = "deleting"
    /\ stored' = stored \ Range(Tail(keysToFlush))
    /\ pc' = "notifying"
    /\ UNCHANGED <<pending, keysToFlush, next, loop, cancelled, marks, notified,
                   errors>>

(* The backend has removed the keys, all in one batch. *)
DeleteKeysOK ==
    /\ pc = "deleting"
    /\ stored' = stored \ Range(keysToFlush)
    /\ pc' = "notifying"
    /\ UNCHANGED <<pending, keysToFlush, next, loop, cancelled, marks, notified,
                   errors>>

(* A faulty variant: the failed keys go behind the newer ones. *)
DeleteKeysErrorBehind ==
    /\ pc = "deleting"
    /\ errors < MaxErrors \/ loop = "final"
    /\ errors' = errors + 1
    /\ pending' = pending \o keysToFlush
    /\ keysToFlush' = <<>>
    /\ stored' \in {stored, stored \ Range(keysToFlush)}
    /\ pc' = "idle"
    /\ AfterFlush
    /\ UNCHANGED <<next, cancelled, marks, notified>>

(* The backend has failed: the keys are re-enqueued before those marked    *)
(* in the meantime.  A proposal that timed out may have removed them       *)
(* nevertheless.                                                           *)
DeleteKeysError ==
    /\ pc = "deleting"
    /\ errors < MaxErrors \/ loop = "final"
    /\ errors' = errors + 1
    /\ pending' = keysToFlush \o pending
    /\ keysToFlush' = <<>>
    /\ stored' \in {stored, stored \ Range(keysToFlush)}
    /\ pc' = "idle"
    /\ AfterFlush
    /\ UNCHANGED <<next, cancelled, marks, notified>>

(* One call of OnDelete. *)
OnDelete ==
    /\ pc = "notifying"
    /\ notified' = Append(notified, keysToFlush[next])
    /\ IF next < Len(keysToFlush)
         THEN /\ next' = next + 1
              /\ UNCHANGED <<keysToFlush, pc, loop>>
         ELSE /\ next' = 1
              /\ keysToFlush' = <<>>
              /\ pc' = "idle"
              /\ AfterFlush
    /\ UNCHANGED <<stored, pending, cancelled, marks, errors>>

DeleterNext ==
    \/ \E k \in IDs : PutKey(k)
    \/ Cancel
    \/ \E k \in IDs : MarkDeleted(k)
    \/ TickFlush
    \/ FinalFlush
    \/ DeleteKeysOK
    \/ DeleteKeysError
    \/ OnDelete

DeleterSpec == DeleterInit /\ [][DeleterNext]_deleterVars
-----------------------------------------------------------------------------
(* Type invariant. *)
DeleterTypeOK ==
    /\ stored \subseteq IDs
    /\ pending \in Seq(IDs) /\ keysToFlush \in Seq(IDs)
    /\ marks \in Seq(IDs) /\ notified \in Seq(IDs)
    /\ next \in Nat
    /\ pc \in {"idle", "deleting", "notifying"}
    /\ pc # "idle" => next \in DOMAIN keysToFlush
    /\ loop \in {"running", "final", "stopped"}
    /\ cancelled \in BOOLEAN
    /\ errors \in Nat

(* The keys of the running flush that OnDelete has not been called for. *)
Unnotified == SubSeq(keysToFlush, next, Len(keysToFlush))

(* No mark is lost, duplicated or overtaken, through failed flushes, marks *)
(* that arrive during a flush and the final flush: what was notified, is   *)
(* being flushed and is pending is what was marked, in that order.         *)
MarksInOrder == notified \o Unnotified \o pending = marks

Queue == INSTANCE DeleteQueue
             WITH pending <- Range(pending), flushing <- Range(Unnotified),
                  delPhase <- pc

(* The slices implement the sets of DeleteQueue, flush by flush. *)
ImplementsDeleteQueue == Queue!DeleteSpec
=============================================================================
