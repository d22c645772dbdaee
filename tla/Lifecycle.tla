------------------------------ MODULE Lifecycle ------------------------------
(***************************************************************************)
(* The goroutines of a broker process as start.go sets them up, and how    *)
(* the process stops: WithGracefulShutdown (internal/app/app.go) opens a   *)
(* shutdown window, cancels the application context, waits for the         *)
(* registered components or for the end of the window, and closes the      *)
(* NodeHost and the store.                                                 *)
(*                                                                         *)
(* The deleter is module Deleter.  Of the dispatcher, the TTL janitor and  *)
(* the state machine it matters here when they use the store and what they *)
(* mark as deleted; of the gRPC server, its stop and one stream, whose     *)
(* handler stores and acknowledges messages.  Go's select takes any ready  *)
(* branch, so a loop may make another pass after the context is cancelled. *)
(***************************************************************************)
EXTENDS Deleter

CONSTANT Passes  \* loops that make passes over the store: dispatcher, janitor

Loops == Passes \cup {"metrics"}

VARIABLES
    raftEnabled,  \* cfg.Raft.Enabled
    phase,        \* where the main goroutine is
    shutCtx,      \* App.ShutCtx: "nil", "open" or "expired"
    loops,        \* the other component goroutines: "idle", "busy" or "done"
    grpc,         \* the server and its component: "serving", "stopping", "done"
    stream,       \* a client's stream: "none", "open", or "busy" in the handler
    applying,     \* the state machine is in Update
    nodeHost,     \* "open" or "closed"
    db,           \* "open" or "closed"
    markedBefore  \* history: marks at the time of the cancellation

lifeVars == <<raftEnabled, phase, shutCtx, loops, grpc, stream, applying,
              nodeHost, db, markedBefore>>
vars == <<deleterVars, lifeVars>>

Alive == phase # "exited"

Init ==
    /\ DeleterInit
    /\ raftEnabled \in BOOLEAN
    /\ phase = "running"
    /\ shutCtx = "nil"
    /\ loops = [c \in Loops |-> "idle"]
    /\ grpc = "serving"
    /\ stream = "none"
    /\ applying = FALSE
    /\ nodeHost = IF raftEnabled THEN "open" ELSE "closed"
    /\ db = "open"
    /\ markedBefore = 0
-----------------------------------------------------------------------------
(* WithGracefulShutdown, in the main goroutine. *)

(* A faulty variant: the context is cancelled before the window is there. *)
SignalCancelFirst ==
    /\ phase = "running"
    /\ phase' = "signalled"
    /\ Cancel
    /\ markedBefore' = Len(marks)
    /\ UNCHANGED <<raftEnabled, shutCtx, loops, grpc, stream, applying, nodeHost, db>>

(* The signal arrives: the shutdown window is opened. *)
Signal ==
    /\ phase = "running"
    /\ phase' = "signalled"
    /\ shutCtx' = "open"
    /\ UNCHANGED <<deleterVars, raftEnabled, loops, grpc, stream, applying,
                   nodeHost, db, markedBefore>>

CancelAll ==
    /\ phase = "signalled"
    /\ phase' = "waiting"
    /\ Cancel
    /\ markedBefore' = Len(marks)
    /\ UNCHANGED <<raftEnabled, shutCtx, loops, grpc, stream, applying, nodeHost, db>>

(* gracefulShutdownTimeout. *)
Expire ==
    /\ Alive
    /\ shutCtx = "open"
    /\ shutCtx' = "expired"
    /\ UNCHANGED <<deleterVars, raftEnabled, phase, loops, grpc, stream,
                   applying, nodeHost, db, markedBefore>>

(* Every component has called ComponentShutdownDone. *)
AllDone ==
    /\ loop = "stopped"
    /\ \A c \in Loops : loops[c] = "done"
    /\ grpc = "done"

(* A faulty variant: only the goroutines are waited for, not the server. *)
WaitLoops ==
    /\ phase = "waiting"
    /\ loop = "stopped"
    /\ \A c \in Loops : loops[c] = "done"
    /\ phase' = "closing"
    /\ UNCHANGED <<deleterVars, raftEnabled, shutCtx, loops, grpc, stream,
                   applying, nodeHost, db, markedBefore>>

(* A faulty variant: the window is not looked at. *)
WaitForever ==
    /\ phase = "waiting"
    /\ AllDone
    /\ phase' = "closing"
    /\ UNCHANGED <<deleterVars, raftEnabled, shutCtx, loops, grpc, stream,
                   applying, nodeHost, db, markedBefore>>

Wait ==
    /\ phase = "waiting"
    /\ AllDone \/ shutCtx = "expired"
    /\ phase' = "closing"
    /\ UNCHANGED <<deleterVars, raftEnabled, shutCtx, loops, grpc, stream,
                   applying, nodeHost, db, markedBefore>>

(* NodeHost.Close waits for its state machines; without Raft there is none. *)
CloseNodeHost ==
    /\ phase = "closing"
    /\ ~applying
    /\ phase' = "closingDB"
    /\ nodeHost' = "closed"
    /\ UNCHANGED <<deleterVars, raftEnabled, shutCtx, loops, grpc, stream,
                   applying, db, markedBefore>>

(* DB.Flush, then DB.Close; their errors are logged. *)
CloseDB ==
    /\ phase = "closingDB"
    /\ phase' = "closed"
    /\ db' = "closed"
    /\ UNCHANGED <<deleterVars, raftEnabled, shutCtx, loops, grpc, stream,
                   applying, nodeHost, markedBefore>>

Exit ==
    /\ phase = "closed"
    /\ phase' = "exited"
    /\ UNCHANGED <<deleterVars, raftEnabled, shutCtx, loops, grpc, stream,
                   applying, nodeHost, db, markedBefore>>
-----------------------------------------------------------------------------
(* The loops of dispatcher, janitor and metrics server. *)
BeginPass(c) ==
    /\ Alive
    /\ c \in Passes /\ loops[c] = "idle"
    /\ loops' = [loops EXCEPT ![c] = "busy"]
    /\ UNCHANGED <<deleterVars, raftEnabled, phase, shutCtx, grpc, stream,
                   applying, nodeHost, db, markedBefore>>

(* A pass marks the expired messages it meets. *)
MarkExpired(c, k) ==
    /\ Alive
    /\ loops[c] = "busy"
    /\ k \in stored
    /\ MarkDeleted(k)
    /\ UNCHANGED lifeVars

EndPass(c) ==
    /\ Alive
    /\ loops[c] = "busy"
    /\ loops' = [loops EXCEPT ![c] = "idle"]
    /\ UNCHANGED <<deleterVars, raftEnabled, phase, shutCtx, grpc, stream,
                   applying, nodeHost, db, markedBefore>>

StopLoop(c) ==
    /\ Alive
    /\ cancelled
    /\ loops[c] = "idle"
    /\ loops' = [loops EXCEPT ![c] = "done"]
    /\ UNCHANGED <<deleterVars, raftEnabled, phase, shutCtx, grpc, stream,
                   applying, nodeHost, db, markedBefore>>
-----------------------------------------------------------------------------
(* The deleter.  Without Raft its backend writes to the store.  With Raft  *)
(* it proposes under the application context, so its final flush is told   *)
(* that it failed.                                                         *)
BackendOpen == IF raftEnabled THEN nodeHost = "open" ELSE db = "open"

DeleterStep ==
    /\ Alive
    /\ \/ TickFlush
       \/ FinalFlush
       \/ DeleteKeysOK /\ BackendOpen /\ ~(raftEnabled /\ loop = "final")
       \/ DeleteKeysError
       \/ OnDelete
    /\ UNCHANGED lifeVars

(* The state machine applies a command; NodeHost.Close lets no new one     *)
(* begin.                                                                  *)
BeginUpdate ==
    /\ raftEnabled /\ nodeHost = "open" /\ ~applying
    /\ phase # "closing"
    /\ applying' = TRUE
    /\ UNCHANGED <<deleterVars, raftEnabled, phase, shutCtx, loops, grpc, stream,
                   nodeHost, db, markedBefore>>

EndUpdate ==
    /\ Alive
    /\ applying
    /\ applying' = FALSE
    /\ UNCHANGED <<deleterVars, raftEnabled, phase, shutCtx, loops, grpc, stream,
                   nodeHost, db, markedBefore>>
-----------------------------------------------------------------------------
(* The gRPC server.  A stream is opened while it serves. *)
OpenStream ==
    /\ Alive
    /\ grpc = "serving" /\ stream = "none"
    /\ stream' = "open"
    /\ UNCHANGED <<deleterVars, raftEnabled, phase, shutCtx, loops, grpc,
                   applying, nodeHost, db, markedBefore>>

BeginRequest ==
    /\ Alive
    /\ stream = "open"
    /\ stream' = "busy"
    /\ UNCHANGED <<deleterVars, raftEnabled, phase, shutCtx, loops, grpc,
                   applying, nodeHost, db, markedBefore>>

(* The handler stores a message under a new key, or a message that was     *)
(* sent to the client is acknowledged, perhaps once more, or the request   *)
(* is refused.  After Stop there is no stream to go on with.               *)
EndRequest ==
    /\ Alive
    /\ stream = "busy"
    /\ \/ \E k \in IDs \ Range(marks) : PutKey(k)
       \/ \E k \in stored \cup Range(marks) : MarkDeleted(k)
       \/ UNCHANGED deleterVars
    /\ stream' = IF grpc = "done" THEN "none" ELSE "open"
    /\ UNCHANGED <<raftEnabled, phase, shutCtx, loops, grpc, applying, nodeHost,
                   db, markedBefore>>

CloseStream ==
    /\ Alive
    /\ stream = "open"
    /\ stream' = "none"
    /\ UNCHANGED <<deleterVars, raftEnabled, phase, shutCtx, loops, grpc,
                   applying, nodeHost, db, markedBefore>>

(* WaitForShutdown: read App.ShutCtx and begin GracefulStop. *)
BeginGracefulStop ==
    /\ Alive
    /\ cancelled
    /\ grpc = "serving"
    /\ grpc' = "stopping"
    /\ UNCHANGED <<deleterVars, raftEnabled, phase, shutCtx, loops, stream,
                   applying, nodeHost, db, markedBefore>>

(* GracefulStop returns when no stream is left; at the end of the window   *)
(* Stop closes the streams and does not wait for their handlers.           *)
EndGracefulStop ==
    /\ Alive
    /\ grpc = "stopping"
    /\ \/ stream = "none" /\ UNCHANGED stream
       \/ shutCtx = "expired" /\ stream' = IF stream = "open" THEN "none" ELSE stream
    /\ grpc' = "done"
    /\ UNCHANGED <<deleterVars, raftEnabled, phase, shutCtx, loops, applying,
                   nodeHost, db, markedBefore>>
-----------------------------------------------------------------------------
Next ==
    \/ Signal
    \/ CancelAll
    \/ Expire
    \/ Wait
    \/ CloseNodeHost
    \/ CloseDB
    \/ Exit
    \/ \E c \in Loops :
          \/ BeginPass(c)
          \/ \E k \in IDs : MarkExpired(c, k)
          \/ EndPass(c)
          \/ StopLoop(c)
    \/ DeleterStep
    \/ BeginUpdate
    \/ EndUpdate
    \/ OpenStream
    \/ BeginRequest
    \/ EndRequest
    \/ CloseStream
    \/ BeginGracefulStop
    \/ EndGracefulStop

Spec == Init /\ [][Next]_vars

(* The clock runs, the main goroutine goes on, and the state machine       *)
(* finishes its command.  Components and clients owe nothing.              *)
Fairness ==
    /\ WF_vars(CancelAll) /\ WF_vars(Expire) /\ WF_vars(Wait)
    /\ WF_vars(CloseNodeHost) /\ WF_vars(CloseDB) /\ WF_vars(Exit)
    /\ WF_vars(EndUpdate)

FairSpec == Spec /\ Fairness
-----------------------------------------------------------------------------
(* Type invariant. *)
TypeOK ==
    /\ DeleterTypeOK
    /\ raftEnabled \in BOOLEAN
    /\ phase \in {"running", "signalled", "waiting", "closing", "closingDB",
                  "closed", "exited"}
    /\ shutCtx \in {"nil", "open", "expired"}
    /\ loops \in [Loops -> {"idle", "busy", "done"}]
    /\ grpc \in {"serving", "stopping", "done"}
    /\ stream \in {"none", "open", "busy"}
    /\ applying \in BOOLEAN
    /\ nodeHost \in {"open", "closed"} /\ db \in {"open", "closed"}
    /\ markedBefore \in 0 .. Len(marks)

(* WaitForShutdown reads App.ShutCtx, which nothing protects, when the     *)
(* context has been cancelled: the window has always been opened by then.  *)
ShutCtxIsSet == grpc # "serving" => shutCtx # "nil"

(* Nobody uses the store once it is closed: never the state machine, and,  *)
(* unless the window was exhausted, no component and no handler either.    *)
StoreClosedQuietly ==
    db = "closed" =>
        /\ ~applying
        /\ shutCtx = "open" =>
              /\ pc # "deleting"
              /\ \A c \in Loops : loops[c] # "busy"
              /\ stream # "busy"

(* What had been acknowledged when the process was told to stop is gone    *)
(* from the store when the deleter is done, if its backend never failed:   *)
(* the final flush takes the marks that no tick has come for.              *)
AcksBeforeStopFlushed ==
    loop = "stopped" /\ errors = 0 =>
        \A i \in 1 .. markedBefore : marks[i] \notin stored

(* A process that was told to stop exits, whatever its components do and   *)
(* however long clients keep their streams open.                           *)
ShutdownTerminates == phase = "signalled" ~> phase = "exited"
=============================================================================
