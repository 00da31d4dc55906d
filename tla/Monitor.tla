------------------------------- MODULE Monitor -------------------------------
(***************************************************************************)
(* The Monitor as a task of the server (internal/corerad/monitor.go):      *)
(* Dialer.Dial in Monitor mode with a closure that runs an errgroup of two *)
(* goroutines, the listener and the link state watcher.                    *)
(***************************************************************************)
EXTENDS Naturals

CONSTANTS
  Retries,   \* receiveRetry's bound
  ReadErrs,  \* kinds of errors of reading from the connection
  WatchCap,  \* capacity of watchC
  Attempts,  \* bound of the Dialer's retry loop
  DialErrs   \* kinds of errors of dialing

ASSUME MonitorAssumption ==
  /\ Retries \in Nat \ {0}
  /\ ReadErrs \subseteq {"syscall", "perm", "other"}
  /\ WatchCap \in Nat
  /\ Attempts \in Nat \ {0}

VARIABLES
  ctx,                               \* the server's context is canceled
  dpc, derr, attempt, dialErr, dret, \* Dial
  conn, leaked, autoconf, prev, base, lost,
  lpc, tries, lerr, intr,            \* the listener
  wpc, changes, wclosed,             \* the link state watcher and watchC
  egErr, ready                       \* the errgroup's error; readyC closed

lsnVars  == <<lpc, tries, lerr, intr>>
linkVars == <<wpc, changes, wclosed>>
dVars    == <<dpc, derr, attempt, dialErr, dret, conn, leaked, autoconf, prev,
              base, lost>>

vars == <<ctx, dVars, lsnVars, linkVars, egErr, ready>>

(* monitor's context.                                                      *)
EgCtx == ctx \/ egErr # "nil"

FnErrs == ReadErrs \cup {"exhausted", "linkChange"}

D == INSTANCE Dialer WITH Advertise <- FALSE
L == INSTANCE Listener WITH lctx <- EgCtx
W == INSTANCE LinkStateWatcher WITH wctx <- EgCtx

ASSUME MonitorDialAssumption == DialErrs \subseteq D!ErrKinds

TypeOK ==
  /\ D!TypeOK /\ L!LTypeOK /\ W!LinkTypeOK
  /\ egErr \in FnErrs \cup {"nil"}
  /\ ready \in BOOLEAN

Init ==
  /\ D!Init
  /\ lpc = "returned" /\ tries = 0 /\ lerr = "nil" /\ intr = "set"
  /\ wpc = "done" /\ changes = 0 /\ wclosed = FALSE
  /\ egErr = "nil" /\ ready = FALSE

-----------------------------------------------------------------------------
(* Dial has a connection: the closure notes readiness and starts monitor.  *)
DialConnects ==
  /\ D!FirstDialOk \/ D!RetryDialOk
  /\ lpc' = "check" /\ tries' = 0 /\ lerr' = "nil" /\ intr' = "waiting"
  /\ wpc' = "select"
  /\ egErr' = "nil"
  /\ ready' = TRUE
  /\ UNCHANGED <<changes, wclosed>>

DialWaits ==
  /\ \/ D!FirstDialFails \/ D!RetryCanceled \/ D!RetryDialFails
     \/ D!RetryTimedOut
  /\ UNCHANGED <<lsnVars, linkVars, egErr, ready>>

(* eg.Wait() returns: an error is the closure's, no error means canceled.  *)
ClosureReturns ==
  /\ dpc = "fn" /\ lpc = "returned" /\ wpc = "done"
  /\ derr' = egErr
  /\ dpc' = "done"
  /\ UNCHANGED <<ctx, attempt, dialErr, dret, conn, leaked, autoconf, prev, base,
                 lost,
                 lsnVars, linkVars, egErr, ready>>

DialCloses ==
  /\ D!Done \/ D!DoneFails
  /\ UNCHANGED <<lsnVars, linkVars, egErr, ready>>

-----------------------------------------------------------------------------
(* onMessage: handle sets metrics, which nothing else reads, and returns   *)
(* nil for an RA and for any other message.                                *)
Handle ==
  /\ dpc = "fn"
  /\ L!CallbackOk
  /\ UNCHANGED <<ctx, dVars, linkVars, egErr, ready>>

EgReturn(e) == egErr' = IF egErr = "nil" THEN e ELSE egErr

ListenerRuns ==
  /\ dpc = "fn"
  /\ \/ (L!Check \/ L!Backoff \/ L!Interrupt \/ L!NetworkStep)
        /\ UNCHANGED egErr
     \/ (L!WaitReturn \/ L!DeferReturn) /\ EgReturn(lerr')
  /\ UNCHANGED <<ctx, dVars, linkVars, ready>>

LinkWatcherRuns ==
  /\ dpc = "fn"
  /\ \/ (W!WatchCanceled \/ W!WatchClosed) /\ UNCHANGED egErr
     \/ W!WatchChanged /\ EgReturn("linkChange")
  /\ UNCHANGED <<ctx, dVars, lsnVars, ready>>

LinkEvents ==
  /\ W!LinkChange \/ W!WatcherHalts
  /\ UNCHANGED <<ctx, dVars, lsnVars, egErr, ready>>

ContextCanceled ==
  /\ D!ContextCanceled
  /\ UNCHANGED <<lsnVars, linkVars, egErr, ready>>

Next ==
  \/ DialConnects \/ DialWaits \/ ClosureReturns \/ DialCloses
  \/ Handle \/ ListenerRuns \/ LinkWatcherRuns
  \/ LinkEvents \/ ContextCanceled

Spec == Init /\ [][Next]_vars

(* Every goroutine runs: Dial's, the listener's, the interrupter's and the *)
(* link state watcher's.  The Dialer's random select is strongly fair.     *)
Fairness ==
  /\ WF_vars(DialConnects \/ DialWaits \/ ClosureReturns \/ DialCloses)
  /\ SF_vars(DialWaits /\ D!RetryCanceled)
  /\ WF_vars(Handle \/ (ListenerRuns /\ L!ListenStep))
  /\ WF_vars(ListenerRuns /\ L!Interrupt)
  /\ WF_vars(LinkWatcherRuns)

FairSpec == Spec /\ Fairness

-----------------------------------------------------------------------------
(* With the Monitor's closure in the place of fn, the task implements the  *)
(* Dialer's specification, fairness included: the closure returns nil only *)
(* when canceled and always returns when canceled, whatever its listener,  *)
(* the interrupter and the link state watcher are in the middle of.        *)
ImplementsDialer == D!FairSpec

(* "Ensure the interrupt goroutine is canceled whether or not ctx itself   *)
(* is canceled": Listen returns its error by itself, without waiting for   *)
(* somebody to cancel it.                                                  *)
ListenErrorReturns == lpc = "defer" ~> lpc = "returned"
=============================================================================
