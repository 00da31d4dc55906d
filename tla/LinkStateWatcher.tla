-------------------------- MODULE LinkStateWatcher --------------------------
(***************************************************************************)
(* The goroutine of the Advertiser's and the Monitor's errgroup that turns *)
(* a link state change into an error (linkStateWatcher,                    *)
(* internal/corerad/server.go), and the channel it reads: the bounded      *)
(* channel that netstate.Watcher.Subscribe returned.                       *)
(*                                                                         *)
(* wctx is the errgroup's context, which the instantiating module defines. *)
(***************************************************************************)
EXTENDS Naturals

CONSTANT WatchCap   \* capacity of the subscription's channel

VARIABLES
  wctx,     \* the errgroup's context is canceled
  wpc,      \* "select" or "done"
  changes,  \* changes buffered in watchC
  wclosed   \* watchC is closed

linkVars == <<wpc, changes, wclosed>>

LinkTypeOK ==
  /\ wctx \in BOOLEAN
  /\ wpc \in {"select", "done"}
  /\ changes \in 0..WatchCap
  /\ wclosed \in BOOLEAN

LinkInit ==
  /\ wpc = "select"
  /\ changes = 0
  /\ wclosed = FALSE

(* The Watcher reports a change; it is dropped when the channel is full.   *)
LinkChange ==
  /\ ~wclosed
  /\ changes < WatchCap
  /\ changes' = changes + 1
  /\ UNCHANGED <<wpc, wclosed>>

(* The Watcher stops, or is not available here, and closes the channel.    *)
WatcherHalts ==
  /\ ~wclosed
  /\ wclosed' = TRUE
  /\ UNCHANGED <<wpc, changes>>

(* A loop over the channel that ends only when it is closed.               *)
WatchUntilClosed ==
  /\ wpc = "select"
  /\ wctx /\ wclosed
  /\ wpc' = "done"
  /\ UNCHANGED <<changes, wclosed>>

(* The select picks the cancelation.  Returns nil.                         *)
WatchCanceled ==
  /\ wpc = "select"
  /\ wctx
  /\ wpc' = "done"
  /\ UNCHANGED <<changes, wclosed>>

(* The select picks a change.  Returns ErrLinkChange.                      *)
WatchChanged ==
  /\ wpc = "select"
  /\ changes > 0
  /\ changes' = changes - 1
  /\ wpc' = "done"
  /\ UNCHANGED wclosed

(* The channel is closed and drained.  Returns nil.                        *)
WatchClosed ==
  /\ wpc = "select"
  /\ wclosed
  /\ changes = 0
  /\ wpc' = "done"
  /\ UNCHANGED <<changes, wclosed>>
=============================================================================
