--------------------------- MODULE AdvertiserTask ---------------------------
(***************************************************************************)
(* The Advertiser as a task of the server (Advertiser.Run): Dialer.Dial    *)
(* with the closure that module Advertiser describes, over any number of   *)
(* incarnations, beside signalTask and the channel of link state changes,  *)
(* which outlives the incarnations.                                        *)
(*                                                                         *)
(* Workers of an earlier incarnation can only fail on their closed         *)
(* connection and then block for ever on an errC nobody reads; they are    *)
(* dropped when the next incarnation starts.                               *)
(***************************************************************************)
EXTENDS Advertiser

CONSTANTS Attempts, DialErrs

VARIABLES dpc, derr, attempt, dialErr, dret, leaked, autoconf, prev, base, lost

(* Everything of the Dialer's but the connection, which is shared.         *)
dVars == <<dpc, derr, attempt, dialErr, dret, leaked, autoconf, prev, base,
           lost>>

taskVars == <<vars, dVars>>

D == INSTANCE Dialer WITH ctx <- S!ctx, Advertise <- TRUE, FnErrs <- ErrKinds

ASSUME TaskAssumption ==
  /\ Attempts \in Nat \ {0}
  /\ DialErrs \subseteq D!ErrKinds

(* No incarnation yet.                                                     *)
TaskInit ==
  /\ S!SigInit
  /\ W!LinkInit
  /\ D!DialInit
  /\ main = "closed" /\ result = "none" /\ ready = FALSE /\ final = FALSE
  /\ egErr = "nil" /\ ipC = <<>> /\ asked = [d \in Dst |-> 0]
  /\ sched = "done" /\ serr = "nil" /\ mcast = "done" /\ ticks = 0
  /\ lpc = "returned" /\ tries = 0 /\ lerr = "nil" /\ intr = "set"
  /\ lip = "none" /\ msgs = 0
  /\ sg = "stopped"
  /\ pending = [d \in Dst |-> 0] /\ running = [d \in Dst |-> 0]
  /\ sent = [d \in Dst |-> 0] /\ failed = [d \in Dst |-> 0]
  /\ lastRA = "none"

(* A new incarnation: fresh goroutines, channels and schedgroup.           *)
Restart ==
  /\ main' = "init" /\ result' = "none" /\ final' = FALSE
  /\ egErr' = "nil" /\ ipC' = <<>> /\ asked' = [d \in Dst |-> 0]
  /\ sched' = "select" /\ serr' = "nil"
  /\ mcast' = (IF UnicastOnly THEN "done" ELSE "check") /\ ticks' = 0
  /\ lpc' = "check" /\ tries' = 0 /\ lerr' = "nil" /\ intr' = "waiting"
  /\ lip' = "none"
  /\ wpc' = "select"
  /\ sg' = "running"
  /\ pending' = [d \in Dst |-> 0] /\ running' = [d \in Dst |-> 0]
  /\ sent' = [d \in Dst |-> 0] /\ failed' = [d \in Dst |-> 0]

(* Dial has a connection: the closure starts with goroutines of its own.   *)
DialConnects ==
  /\ UNCHANGED <<sigVars, ready, msgs, changes, wclosed, lastRA>>
  /\ D!FirstDialOk \/ D!RetryDialOk
  /\ Restart

(* Dial has none, and tries again or returns.                              *)
DialWaits ==
  /\ UNCHANGED vars
  /\ \/ D!FirstDialFails \/ D!RetryCanceled \/ D!RetryDialFails
     \/ D!RetryTimedOut

(* The closure's result reaches Dial.                                      *)
ClosureReturns ==
  /\ dpc = "fn" /\ main = "returned"
  /\ derr' = result
  /\ dpc' = "done"
  /\ UNCHANGED <<vars, attempt, dialErr, dret, leaked, autoconf, prev, base,
                 lost>>

(* Dial closes the connection and goes round its loop, or returns.         *)
DialCloses ==
  /\ main = "returned"
  /\ main' = "closed"
  /\ UNCHANGED <<sigVars, result, ready, final, egErr, chVars, schedVars,
                 mcVars, lsnVars, cbVars, linkVars, sgVars, lastRA>>
  /\ D!Done \/ D!DoneFails

(* The link changes, or its watcher halts, at any time.                    *)
LinkEvents ==
  /\ W!LinkChange \/ W!WatcherHalts
  /\ UNCHANGED <<sigVars, mainVars, egErr, chVars, schedVars, mcVars, lsnVars,
                 cbVars, sgVars, wireVars>>

Environment == (ServerRuns \/ LinkEvents) /\ UNCHANGED dVars

TaskNext ==
  \/ DialConnects \/ DialWaits \/ ClosureReturns \/ DialCloses
  \/ Run /\ UNCHANGED dVars
  \/ Environment

TaskSpec == TaskInit /\ [][TaskNext]_taskVars

-----------------------------------------------------------------------------
(* The Advertiser is a function as Dial expects it: with it in the place   *)
(* of fn, the task behaves as the Dialer's own specification says.         *)
RefinesDialer == D!Spec

(* A reload never withdraws the default route: over all incarnations,      *)
(* shutdown's RA with a lifetime of zero goes out only after a terminal    *)
(* signal.  (The ordinary RA of an interface that does not forward has a   *)
(* lifetime of zero too; it is no "zero" here.)                            *)
ZeroOnlyIfTerminal == lastRA = "zero" => S!isTerminal(sig) /\ sig # "none"
=============================================================================
