------------------------------- MODULE Server -------------------------------
(***************************************************************************)
(* Server.Serve (internal/corerad/server.go): an errgroup of tasks that    *)
(* stop together, on a signal or on the first error, and the readiness     *)
(* notification once all of them have started.                             *)
(*                                                                         *)
(* The debug HTTP server (httpTask, serve) and signalTask are modelled in  *)
(* full.  Of the Advertisers and Monitors only their results are kept:     *)
(* they return nil only when the context is canceled, and they return once *)
(* it is, except for an Advertiser that is blocked for ever on its full    *)
(* ipC (see Advertiser).  watcherTask may return nil at any time, where    *)
(* netlink is not available.                                               *)
(***************************************************************************)
EXTENDS Naturals

CONSTANTS
  Ifaces,    \* the Advertiser and Monitor tasks
  Advertisers, \* the Advertisers among them
  Signals,   \* signals the process is notified of
  Attempts   \* bound of serve's loop, 40 in the code

ASSUME ServerAssumption ==
  /\ Ifaces \cap {"watcher", "http", "signal"} = {}
  /\ Advertisers \subseteq Ifaces
  /\ "none" \notin Signals
  /\ Attempts \in Nat \ {0}

Tasks == Ifaces \cup {"watcher", "http", "signal"}

VARIABLES
  cause, term, sig, spc,  \* the context and signalTask
  ret,       \* what each task's Run returned: "none" yet, "nil" or "err",
             \* or "wedged": it never will
  ready,     \* the tasks whose Ready channel is closed
  hpc,       \* httpTask.Run: serve's loop, an attempt of it, in s.Serve,
             \* in the deferred wg.Wait, or returned
  hattempt,  \* serve's loop counter i
  herr,      \* the error fn is returning while it waits in wg.Wait
  hcloses,   \* how often fn closed readyC
  notified,  \* sd_notify messages sent
  started,   \* tasks whose readiness goroutine is done: wg's count
  served     \* what Serve returned: "none" yet, "nil" or "err"

sigVars  == <<cause, term, sig, spc>>
httpVars == <<hpc, hattempt, herr, hcloses>>
vars == <<sigVars, ret, ready, httpVars, notified, started, served>>

S == INSTANCE SignalTask

Outcomes == {"none", "nil", "err", "wedged"}

TypeOK ==
  /\ S!SigTypeOK
  /\ ret \in [Tasks -> Outcomes]
  /\ ready \subseteq Tasks /\ started \subseteq Tasks
  /\ hpc \in {"loop", "attempt", "serving", "wait", "returned"}
  /\ hattempt \in 0..Attempts
  /\ herr \in {"none", "closed", "op", "other"}
  /\ hcloses \in 0..2
  /\ notified \subseteq {"READY", "STOPPING"}
  /\ served \in {"none", "nil", "err"}

(* watcherTask and signalTask are born ready.                              *)
Init ==
  /\ S!SigInit
  /\ ret = [t \in Tasks |-> "none"]
  /\ ready = {"watcher", "signal"}
  /\ hpc = "loop" /\ hattempt = 0 /\ herr = "none" /\ hcloses = 0
  /\ notified = {} /\ started = {}
  /\ served = "none"

-----------------------------------------------------------------------------
(* A task's error is logged and not returned.                              *)
TaskReturnsLogged(t, r) ==
  /\ ret' = [ret EXCEPT ![t] = "nil"]
  /\ IF r = "err" THEN S!Cancel("task") ELSE UNCHANGED cause

(* A task's Run returns r to the errgroup, which cancels on an error.      *)
TaskReturns(t, r) ==
  /\ ret' = [ret EXCEPT ![t] = r]
  /\ IF r = "err" THEN S!Cancel("task") ELSE UNCHANGED cause

(* A task of an interface is initialized for the first time: even after    *)
(* the cancelation, when its Dial was about to succeed.                    *)
IfaceReady(t) ==
  /\ ret[t] = "none"
  /\ t \notin ready
  /\ ready' = ready \cup {t}
  /\ UNCHANGED <<sigVars, ret, httpVars, notified, started, served>>

IfaceReturns(t) ==
  /\ ret[t] = "none"
  /\ \/ S!ctx /\ TaskReturns(t, "nil")
     \/ TaskReturns(t, "err")
  /\ UNCHANGED <<term, sig, spc, ready, httpVars, notified, started, served>>

(* An Advertiser's goroutine sends on the full ipC when schedule has       *)
(* returned: its errgroup waits for ever, with the context canceled or     *)
(* not.  A Monitor has no such channel.                                    *)
IfaceWedges(t) ==
  /\ t \in Advertisers /\ t \in ready
  /\ ret[t] = "none"
  /\ ret' = [ret EXCEPT ![t] = "wedged"]
  /\ UNCHANGED <<sigVars, ready, httpVars, notified, started, served>>

(* watcherTask: canceled, not available here, or failed.                   *)
WatcherReturns ==
  /\ ret["watcher"] = "none"
  /\ TaskReturns("watcher", "nil") \/ TaskReturns("watcher", "err")
  /\ UNCHANGED <<term, sig, spc, ready, httpVars, notified, started, served>>

-----------------------------------------------------------------------------
(* httpTask.                                                               *)

HttpReturns(r) ==
  /\ hpc' = "returned"
  /\ TaskReturns("http", r)
  /\ UNCHANGED <<hattempt, herr, hcloses, ready>>

(* A loop that looks at the context only in the delay.                     *)
ServeCanceledInDelay ==
  /\ hpc = "attempt" /\ hattempt # 0
  /\ S!ctx
  /\ HttpReturns("nil")
  /\ UNCHANGED <<term, sig, spc, notified, started, served>>

(* serve's loop: canceled when an attempt is about to start, or in the     *)
(* delay before one that is not the first.                                 *)
ServeCanceled ==
  /\ \/ hpc = "loop" /\ hattempt < Attempts
     \/ hpc = "attempt" /\ hattempt # 0
  /\ S!ctx
  /\ HttpReturns("nil")
  /\ UNCHANGED <<term, sig, spc, notified, started, served>>

(* A loop that makes one attempt too many.                                 *)
ServeAttemptsLate ==
  /\ hpc = "loop" /\ hattempt <= Attempts
  /\ ~S!ctx
  /\ hpc' = "attempt"
  /\ UNCHANGED <<sigVars, ret, ready, hattempt, herr, hcloses, notified,
                 started, served>>

(* serve's loop: not canceled, so there is an attempt to be made.          *)
ServeAttempts ==
  /\ hpc = "loop" /\ hattempt < Attempts
  /\ ~S!ctx
  /\ hpc' = "attempt"
  /\ UNCHANGED <<sigVars, ret, ready, hattempt, herr, hcloses, notified,
                 started, served>>

(* serve's loop: no attempt left.                                          *)
ServeTimedOut ==
  /\ hpc = "loop" /\ hattempt = Attempts
  /\ HttpReturns("err")
  /\ UNCHANGED <<term, sig, spc, notified, started, served>>

(* fn: net.Listen fails, with an error that is worth another attempt.      *)
ListenFails ==
  /\ hpc = "attempt"
  /\ hpc' = "loop"
  /\ hattempt' = hattempt + 1
  /\ UNCHANGED <<sigVars, ret, ready, herr, hcloses, notified, started,
                 served>>

(* fn: the listener is open; readyC is closed and the server serves.       *)
ListenOk ==
  /\ hpc = "attempt"
  /\ hpc' = "serving"
  /\ hcloses' = hcloses + 1
  /\ ready' = ready \cup {"http"}
  /\ UNCHANGED <<sigVars, ret, hattempt, herr, notified, started, served>>

(* An fn that returns at once when the server stops serving.               *)
ServeStopsAtOnce ==
  /\ hpc = "serving"
  /\ \/ S!ctx /\ HttpReturns("nil")
     \/ /\ hpc' = "loop" /\ hattempt' = hattempt + 1
        /\ UNCHANGED <<cause, ret, ready, herr, hcloses>>
  /\ UNCHANGED <<term, sig, spc, notified, started, served>>

(* s.Serve returns: closed by the goroutine that waits for the             *)
(* cancelation, or with an error of its own.  fn does not return yet.      *)
ServeStops ==
  /\ hpc = "serving"
  /\ \/ S!ctx /\ herr' = "closed"
     \/ herr' \in {"op", "other"}
  /\ hpc' = "wait"
  /\ UNCHANGED <<sigVars, ret, ready, hattempt, hcloses, notified, started,
                 served>>

(* The deferred wg.Wait ends with the cancelation: fn returns, and serve   *)
(* stops or goes on to its next attempt.                                   *)
ServeReturns ==
  /\ hpc = "wait"
  /\ S!ctx
  /\ \/ herr = "closed" /\ HttpReturns("nil")
     \/ herr = "other" /\ HttpReturns("err")
     \/ /\ herr = "op" /\ hpc' = "loop" /\ hattempt' = hattempt + 1
        /\ herr' = "none"
        /\ UNCHANGED <<cause, ret, ready, hcloses>>
  /\ UNCHANGED <<term, sig, spc, notified, started, served>>

-----------------------------------------------------------------------------
(* signalTask: its steps, and its return.                                  *)
SignalRuns ==
  /\ ret["signal"] = "none"
  /\ S!SigReceive \/ S!SigStep
  /\ ret' = [ret EXCEPT !["signal"] = IF spc' = "done" THEN "nil" ELSE @]
  /\ notified' = IF spc = "cancel" THEN notified \cup {"STOPPING"} ELSE notified
  /\ UNCHANGED <<ready, httpVars, started, served>>

(* The goroutine that waits for a task to be ready.                        *)
TaskStarted(t) ==
  /\ t \in ready \ started
  /\ started' = started \cup {t}
  /\ UNCHANGED <<sigVars, ret, ready, httpVars, notified, served>>

(* A notification when the first task has started.                         *)
NotifyReadyEarly ==
  /\ started # {}
  /\ "READY" \notin notified
  /\ notified' = notified \cup {"READY"}
  /\ UNCHANGED <<sigVars, ret, ready, httpVars, started, served>>

(* The goroutine that waits for all of them notifies the supervisor.       *)
NotifyReady ==
  /\ started = Tasks
  /\ "READY" \notin notified
  /\ notified' = notified \cup {"READY"}
  /\ UNCHANGED <<sigVars, ret, ready, httpVars, started, served>>

(* eg.Wait() returns when every task has: so does Serve.                   *)
ServeEnds ==
  /\ served = "none"
  /\ \A t \in Tasks : ret[t] \in {"nil", "err"}
  /\ served' = IF \E t \in Tasks : ret[t] = "err" THEN "err" ELSE "nil"
  /\ UNCHANGED <<sigVars, ret, ready, httpVars, notified, started>>

HttpRuns == \/ ServeCanceled \/ ServeAttempts \/ ServeTimedOut
            \/ ListenFails \/ ListenOk
            \/ ServeStops \/ ServeReturns

Next ==
  \/ \E t \in Ifaces : IfaceReady(t) \/ IfaceReturns(t) \/ IfaceWedges(t)
  \/ WatcherReturns
  \/ HttpRuns
  \/ SignalRuns
  \/ \E t \in Tasks : TaskStarted(t)
  \/ NotifyReady \/ ServeEnds

Spec == Init /\ [][Next]_vars

(* A canceled task of an interface returns, or its Advertiser is wedged    *)
(* (ShutdownUnlessWedged of Advertiser, ImplementsDialer of Monitor); the  *)
(* HTTP server runs and is closed by the cancelation; signalTask runs once *)
(* signaled.                                                               *)
Fairness ==
  /\ \A t \in Ifaces : WF_vars(S!ctx /\ (IfaceReturns(t) \/ IfaceWedges(t)))
  /\ WF_vars(S!ctx /\ WatcherReturns)
  /\ WF_vars(HttpRuns /\ ~(hpc = "serving" /\ ~S!ctx))
  /\ WF_vars(SignalRuns /\ S!SigStep)
  /\ WF_vars(ServeEnds)

FairSpec == Spec /\ Fairness

-----------------------------------------------------------------------------
(* fn closes readyC every time its listener opens, and closing a channel   *)
(* twice panics: the retries of serve never get there a second time,       *)
(* because fn does not return before the cancelation.                      *)
ReadyClosedOnce == hcloses <= 1

(* Serve returns nil only when a signal stopped it and no task failed: the *)
(* daemon never exits quietly because something went wrong.                *)
NilOnlyOnSignal ==
  served = "nil" => cause = "signal" /\ \A t \in Tasks : ret[t] = "nil"

(* The supervisor is told READY only when the HTTP server listens and      *)
(* every interface has been initialized once.                              *)
ReadyMeansAllStarted ==
  "READY" \in notified => Ifaces \subseteq ready /\ hcloses = 1

(* A signal, or the first error of any task, ends every task that can      *)
(* still end, and with the last of them Serve.  The exception is an        *)
(* Advertiser blocked on its full ipC: Serve waits for it for ever, but    *)
(* all others have stopped.                                                *)
CancelEndsServe ==
  S!ctx ~> /\ \A t \in Tasks : ret[t] # "none"
           /\ served # "none" \/ \E t \in Advertisers : ret[t] = "wedged"
=============================================================================
