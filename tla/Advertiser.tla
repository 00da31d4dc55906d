----------------------------- MODULE Advertiser -----------------------------
(***************************************************************************)
(* One incarnation of the Advertiser (internal/corerad/advertise.go): the  *)
(* closure that Run passes to Dialer.Dial, from the moment the connection  *)
(* is open until Dial has closed it.                                       *)
(*                                                                         *)
(* The closure prepares the plugins, sends an initial RA and starts an     *)
(* errgroup of four goroutines: schedule, multicast, the listener and the  *)
(* link state watcher.  The listener and multicast ask for RAs over the    *)
(* bounded channel ipC; schedule hands each request to a schedgroup, which *)
(* sends it later from a goroutine of its own.  Nothing joins these        *)
(* workers: they may outlive the errgroup, the closure and the connection. *)
(*                                                                         *)
(* The delays are not modelled here (see RATiming): a scheduled RA may     *)
(* become due at any time.                                                 *)
(***************************************************************************)
EXTENDS Naturals, Sequences, FiniteSets

CONSTANTS
  Hosts,        \* unicast addresses that solicit RAs
  AllNodes,     \* the all-nodes multicast address
  UnicastOnly,  \* cfg.UnicastOnly
  IpcCap,       \* capacity of ipC, 16 in the code
  Retries,      \* receiveRetry's bound, 5 in the code
  WatchCap,     \* capacity of watchC, 8 in the code
  Signals,      \* signals the process is notified of
  ReadErrs,     \* kinds of errors of reading from the connection
  SendErrs,     \* kinds of errors of building and sending an RA
  MaxEvents     \* bound: solicitations received and rounds of multicast

Dst == Hosts \cup {AllNodes}

ASSUME AdvertiserAssumption ==
  /\ AllNodes \notin Hosts
  /\ UnicastOnly \in BOOLEAN
  /\ IpcCap \in Nat \ {0}
  /\ Retries \in Nat \ {0}
  /\ WatchCap \in Nat
  /\ "none" \notin Signals
  /\ ReadErrs \cup SendErrs \subseteq {"syscall", "perm", "other"}
  /\ MaxEvents \in Nat

VARIABLES
  cause, term, sig, spc,      \* the server's context and signalTask
  main, result, ready, final, \* Run's closure: where it is, what it returned,
                              \* readyC closed, shutdown called send
  egErr,                      \* the errgroup's first error, "nil" for none
  ipC,                        \* requests for RAs, by destination
  sched, serr,                \* schedule and the error it is returning
  mcast, ticks,               \* multicast and the rounds it made
  lpc, tries, lerr, intr,     \* the listener
  lip, msgs,                  \* the request onMessage is about to make;
                              \* solicitations received
  wpc, changes, wclosed,      \* the link state watcher and watchC
  sg, pending, running,       \* schedgroup: its monitor goroutine, tasks
                              \* not yet due, workers about to send
  asked, sent, failed,        \* requests made; workers done; workers whose
                              \* send failed, blocked on errC until received
  conn, lastRA                \* the connection; the last RA on the wire

sigVars   == <<cause, term, sig, spc>>
mainVars  == <<main, result, ready, final>>
schedVars == <<sched, serr>>
mcVars    == <<mcast, ticks>>
lsnVars   == <<lpc, tries, lerr, intr>>
cbVars    == <<lip, msgs>>
linkVars  == <<wpc, changes, wclosed>>
sgVars    == <<sg, pending, running, sent, failed>>
chVars    == <<ipC, asked>>
wireVars  == <<conn, lastRA>>

vars == <<sigVars, mainVars, egErr, chVars, schedVars, mcVars, lsnVars,
          cbVars, linkVars, sgVars, wireVars>>

S == INSTANCE SignalTask

(* errgroup.WithContext: canceled with its parent or by the first error.   *)
EgCtx == S!ctx \/ egErr # "nil"

L == INSTANCE Listener WITH lctx <- EgCtx
W == INSTANCE LinkStateWatcher WITH wctx <- EgCtx

ErrKinds == {"syscall", "perm", "other", "exhausted", "linkChange"}

MainTypeOK ==
  /\ main \in {"init", "running", "shutdown", "returned", "closed"}
  /\ result \in ErrKinds \cup {"nil", "none"}
  /\ ready \in BOOLEAN /\ final \in BOOLEAN
  /\ egErr \in ErrKinds \cup {"nil"}
  /\ conn \in {"open", "closed"}
  /\ lastRA \in {"none", "live", "zero"}

ProducersTypeOK ==
  /\ ipC \in Seq(Dst) /\ Len(ipC) <= IpcCap
  /\ asked \in [Dst -> Nat]
  /\ mcast \in {"check", "put", "wait", "done"}
  /\ ticks \in 0..MaxEvents
  /\ lip \in Dst \cup {"none"}
  /\ msgs \in 0..MaxEvents

ScheduleTypeOK ==
  /\ sched \in {"select", "failed", "done"}
  /\ serr \in ErrKinds \cup {"nil"}
  /\ sg \in {"running", "stopped"}
  /\ pending \in [Dst -> Nat] /\ running \in [Dst -> Nat]
  /\ sent \in [Dst -> Nat] /\ failed \in [Dst -> Nat]

TypeOK ==
  /\ S!SigTypeOK /\ L!LTypeOK /\ W!LinkTypeOK
  /\ MainTypeOK /\ ProducersTypeOK /\ ScheduleTypeOK

(* The connection is open and nothing has been started yet.                *)
Init ==
  /\ S!SigInit /\ L!LInit /\ W!LinkInit
  /\ main = "init" /\ result = "none" /\ ready = FALSE /\ final = FALSE
  /\ egErr = "nil"
  /\ ipC = <<>> /\ asked = [d \in Dst |-> 0]
  /\ sched = "select" /\ serr = "nil"
  /\ mcast = (IF UnicastOnly THEN "done" ELSE "check") /\ ticks = 0
  /\ lip = "none" /\ msgs = 0
  /\ sg = "running"
  /\ pending = [d \in Dst |-> 0] /\ running = [d \in Dst |-> 0]
  /\ sent = [d \in Dst |-> 0] /\ failed = [d \in Dst |-> 0]
  /\ conn = "open" /\ lastRA = "none"

-----------------------------------------------------------------------------
(* A goroutine of the errgroup returns e: the first error is kept.         *)
EgReturn(e) == egErr' = IF egErr = "nil" THEN e ELSE egErr

(* send returns at once when asked to multicast in unicast-only mode.      *)
NothingToSend(d) == UnicastOnly /\ d = AllNodes

(* send succeeds: ra is "live" when built from a.cfg and "zero" when built *)
(* from the copy whose default lifetime is 0.                              *)
SendOk(d, ra) ==
  \/ NothingToSend(d) /\ UNCHANGED wireVars
  \/ ~NothingToSend(d) /\ conn = "open" /\ lastRA' = ra /\ UNCHANGED conn

(* send fails: buildRA or conn.WriteTo returned an error, as a write to a  *)
(* closed connection always does.                                          *)
SendFails(d) ==
  /\ ~NothingToSend(d)
  /\ conn = "closed" \/ SendErrs # {}
  /\ UNCHANGED wireVars

-----------------------------------------------------------------------------
(* Run's closure.                                                          *)

(* Plugins are prepared and the initial RA is sent; then advertise runs.   *)
Start ==
  /\ main = "init"
  /\ SendOk(AllNodes, "live")
  /\ main' = "running"
  /\ ready' = TRUE
  /\ UNCHANGED <<sigVars, result, final, egErr, chVars, schedVars, mcVars, lsnVars,
                 cbVars, linkVars, sgVars>>

(* A plugin cannot be prepared, or the initial RA cannot be sent.  Both    *)
(* errors are formatted with %v: whatever their cause, it is unrecoverable.*)
StartFails ==
  /\ main = "init"
  /\ main' = "returned"
  /\ result' = "other"
  /\ UNCHANGED <<sigVars, ready, final, egErr, chVars, schedVars, mcVars, lsnVars,
                 cbVars, linkVars, sgVars, wireVars>>

(* An EgWait that takes a link change for a shutdown.                      *)
EgWaitLinkChange ==
  /\ main = "running"
  /\ sched = "done" /\ mcast = "done" /\ lpc = "returned" /\ wpc = "done"
  /\ \/ egErr \in {"nil", "linkChange"} /\ main' = "shutdown" /\ UNCHANGED result
     \/ egErr \notin {"nil", "linkChange"} /\ main' = "returned" /\ result' = egErr
  /\ UNCHANGED <<sigVars, ready, final, egErr, chVars, schedVars, mcVars, lsnVars,
                 cbVars, linkVars, sgVars, wireVars>>

(* advertise: eg.Wait() returns.  Its error, if any, is the closure's;     *)
(* without one the context was canceled and the closure shuts down.        *)
EgWait ==
  /\ main = "running"
  /\ sched = "done" /\ mcast = "done" /\ lpc = "returned" /\ wpc = "done"
  /\ \/ egErr = "nil" /\ main' = "shutdown" /\ UNCHANGED result
     \/ egErr # "nil" /\ main' = "returned" /\ result' = egErr
  /\ UNCHANGED <<sigVars, ready, final, egErr, chVars, schedVars, mcVars, lsnVars,
                 cbVars, linkVars, sgVars, wireVars>>

(* A shutdown that does not ask whether the process terminates.            *)
ShutdownAlways ==
  /\ main = "shutdown"
  /\ main' = "returned"
  /\ result' = "nil"
  /\ final' = TRUE
  /\ SendOk(AllNodes, "zero") \/ SendFails(AllNodes)
  /\ UNCHANGED <<sigVars, ready, egErr, chVars, schedVars, mcVars, lsnVars,
                 cbVars, linkVars, sgVars>>

(* shutdown: the final RA, only if the process terminates for good.  A     *)
(* failed send is logged.  The closure returns nil either way.             *)
Shutdown ==
  /\ main = "shutdown"
  /\ main' = "returned"
  /\ result' = "nil"
  /\ final' = term
  /\ \/ ~term /\ UNCHANGED wireVars
     \/ term /\ (SendOk(AllNodes, "zero") \/ SendFails(AllNodes))
  /\ UNCHANGED <<sigVars, ready, egErr, chVars, schedVars, mcVars, lsnVars,
                 cbVars, linkVars, sgVars>>

(* Dial calls done(): the connection is closed.                            *)
Close ==
  /\ main = "returned"
  /\ main' = "closed"
  /\ conn' = "closed"
  /\ UNCHANGED <<sigVars, result, ready, final, egErr, chVars, schedVars,
                 mcVars, lsnVars, cbVars, linkVars, sgVars, lastRA>>

-----------------------------------------------------------------------------
(* schedule.                                                               *)

(* A worker hands over its error: schedule cancels its own context ...     *)
ScheduleErr ==
  /\ main = "running" /\ sched = "select"
  /\ \E d \in Dst : failed[d] > 0
  /\ sched' = "failed"
  /\ serr' \in SendErrs
  /\ UNCHANGED <<sigVars, mainVars, egErr, chVars, mcVars, lsnVars, cbVars,
                 linkVars, sgVars, wireVars>>

(* ... and returns the error to the errgroup.                              *)
ScheduleFailed ==
  /\ main = "running" /\ sched = "failed"
  /\ sched' = "done"
  /\ EgReturn(serr)
  /\ serr' = "nil"
  /\ UNCHANGED <<sigVars, mainVars, chVars, mcVars, lsnVars, cbVars,
                 linkVars, sgVars, wireVars>>

(* A schedule that first waits for everything it has scheduled.            *)
ScheduleDoneDrained ==
  /\ main = "running" /\ sched = "select"
  /\ EgCtx /\ \A d \in Dst : pending[d] = 0
  /\ sched' = "done"
  /\ UNCHANGED <<sigVars, mainVars, egErr, chVars, serr, mcVars, lsnVars,
                 cbVars, linkVars, sgVars, wireVars>>

(* The select picks the cancelation.  sg.Wait() does not wait for workers  *)
(* once the context is canceled; schedule returns nil.                     *)
ScheduleDone ==
  /\ main = "running" /\ sched = "select"
  /\ EgCtx
  /\ sched' = "done"
  /\ UNCHANGED <<sigVars, mainVars, egErr, chVars, serr, mcVars, lsnVars,
                 cbVars, linkVars, sgVars, wireVars>>

(* A schedule with a single pending RA for each destination.               *)
ScheduleRACoalesced ==
  /\ main = "running" /\ sched = "select"
  /\ ipC # <<>>
  /\ ipC' = Tail(ipC)
  /\ pending' = [pending EXCEPT ![Head(ipC)] = 1]
  /\ UNCHANGED <<sigVars, mainVars, egErr, asked, schedVars, mcVars, lsnVars,
                 cbVars, linkVars, sg, running, sent, failed, wireVars>>

(* The select picks a request, which is scheduled: sg.Delay.               *)
ScheduleRA ==
  /\ main = "running" /\ sched = "select"
  /\ ipC # <<>>
  /\ ipC' = Tail(ipC)
  /\ pending' = [pending EXCEPT ![Head(ipC)] = @ + 1]
  /\ UNCHANGED <<sigVars, mainVars, egErr, asked, schedVars, mcVars, lsnVars,
                 cbVars, linkVars, sg, running, sent, failed, wireVars>>

-----------------------------------------------------------------------------
(* schedgroup and sendWorker.                                              *)

(* schedule's context: the errgroup's, or canceled by schedule itself.     *)
SchedCtx == EgCtx \/ sched # "select"

(* A scheduled RA is due: its worker starts.                               *)
Dispatch(d) ==
  /\ sg = "running"
  /\ pending[d] > 0
  /\ pending' = [pending EXCEPT ![d] = @ - 1]
  /\ running' = [running EXCEPT ![d] = @ + 1]
  /\ UNCHANGED <<sigVars, mainVars, egErr, chVars, schedVars, mcVars, lsnVars,
                 cbVars, linkVars, sg, sent, failed, wireVars>>

(* The schedgroup's monitor notices the cancelation: nothing more is due.  *)
SchedgroupStops ==
  /\ sg = "running"
  /\ SchedCtx
  /\ sg' = "stopped"
  /\ UNCHANGED <<sigVars, mainVars, egErr, chVars, schedVars, mcVars, lsnVars,
                 cbVars, linkVars, pending, running, sent, failed, wireVars>>

(* A worker sends its RA, whether or not anyone was canceled meanwhile.    *)
WorkerSends(d) ==
  /\ running[d] > 0
  /\ SendOk(d, "live")
  /\ running' = [running EXCEPT ![d] = @ - 1]
  /\ sent' = [sent EXCEPT ![d] = @ + 1]
  /\ UNCHANGED <<sigVars, mainVars, egErr, chVars, schedVars, mcVars, lsnVars,
                 cbVars, linkVars, sg, pending, failed>>

(* A worker fails and blocks on errC, which schedule may never read again. *)
WorkerFails(d) ==
  /\ running[d] > 0
  /\ SendFails(d)
  /\ running' = [running EXCEPT ![d] = @ - 1]
  /\ failed' = [failed EXCEPT ![d] = @ + 1]
  /\ UNCHANGED <<sigVars, mainVars, egErr, chVars, schedVars, mcVars, lsnVars,
                 cbVars, linkVars, sg, pending, sent>>

-----------------------------------------------------------------------------
(* multicast and the listener's callback: the two producers of requests.   *)

(* A send that does not wait for room.                                     *)
PutUnbounded(d) ==
  /\ ipC' = Append(ipC, d)
  /\ asked' = [asked EXCEPT ![d] = @ + 1]

(* ipC <- d: a send on a bounded channel.                                  *)
Put(d) ==
  /\ Len(ipC) < IpcCap
  /\ ipC' = Append(ipC, d)
  /\ asked' = [asked EXCEPT ![d] = @ + 1]

(* Top of multicast's loop: stop when canceled, otherwise make a request.  *)
MulticastCheck ==
  /\ main = "running" /\ mcast = "check"
  /\ mcast' = IF EgCtx THEN "done" ELSE "put"
  /\ UNCHANGED <<sigVars, mainVars, egErr, chVars, schedVars, ticks, lsnVars,
                 cbVars, linkVars, sgVars, wireVars>>

(* The send on ipC does not look at the context.                           *)
MulticastPut ==
  /\ main = "running" /\ mcast = "put"
  /\ Put(AllNodes)
  /\ mcast' = "wait"
  /\ UNCHANGED <<sigVars, mainVars, egErr, schedVars, ticks, lsnVars, cbVars,
                 linkVars, sgVars, wireVars>>

(* The wait between two multicasts ends by cancelation ...                 *)
MulticastCanceled ==
  /\ main = "running" /\ mcast = "wait"
  /\ EgCtx
  /\ mcast' = "done"
  /\ UNCHANGED <<sigVars, mainVars, egErr, chVars, schedVars, ticks, lsnVars,
                 cbVars, linkVars, sgVars, wireVars>>

(* ... or because multicastDelay has passed.                               *)
MulticastTick ==
  /\ main = "running" /\ mcast = "wait"
  /\ msgs + ticks < MaxEvents
  /\ mcast' = "check"
  /\ ticks' = ticks + 1
  /\ UNCHANGED <<sigVars, mainVars, egErr, chVars, schedVars, lsnVars, cbVars,
                 linkVars, sgVars, wireVars>>

(* handle: an RS from a host with an address asks for a unicast RA, one    *)
(* from the unspecified address for a multicast RA.                        *)
HandleRS ==
  /\ main = "running" /\ lpc = "callback" /\ lip = "none"
  /\ msgs + ticks < MaxEvents
  /\ msgs' = msgs + 1
  /\ lip' \in Dst
  /\ UNCHANGED <<sigVars, mainVars, egErr, chVars, schedVars, mcVars, lsnVars,
                 linkVars, sgVars, wireVars>>

(* The callback's send on ipC does not look at the context either.         *)
HandlePut ==
  /\ main = "running" /\ lpc = "callback" /\ lip # "none"
  /\ Put(lip)
  /\ lip' = "none"
  /\ L!CallbackOk
  /\ UNCHANGED <<sigVars, mainVars, egErr, schedVars, mcVars, msgs, linkVars,
                 sgVars, wireVars>>

(* handle: an RA is compared with our own (see VerifyRA), other messages   *)
(* are counted; neither asks for anything.                                 *)
HandleOther ==
  /\ main = "running" /\ lip = "none"
  /\ L!CallbackOk
  /\ UNCHANGED <<sigVars, mainVars, egErr, chVars, schedVars, mcVars, cbVars,
                 linkVars, sgVars, wireVars>>

(* handle: our own RA, to compare a received one with, cannot be built.    *)
HandleFails ==
  /\ main = "running" /\ lip = "none"
  /\ "other" \in SendErrs
  /\ L!CallbackErr("other")
  /\ UNCHANGED <<sigVars, mainVars, egErr, chVars, schedVars, mcVars, cbVars,
                 linkVars, sgVars, wireVars>>

(* The listener's steps; it returns its error to the errgroup.             *)
ListenerRuns ==
  /\ main = "running"
  /\ \/ (L!Check \/ L!Backoff \/ L!Interrupt \/ L!NetworkStep)
        /\ UNCHANGED egErr
     \/ (L!WaitReturn \/ L!DeferReturn) /\ EgReturn(lerr')
  /\ UNCHANGED <<sigVars, mainVars, chVars, schedVars, mcVars, cbVars, linkVars,
                 sgVars, wireVars>>

-----------------------------------------------------------------------------
(* The link state watcher, its channel, and the server around.             *)

LinkWatcherRuns ==
  /\ main = "running"
  /\ \/ (W!WatchCanceled \/ W!WatchClosed) /\ UNCHANGED egErr
     \/ W!WatchChanged /\ EgReturn("linkChange")
  /\ UNCHANGED <<sigVars, mainVars, chVars, schedVars, mcVars, lsnVars, cbVars,
                 sgVars, wireVars>>

(* Only what happens while the watcher listens matters to an incarnation.  *)
LinkEvent ==
  /\ wpc = "select"
  /\ W!LinkChange \/ W!WatcherHalts
  /\ UNCHANGED <<sigVars, mainVars, egErr, chVars, schedVars, mcVars, lsnVars,
                 cbVars, sgVars, wireVars>>

ServerRuns ==
  /\ S!SigNext
  /\ UNCHANGED <<mainVars, egErr, chVars, schedVars, mcVars, lsnVars, cbVars,
                 linkVars, sgVars, wireVars>>

-----------------------------------------------------------------------------
(* What the closure and its goroutines do.                                 *)
Run ==
  \/ Start \/ StartFails \/ EgWait \/ Shutdown
  \/ ScheduleErr \/ ScheduleFailed \/ ScheduleDone \/ ScheduleRA
  \/ SchedgroupStops
  \/ \E d \in Dst : Dispatch(d) \/ WorkerSends(d) \/ WorkerFails(d)
  \/ MulticastCheck \/ MulticastPut \/ MulticastCanceled \/ MulticastTick
  \/ HandleRS \/ HandlePut \/ HandleOther \/ HandleFails
  \/ ListenerRuns \/ LinkWatcherRuns

Next == Run \/ Close \/ LinkEvent \/ ServerRuns

Spec == Init /\ [][Next]_vars

(* Every goroutine that can run does, and a timer that is set fires: one   *)
(* weak fairness condition for each of Run's closure, schedule, multicast, *)
(* the listener, its interrupter, the link state watcher, the schedgroup,  *)
(* the workers and signalTask.  Nothing is assumed of the network, the     *)
(* link, signals or the next multicast tick.                               *)
Fairness ==
  /\ WF_vars(Start \/ StartFails \/ EgWait \/ Shutdown \/ Close)
  /\ WF_vars(ScheduleErr \/ ScheduleFailed \/ ScheduleDone \/ ScheduleRA)
  /\ WF_vars(MulticastCheck \/ MulticastPut \/ MulticastCanceled)
  /\ WF_vars(\/ HandleRS \/ HandlePut \/ HandleOther \/ HandleFails
             \/ ListenerRuns /\ L!ListenStep)
  /\ WF_vars(ListenerRuns /\ L!Interrupt)
  /\ WF_vars(LinkWatcherRuns)
  /\ WF_vars(SchedgroupStops \/ \E d \in Dst : Dispatch(d))
  /\ WF_vars(\E d \in Dst : WorkerSends(d) \/ WorkerFails(d))
  /\ WF_vars(ServerRuns /\ S!SigStep)

FairSpec == Spec /\ Fairness

-----------------------------------------------------------------------------
(* The closure returns nil, which ends Dial's loop for good, only after    *)
(* the server's context was canceled: an Advertiser never stops serving    *)
(* quietly (advertise's "Should only reach this state when context is      *)
(* canceled on shutdown", and Run's switch on its result).                 *)
CleanReturnOnlyOnCancel == result = "nil" => S!ctx

(* When a signal stops the server and the closure returns nil, a final RA  *)
(* was attempted exactly if the signal was terminal: signalTask records    *)
(* the signal before it cancels, and shutdown reads it after.  A reload    *)
(* (SIGHUP) never takes the hosts' default route away.                     *)
FinalRAIffTerminal ==
  result = "nil" /\ cause = "signal" => (final <=> S!isTerminal(sig))

(* The positions at which the channel holds requests for d.                *)
Positions(s, d) == {i \in DOMAIN s : s[i] = d}

(* Every request accepted on ipC is in exactly one place: in the channel,  *)
(* scheduled, with a worker, sent, or failed.  None is lost or doubled on  *)
(* its way from the listener through schedule to its worker.               *)
RequestsConserved ==
  \A d \in Dst :
    asked[d] = Cardinality(Positions(ipC, d))
               + pending[d] + running[d] + sent[d] + failed[d]

(* Producers blocked for good: schedule is gone and the channel is full.   *)
Wedged ==
  /\ sched = "done"
  /\ Len(ipC) = IpcCap
  /\ mcast = "put" \/ lip # "none"

(* Once the context is canceled the incarnation ends and its connection is *)
(* closed, unless a producer is wedged on the channel nobody drains: that  *)
(* is the only way in which shutdown can hang.                             *)
ShutdownUnlessWedged == S!ctx ~> (main = "closed" \/ Wedged)

(* While the Advertiser runs undisturbed, every request made is eventually *)
(* answered by an RA.                                                      *)
RequestsAnswered ==
  \A d \in Dst : [](asked[d] > sent[d] => <>(asked[d] = sent[d] \/ SchedCtx))
=============================================================================
